------------------------------ MODULE MCMcpServers ------------------------------
(* Two servers with header secrets, two commands at once, two sessions. *)
EXTENDS McpServers, TLC

MCServers == <<"docs", "search">>

Sym == Permutations(Commands) \cup Permutations(Loops)
=============================================================================
