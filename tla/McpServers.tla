------------------------------ MODULE McpServers ------------------------------
(***************************************************************************)
(* The MCP servers of a session: the table of runtimes (mcp/client.ts),    *)
(* the connects of a session start and the /mcp commands (mcp/index.ts)    *)
(* and the header secrets of the user's store (mcp/auth-store.ts).         *)
(*                                                                         *)
(* Every operation is a task of one process that runs until an await: the  *)
(* user's input, a client's close, a client's connect.  A command may be   *)
(* given while another waits, a session may be replaced while its connects *)
(* go on.  The servers here take header secrets, which are read when a     *)
(* client is made; the tokens of an OAuth server are read from the store   *)
(* whenever its client needs them.                                         *)
(***************************************************************************)
EXTENDS Integers, Sequences, FiniteSets

CONSTANTS
    Servers,       \* the names mcp.json may hold, in its order: a sequence
    Commands,      \* the commands that may be waiting at once
    Loops,         \* the session starts
    MaxClients,    \* bound: clients made
    MaxCommands    \* bound: commands given

Names == {Servers[i] : i \in DOMAIN Servers}
Tasks == Commands \cup Loops

ASSUME TasksAssumption == Commands \cap Loops = {}

VARIABLES
    config,     \* mcp.json: the servers registered
    off,        \* the ones among them with enabled: false
    store,      \* the secret of each server; 0: none
    table,      \* runtimes: the client of each server; 0: none
    clients,    \* every client made: its server, its secret, its state
    task,       \* what each task waits for
    up,         \* a session runs
    given,      \* commands given
    logins,     \* logins answered: each a secret of its own
    stale,      \* history: servers whose secret changed and nobody reconnected
    replaced    \* history: clients a connect dropped from the table

vars == <<config, off, store, table, clients, task, up, given, logins, stale, replaced>>

\* on: the server worked on; after: does a connect follow the close?; copy:
\* the store as a login loaded it; client: the client it waits for; left: the
\* servers a session start has still to visit, by their place.
Task == [at : {"idle", "input", "closing", "connecting"}, on : Names \cup {""}, after : BOOLEAN,
         copy : [Names -> Nat], client : Nat, left : SUBSET DOMAIN Servers]

Client == [server : Names, secret : Nat, state : {"connecting", "up", "error", "closed"}]

TypeOK ==
    /\ config \in SUBSET Names /\ off \in SUBSET Names
    /\ store \in [Names -> Nat] /\ table \in [Names -> Nat]
    /\ clients \in Seq(Client) /\ task \in [Tasks -> Task]
    /\ logins \in Nat /\ given \in Nat /\ up \in BOOLEAN
    /\ stale \in SUBSET Names /\ replaced \in SUBSET Nat

Empty == [n \in Names |-> 0]
Idle == [at |-> "idle", on |-> "", after |-> FALSE, copy |-> Empty, client |-> 0, left |-> {}]

Live(i) == clients[i].state \in {"connecting", "up"}

Init ==
    /\ config \in SUBSET Names /\ off \in SUBSET config /\ store = Empty /\ table = Empty /\ clients = <<>>
    /\ task = [t \in Tasks |-> Idle] /\ up = FALSE /\ given = 0 /\ logins = 0
    /\ stale = {} /\ replaced = {}

-----------------------------------------------------------------------------
(* McpManager. *)

\* connect, up to its await: the secret is read and the runtime is in the
\* table, called connected, before anything is connected.
Connect(t, n, left) ==
    /\ Len(clients) < MaxClients
    /\ clients' = Append(clients, [server |-> n, secret |-> store[n], state |-> "connecting"])
    /\ table' = [table EXCEPT ![n] = Len(clients) + 1]
    /\ replaced' = IF table[n] = 0 THEN replaced ELSE replaced \cup {table[n]}
    /\ stale' = stale \ {n}
    /\ task' = [task EXCEPT ![t] = [Idle EXCEPT !.at = "connecting", !.on = n,
                                        !.client = Len(clients) + 1, !.left = left]]
    /\ UNCHANGED <<config, off, store, up, given, logins>>

\* Faulty: the runtime leaves the table and its client stays open.
CloseForgets(n) == table' = [table EXCEPT ![n] = 0] /\ UNCHANGED clients

\* close, up to its await: the runtime leaves the table first.
Close(n) ==
    /\ table' = [table EXCEPT ![n] = 0]
    /\ clients' = IF table[n] = 0 THEN clients ELSE [clients EXCEPT ![table[n]].state = "closed"]

\* What the client's connect ends in: tools, an error, or closed under way.
Answer(t) ==
    /\ task[t].at = "connecting"
    /\ IF clients[task[t].client].state = "connecting"
       THEN \E s \in {"up", "error"} : clients' = [clients EXCEPT ![task[t].client].state = s]
       ELSE UNCHANGED clients
    /\ task' = [task EXCEPT ![t] = [Idle EXCEPT !.left = task[t].left]]
    /\ UNCHANGED <<config, off, store, table, up, given, logins, stale, replaced>>

-----------------------------------------------------------------------------
(* connectParentServers, of the enabled servers; nobody awaits it. *)

SessionStart(l) ==
    /\ ~up /\ up' = TRUE
    /\ task[l] = Idle
    /\ task' = [task EXCEPT ![l].left = {i \in DOMAIN Servers : Servers[i] \in config \ off}]
    /\ UNCHANGED <<config, off, store, table, clients, given, logins, stale, replaced>>

\* The loop goes on to the next server that has no runtime.
Visit(l) ==
    LET left == task[l].left
        open == {i \in left : table[Servers[i]] = 0}
    IN  /\ task[l].at = "idle" /\ left # {}
        /\ \/ /\ open = {}
              /\ task' = [task EXCEPT ![l] = Idle]
              /\ UNCHANGED <<config, off, store, table, clients, up, given, logins, stale, replaced>>
           \/ \E i \in open : /\ \A j \in open : i <= j
                              /\ Connect(l, Servers[i], {j \in left : j > i})

\* closeAll is not awaited, and the connects under way are not called off.
SessionShutdown ==
    /\ up /\ up' = FALSE
    /\ table' = Empty
    /\ clients' = [i \in DOMAIN clients |->
                     IF table[clients[i].server] = i THEN [clients[i] EXCEPT !.state = "closed"]
                     ELSE clients[i]]
    /\ UNCHANGED <<config, off, store, task, given, logins, stale, replaced>>

-----------------------------------------------------------------------------
(* /mcp. *)

Begin(c) == up /\ task[c] = Idle /\ given < MaxCommands /\ given' = given + 1

CloseFor(t, n, after) ==
    /\ Close(n)
    /\ task' = [task EXCEPT ![t] = [Idle EXCEPT !.at = "closing", !.on = n, !.after = after]]

Add(c, n) ==
    /\ Begin(c) /\ n \notin config
    /\ config' = config \cup {n}
    /\ UNCHANGED <<off, store, table, clients, task, up, logins, stale, replaced>>

\* status: a live probe, also of a server that is not enabled.
Probe(c, n) ==
    /\ Begin(c) /\ n \in config
    /\ CloseFor(c, n, TRUE)
    /\ UNCHANGED <<config, off, store, up, logins, stale, replaced>>

\* remove, and logout, which leaves the server registered.
Forget(c, n, keep) ==
    /\ Begin(c) /\ (n \in config \/ keep)
    /\ config' = IF keep THEN config ELSE config \ {n}
    /\ off' = IF keep THEN off ELSE off \ {n}
    /\ store' = [store EXCEPT ![n] = 0]
    /\ CloseFor(c, n, FALSE)
    /\ UNCHANGED <<up, logins, stale, replaced>>

\* login, of a server with headers: the store is loaded before the prompt.
Login(c, n) ==
    /\ Begin(c) /\ n \in config
    /\ task' = [task EXCEPT ![c] = [Idle EXCEPT !.at = "input", !.on = n, !.copy = store]]
    /\ UNCHANGED <<config, off, store, table, clients, up, logins, stale, replaced>>

\* Faulty: the runtime made with the old secret stays.
RefreshNothing(c, n) ==
    /\ task' = [task EXCEPT ![c] = Idle] /\ UNCHANGED <<table, clients>>

\* refreshServerRuntime, if the server is still registered, and enabled.
RefreshServerRuntime(c, n) ==
    IF n \in config \ off THEN CloseFor(c, n, TRUE)
    ELSE task' = [task EXCEPT ![c] = Idle] /\ UNCHANGED <<table, clients>>

\* The answer to the prompt: the copy, with the new secret, is the store.
Submit(c) ==
    LET n == task[c].on
    IN  /\ task[c].at = "input"
        /\ logins' = logins + 1
        /\ store' = [task[c].copy EXCEPT ![n] = logins']
        /\ stale' = stale \cup {m \in Names : store'[m] # store[m] /\ (m # n \/ n \notin config \ off)}
        /\ RefreshServerRuntime(c, n)
        /\ UNCHANGED <<config, off, up, given, replaced>>

\* The client is closed; the connect that follows does not look whether the
\* server is still registered, or the table still empty.
Closed(c) ==
    /\ task[c].at = "closing"
    /\ IF task[c].after THEN Connect(c, task[c].on, {})
       ELSE /\ task' = [task EXCEPT ![c] = Idle]
            /\ UNCHANGED <<config, off, store, table, clients, up, given, logins, stale, replaced>>

Next ==
    \/ \E l \in Loops : SessionStart(l)
    \/ \E l \in Loops : Visit(l)
    \/ SessionShutdown
    \/ \E t \in Tasks : Answer(t)
    \/ \E c \in Commands, n \in Names : Add(c, n)
    \/ \E c \in Commands, n \in Names : Probe(c, n)
    \/ \E c \in Commands, n \in Names, keep \in BOOLEAN : Forget(c, n, keep)
    \/ \E c \in Commands, n \in Names : Login(c, n)
    \/ \E c \in Commands : Submit(c)
    \/ \E c \in Commands : Closed(c)

Spec == Init /\ [][Next]_vars

-----------------------------------------------------------------------------
\* The client a registered server has in the table was made with the secret
\* in the store, whatever logins, logouts, probes and connects overlapped
\* (the close after every change of a secret, mcp/index.ts); unless the login
\* of another server put an older secret back, or a login was answered when
\* its server was no longer registered, or not enabled (a probe connects it
\* nevertheless).
StoredSecretIsUsed ==
    \A n \in config \ stale : table[n] # 0 => clients[table[n]].secret = store[n]

\* A client that is open is in the table, where the next probe and the
\* shutdown find it, unless another connect of its server took its place.
OpenClientsAreFound ==
    \A i \in DOMAIN clients : Live(i) => table[clients[i].server] = i \/ i \in replaced
=============================================================================
