------------------------------- MODULE MCRefresh -------------------------------
(* Two tooling files and a data file.  The other package ships a new version
   of both tooling files and no data file. *)
EXTENDS Refresh

Package(validate, template, board) ==
    [validate |-> validate, template |-> template, board |-> board]

MCPackages ==
    {Package("v1", "v1", "v1"), Package("v2", "v2", None)}
=============================================================================
