\* Two servers; three commands, two of them waiting at once, in a session that
\* may be replaced by another.
CONSTANTS
    Servers <- MCServers
    Commands = {c1, c2}
    Loops = {l1, l2}
    MaxClients = 3
    MaxCommands = 3
SPECIFICATION Spec
SYMMETRY Sym
INVARIANTS StoredSecretIsUsed OpenClientsAreFound
CHECK_DEADLOCK FALSE
