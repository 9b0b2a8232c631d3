------------------------------- MODULE McpProofs -------------------------------
(***************************************************************************)
(* The servers of a session, for any number of servers, commands, sessions *)
(* and clients.                                                            *)
(*                                                                         *)
(* The two invariants need three facts about the table and the tasks: what *)
(* is in the table is a client of that server (Tabled), a task that waits  *)
(* works on a server, and one that connects has a client (Waiting).  The   *)
(* secret of a runtime agrees with the store also while its server is not  *)
(* registered, or else an Add would break it (SecretsAgree).               *)
(***************************************************************************)
EXTENDS McpServers, TLAPS

Tabled ==
    \A n \in Names : table[n] # 0 => table[n] \in DOMAIN clients /\ clients[table[n]].server = n

Waiting ==
    \A t \in Tasks : /\ task[t].at # "idle" => task[t].on \in Names
                     /\ task[t].at = "connecting" => task[t].client \in DOMAIN clients

SecretsAgree ==
    \A n \in Names \ stale : table[n] # 0 => clients[table[n]].secret = store[n]

IInv == TypeOK /\ Tabled /\ Waiting /\ SecretsAgree /\ OpenClientsAreFound

-----------------------------------------------------------------------------
(* The parts of the steps. *)
LEMMA IdleTask == Idle \in Task /\ Empty \in [Names -> Nat]
BY DEF Idle, Task, Empty

LEMMA ClientType ==
    ASSUME IInv, NEW i \in DOMAIN clients
    PROVE  clients[i].server \in Names /\ i # 0
<1>1. clients \in Seq(Client)
  BY DEF IInv, TypeOK
<1>2. clients[i] \in Client /\ i # 0
  BY <1>1
<1> QED BY <1>2 DEF Client

LEMMA ConnectStep ==
    ASSUME IInv, NEW t \in Tasks, NEW n \in Names, NEW left \in SUBSET DOMAIN Servers,
           Connect(t, n, left)
    PROVE  IInv'
<1>1. PICK k : k = Len(clients) + 1
  OBVIOUS
<1>2. PICK new : new = [server |-> n, secret |-> store[n], state |-> "connecting"]
  OBVIOUS
<1>3. new \in Client
  BY <1>2 DEF IInv, TypeOK, Client
<1>4. clients \in Seq(Client) /\ clients' = Append(clients, new)
  BY <1>2 DEF Connect, IInv, TypeOK
<1>5. /\ clients' \in Seq(Client) /\ DOMAIN clients' = DOMAIN clients \cup {k}
      /\ clients'[k] = new /\ \A i \in DOMAIN clients : clients'[i] = clients[i]
      /\ k \notin DOMAIN clients /\ k \in Nat \ {0}
  BY <1>1, <1>3, <1>4
<1>6. table' = [table EXCEPT ![n] = k]
  BY <1>1 DEF Connect
<1>7. PICK job : job = [Idle EXCEPT !.at = "connecting", !.on = n, !.client = k, !.left = left]
  OBVIOUS
<1>8. task' = [task EXCEPT ![t] = job]
  BY <1>1, <1>7 DEF Connect
<1>9. job \in Task /\ job.on = n /\ job.client = k
  BY <1>5, <1>7, IdleTask DEF Task
<1>10. TypeOK'
  <2>1. table' \in [Names -> Nat] /\ task' \in [Tasks -> Task]
    BY <1>5, <1>6, <1>8, <1>9 DEF IInv, TypeOK
  <2>2. replaced' \in SUBSET Nat /\ stale' \in SUBSET Names
    BY DEF Connect, IInv, TypeOK
  <2> QED BY <1>5, <2>1, <2>2 DEF Connect, IInv, TypeOK
<1>11. Tabled'
  BY <1>2, <1>5, <1>6 DEF IInv, Tabled, TypeOK
<1>12. Waiting'
  BY <1>5, <1>8, <1>9 DEF IInv, Waiting, TypeOK
<1>13. SecretsAgree'
  BY <1>2, <1>5, <1>6 DEF IInv, SecretsAgree, Tabled, TypeOK, Connect
<1>14. OpenClientsAreFound'
  <2> SUFFICES ASSUME NEW i \in DOMAIN clients', clients'[i].state \in {"connecting", "up"}
               PROVE  table'[clients'[i].server] = i \/ i \in replaced'
    BY DEF OpenClientsAreFound, Live
  <2>1. CASE i = k
    BY <1>2, <1>5, <1>6, <2>1 DEF IInv, TypeOK
  <2>2. CASE i \in DOMAIN clients
    <3>1. clients'[i] = clients[i] /\ clients[i].server \in Names /\ i # 0
      BY <1>5, <2>2, ClientType
    <3>2. table[clients[i].server] = i \/ i \in replaced
      BY <2>2, <3>1 DEF IInv, OpenClientsAreFound, Live
    <3>3. replaced' = IF table[n] = 0 THEN replaced ELSE replaced \cup {table[n]}
      BY DEF Connect
    <3>4. PICK s \in Names : s = clients[i].server /\ s = clients'[i].server
      BY <3>1
    <3>5. table'[s] = IF s = n THEN k ELSE table[s]
      BY <1>6 DEF IInv, TypeOK
    <3>6. table'[s] = i \/ i \in replaced'
      BY <3>1, <3>2, <3>3, <3>4, <3>5
    <3> QED BY <3>4, <3>6
  <2> QED BY <1>5, <2>1, <2>2
<1> QED BY <1>10, <1>11, <1>12, <1>13, <1>14 DEF IInv

(* A close, with whatever else the command changes of the store.            *)
LEMMA CloseStep ==
    ASSUME IInv, NEW t \in Tasks, NEW n \in Names, NEW after \in BOOLEAN, CloseFor(t, n, after),
           config' \in SUBSET Names, off' \in SUBSET Names, store' \in [Names -> Nat], stale' \in SUBSET Names,
           stale \subseteq stale', \A m \in Names \ stale' : m # n => store'[m] = store[m],
           logins' \in Nat, given' \in Nat, UNCHANGED <<up, replaced>>
    PROVE  IInv'
<1>1. table' = [table EXCEPT ![n] = 0]
  BY DEF CloseFor, Close
<1>2. /\ clients' \in Seq(Client) /\ DOMAIN clients' = DOMAIN clients
      /\ \A i \in DOMAIN clients : /\ clients'[i].server = clients[i].server
                                   /\ clients'[i].secret = clients[i].secret
                                   /\ i # table[n] => clients'[i] = clients[i]
                                   /\ i = table[n] => clients'[i].state = "closed"
  <2>1. CASE table[n] = 0
    BY <2>1 DEF CloseFor, Close, IInv, TypeOK
  <2>2. CASE table[n] # 0
    <3>1. clients' = [clients EXCEPT ![table[n]].state = "closed"] /\ table[n] \in DOMAIN clients
      BY <2>2 DEF CloseFor, Close, IInv, Tabled
    <3>2. clients \in Seq(Client)
      BY DEF IInv, TypeOK
    <3>3. \A i \in DOMAIN clients : clients[i] \in Client
      BY <3>2
    <3>4. clients' \in [DOMAIN clients -> Client]
      BY <3>1, <3>2, <3>3 DEF Client
    <3>5. clients' \in Seq(Client)
      BY <3>2, <3>4
    <3> QED BY <3>1, <3>3, <3>4, <3>5 DEF Client
  <2> QED BY <2>1, <2>2
<1>3. PICK job : job = [Idle EXCEPT !.at = "closing", !.on = n, !.after = after]
  OBVIOUS
<1>4. task' = [task EXCEPT ![t] = job] /\ job \in Task /\ job.on = n /\ job.at = "closing"
  BY <1>3, IdleTask DEF CloseFor, Task
<1>5. TypeOK'
  <2>1. table' \in [Names -> Nat] /\ task' \in [Tasks -> Task]
    BY <1>1, <1>4 DEF IInv, TypeOK
  <2> QED BY <1>2, <2>1 DEF IInv, TypeOK
<1>6. Tabled'
  BY <1>1, <1>2 DEF IInv, Tabled, TypeOK
<1>7. Waiting'
  BY <1>2, <1>4 DEF IInv, Waiting, TypeOK
<1>8. SecretsAgree'
  BY <1>1, <1>2 DEF IInv, SecretsAgree, Tabled, TypeOK
<1>9. OpenClientsAreFound'
  <2> SUFFICES ASSUME NEW i \in DOMAIN clients, clients'[i].state \in {"connecting", "up"}
               PROVE  table'[clients'[i].server] = i \/ i \in replaced
    BY <1>2 DEF OpenClientsAreFound, Live
  <2>1. i # table[n] /\ clients'[i] = clients[i]
    BY <1>2
  <2>2. table[clients[i].server] = i \/ i \in replaced
    BY <2>1 DEF IInv, OpenClientsAreFound, Live
  <2>3. clients[i].server \in Names
    BY ClientType
  <2>4. PICK s \in Names : s = clients[i].server /\ s = clients'[i].server
    BY <2>1, <2>3
  <2>5. table'[s] = IF s = n THEN 0 ELSE table[s]
    BY <1>1 DEF IInv, TypeOK
  <2>6. table'[s] = i \/ i \in replaced
    BY <2>1, <2>2, <2>4, <2>5
  <2> QED BY <2>4, <2>6
<1> QED BY <1>5, <1>6, <1>7, <1>8, <1>9 DEF IInv

(* A step that leaves the table and the clients alone. *)
LEMMA OtherStep ==
    ASSUME IInv, TypeOK', UNCHANGED <<table, clients, replaced>>,
           stale \subseteq stale', \A m \in Names \ stale' : store'[m] = store[m],
           \A t \in Tasks : \/ task'[t] = task[t] \/ task'[t].at = "idle"
                            \/ task'[t].at = "input" /\ task'[t].on \in Names
    PROVE  IInv'
<1>1. Tabled'
  BY DEF IInv, Tabled
<1>2. Waiting'
  BY DEF IInv, Waiting
<1>3. SecretsAgree'
  BY DEF IInv, SecretsAgree
<1>4. OpenClientsAreFound'
  BY DEF IInv, OpenClientsAreFound, Live
<1> QED BY <1>1, <1>2, <1>3, <1>4 DEF IInv

-----------------------------------------------------------------------------
LEMMA InitIInv == Init => IInv
<1> SUFFICES ASSUME Init PROVE IInv
  OBVIOUS
<1>1. clients = <<>> /\ clients \in Seq(Client) /\ DOMAIN clients = {}
  BY DEF Init
<1>2. TypeOK
  BY <1>1, IdleTask DEF Init, TypeOK
<1>3. Tabled /\ Waiting /\ SecretsAgree /\ OpenClientsAreFound
  BY <1>1 DEF Init, Tabled, Waiting, SecretsAgree, OpenClientsAreFound, Empty, Idle
<1> QED BY <1>2, <1>3 DEF IInv

LEMMA VisitStep == ASSUME IInv, NEW l \in Loops, Visit(l) PROVE IInv'
<1>1. l \in Tasks /\ task[l].left \in SUBSET DOMAIN Servers
  BY DEF Tasks, IInv, TypeOK, Task
<1>2. ASSUME task' = [task EXCEPT ![l] = Idle],
             UNCHANGED <<config, off, store, table, clients, up, given, logins, stale, replaced>>
      PROVE  IInv'
  <2>1. TypeOK'
    BY <1>1, <1>2, IdleTask DEF IInv, TypeOK
  <2>2. \A t \in Tasks : task'[t] = task[t] \/ task'[t].at = "idle"
    BY <1>1, <1>2 DEF IInv, TypeOK, Idle
  <2> QED BY <1>2, <2>1, <2>2, OtherStep
<1>3. ASSUME NEW i \in task[l].left, Connect(l, Servers[i], {j \in task[l].left : j > i})
      PROVE  IInv'
  <2>1. Servers[i] \in Names /\ {j \in task[l].left : j > i} \in SUBSET DOMAIN Servers
    BY <1>1 DEF Names
  <2> QED BY <1>1, <1>3, <2>1, ConnectStep
<1> QED BY <1>2, <1>3 DEF Visit

LEMMA AnswerStep == ASSUME IInv, NEW t \in Tasks, Answer(t) PROVE IInv'
<1>1. PICK k : k = task[t].client
  OBVIOUS
<1>2. k \in DOMAIN clients /\ clients \in Seq(Client)
  BY <1>1 DEF Answer, IInv, Waiting, TypeOK
<1>3. \A i \in DOMAIN clients : clients[i] \in Client
  BY <1>2
<1>4. \/ clients' = clients
      \/ /\ clients[k].state = "connecting"
         /\ \E s \in {"up", "error"} : clients' = [clients EXCEPT ![k].state = s]
  BY <1>1 DEF Answer
<1>5. /\ clients' \in Seq(Client) /\ DOMAIN clients' = DOMAIN clients
      /\ \A i \in DOMAIN clients : /\ clients'[i].server = clients[i].server
                                   /\ clients'[i].secret = clients[i].secret
                                   /\ clients'[i].state \in {"connecting", "up"} =>
                                        clients[i].state \in {"connecting", "up"}
  <2>1. CASE clients' = clients
    BY <1>2, <2>1
  <2>2. ASSUME clients[k].state = "connecting", NEW s \in {"up", "error"},
               clients' = [clients EXCEPT ![k].state = s]
        PROVE  /\ clients' \in Seq(Client) /\ DOMAIN clients' = DOMAIN clients
               /\ \A i \in DOMAIN clients : /\ clients'[i].server = clients[i].server
                                            /\ clients'[i].secret = clients[i].secret
                                            /\ clients'[i].state \in {"connecting", "up"} =>
                                                 clients[i].state \in {"connecting", "up"}
    <3>1. clients' \in [DOMAIN clients -> Client]
      BY <1>2, <1>3, <2>2 DEF Client
    <3>2. clients' \in Seq(Client)
      BY <1>2, <3>1
    <3> QED BY <1>2, <1>3, <2>2, <3>1, <3>2 DEF Client
  <2> QED BY <1>4, <2>1, <2>2
<1>6. PICK job : job = [Idle EXCEPT !.left = task[t].left]
  OBVIOUS
<1>7. task' = [task EXCEPT ![t] = job] /\ job \in Task /\ job.at = "idle"
  BY <1>6, IdleTask DEF Answer, Task, Idle, IInv, TypeOK
<1>8. TypeOK'
  <2>1. task' \in [Tasks -> Task]
    BY <1>7 DEF IInv, TypeOK
  <2> QED BY <1>5, <2>1 DEF Answer, IInv, TypeOK
<1>9. Tabled' /\ SecretsAgree'
  BY <1>5 DEF Answer, IInv, Tabled, SecretsAgree
<1>10. Waiting'
  BY <1>5, <1>7 DEF IInv, Waiting, TypeOK
<1>11. OpenClientsAreFound'
  BY <1>5 DEF Answer, IInv, OpenClientsAreFound, Live
<1> QED BY <1>8, <1>9, <1>10, <1>11 DEF IInv

LEMMA ShutdownStep == ASSUME IInv, SessionShutdown PROVE IInv'
<1>1. clients \in Seq(Client) /\ \A i \in DOMAIN clients : clients[i] \in Client
  BY DEF IInv, TypeOK
<1>2. /\ clients' \in [DOMAIN clients -> Client]
      /\ \A i \in DOMAIN clients : \/ clients'[i].state = "closed"
                                   \/ /\ clients'[i] = clients[i]
                                      /\ table[clients[i].server] # i
  BY <1>1 DEF SessionShutdown, Client
<1>3. clients' \in Seq(Client)
  BY <1>1, <1>2
<1>4. TypeOK'
  BY <1>3, IdleTask DEF SessionShutdown, IInv, TypeOK
<1>5. Tabled' /\ Waiting' /\ SecretsAgree'
  BY <1>2 DEF SessionShutdown, IInv, Tabled, Waiting, SecretsAgree, Empty
<1>6. OpenClientsAreFound'
  BY <1>2 DEF SessionShutdown, IInv, OpenClientsAreFound, Live
<1> QED BY <1>4, <1>5, <1>6 DEF IInv

LEMMA SubmitStep == ASSUME IInv, NEW c \in Commands, Submit(c) PROVE IInv'
<1>1. PICK n : n = task[c].on
  OBVIOUS
<1>2. c \in Tasks /\ n \in Names /\ task[c].copy \in [Names -> Nat] /\ logins' = logins + 1
  BY <1>1 DEF Submit, Tasks, IInv, Waiting, TypeOK, Task
<1>3. store' = [task[c].copy EXCEPT ![n] = logins'] /\ store' \in [Names -> Nat] /\ logins' \in Nat
  BY <1>1, <1>2 DEF Submit, IInv, TypeOK
<1>4. /\ stale' = stale \cup {m \in Names : store'[m] # store[m] /\ (m # n \/ n \notin config \ off)}
      /\ UNCHANGED <<config, off, up, given, replaced>> /\ RefreshServerRuntime(c, n)
  BY <1>1 DEF Submit
<1>5. CASE n \in config \ off
  <2>1. CloseFor(c, n, TRUE)
    BY <1>4, <1>5 DEF RefreshServerRuntime
  <2>2. \A m \in Names \ stale' : m # n => store'[m] = store[m]
    BY <1>4
  <2>3. /\ stale' \in SUBSET Names /\ stale \subseteq stale'
        /\ config' \in SUBSET Names /\ off' \in SUBSET Names /\ given' \in Nat
    BY <1>4 DEF IInv, TypeOK
  <2> QED BY <1>2, <1>3, <1>4, <2>1, <2>2, <2>3, CloseStep
<1>6. CASE n \notin config \ off
  <2>1. task' = [task EXCEPT ![c] = Idle] /\ UNCHANGED <<table, clients>>
    BY <1>4, <1>6 DEF RefreshServerRuntime
  <2>2. TypeOK'
    <3>1. task' \in [Tasks -> Task] /\ stale' \in SUBSET Names
      BY <1>4, <2>1, IdleTask DEF IInv, TypeOK
    <3> QED BY <1>3, <1>4, <2>1, <3>1 DEF IInv, TypeOK
  <2>3. \A m \in Names \ stale' : store'[m] = store[m]
    BY <1>4, <1>6
  <2>4. \A t \in Tasks : task'[t] = task[t] \/ task'[t].at = "idle"
    BY <2>1 DEF IInv, TypeOK, Idle
  <2> QED BY <1>4, <2>1, <2>2, <2>3, <2>4, OtherStep
<1> QED BY <1>5, <1>6

LEMMA NextIInv == ASSUME IInv, [Next]_vars PROVE IInv'
<1> Commands \subseteq Tasks /\ Loops \subseteq Tasks
  BY DEF Tasks
<1>1. ASSUME NEW l \in Loops, SessionStart(l) PROVE IInv'
  <2>1. PICK job : job = [task[l] EXCEPT !.left = {i \in DOMAIN Servers : Servers[i] \in config \ off}]
    OBVIOUS
  <2>2. /\ task' = [task EXCEPT ![l] = job] /\ task[l] = Idle /\ job \in Task /\ job.at = "idle"
        /\ UNCHANGED <<config, off, store, table, clients, given, logins, stale, replaced>> /\ up' = TRUE
    BY <1>1, <2>1, IdleTask DEF SessionStart, Task, Idle
  <2>3. TypeOK'
    <3>1. task' \in [Tasks -> Task]
      BY <2>2 DEF IInv, TypeOK
    <3> QED BY <2>2, <3>1 DEF IInv, TypeOK
  <2>4. \A t \in Tasks : task'[t] = task[t] \/ task'[t].at = "idle"
    BY <2>2 DEF IInv, TypeOK
  <2> QED BY <2>2, <2>3, <2>4, OtherStep
<1>2. ASSUME NEW c \in Commands, NEW n \in Names, Add(c, n) PROVE IInv'
  <2>1. TypeOK'
    BY <1>2 DEF Add, Begin, IInv, TypeOK
  <2> QED BY <1>2, <2>1, OtherStep DEF Add
<1>3. ASSUME NEW c \in Commands, NEW n \in Names, Probe(c, n) PROVE IInv'
  <2>1. CloseFor(c, n, TRUE) /\ UNCHANGED <<config, off, store, up, logins, stale, replaced>>
    BY <1>3 DEF Probe
  <2>2. given' \in Nat
    BY <1>3 DEF Probe, Begin, IInv, TypeOK
  <2> QED BY <2>1, <2>2, CloseStep DEF IInv, TypeOK
<1>4. ASSUME NEW c \in Commands, NEW n \in Names, NEW keep \in BOOLEAN, Forget(c, n, keep)
      PROVE  IInv'
  <2>1. /\ CloseFor(c, n, FALSE) /\ UNCHANGED <<up, logins, stale, replaced>>
        /\ store' = [store EXCEPT ![n] = 0] /\ config' \subseteq config /\ off' \subseteq off
    BY <1>4 DEF Forget
  <2>2. given' \in Nat
    BY <1>4 DEF Forget, Begin, IInv, TypeOK
  <2>3. /\ store' \in [Names -> Nat] /\ config' \in SUBSET Names /\ off' \in SUBSET Names
        /\ logins' \in Nat
        /\ \A m \in Names : m # n => store'[m] = store[m]
    BY <2>1 DEF IInv, TypeOK
  <2>4. stale' \in SUBSET Names /\ stale \subseteq stale'
    BY <2>1 DEF IInv, TypeOK
  <2> QED BY <2>1, <2>2, <2>3, <2>4, CloseStep
<1>5. ASSUME NEW c \in Commands, NEW n \in Names, Login(c, n) PROVE IInv'
  <2>1. PICK job : job = [Idle EXCEPT !.at = "input", !.on = n, !.copy = store]
    OBVIOUS
  <2>2. /\ task' = [task EXCEPT ![c] = job] /\ job \in Task /\ job.at = "input" /\ job.on = n
        /\ UNCHANGED <<config, off, store, table, clients, up, logins, stale, replaced>>
    BY <1>5, <2>1, IdleTask DEF Login, Task, IInv, TypeOK
  <2>3. TypeOK'
    <3>1. task' \in [Tasks -> Task] /\ given' \in Nat
      BY <1>5, <2>2 DEF Login, Begin, IInv, TypeOK
    <3> QED BY <2>2, <3>1 DEF IInv, TypeOK
  <2>4. \A t \in Tasks : task'[t] = task[t] \/ (task'[t].at = "input" /\ task'[t].on \in Names)
    BY <2>2 DEF IInv, TypeOK
  <2> QED BY <2>2, <2>3, <2>4, OtherStep
<1>6. ASSUME NEW c \in Commands, Closed(c) PROVE IInv'
  <2>1. task[c].on \in Names
    BY <1>6 DEF Closed, IInv, Waiting
  <2>2. CASE task[c].after
    BY <1>6, <2>1, <2>2, ConnectStep DEF Closed
  <2>3. CASE ~task[c].after
    <3>1. /\ task' = [task EXCEPT ![c] = Idle]
          /\ UNCHANGED <<config, off, store, table, clients, up, given, logins, stale, replaced>>
      BY <1>6, <2>3 DEF Closed
    <3>2. TypeOK'
      BY <3>1, IdleTask DEF IInv, TypeOK
    <3>3. \A t \in Tasks : task'[t] = task[t] \/ task'[t].at = "idle"
      BY <3>1 DEF IInv, TypeOK, Idle
    <3> QED BY <3>1, <3>2, <3>3, OtherStep
  <2> QED BY <2>2, <2>3
<1>7. CASE UNCHANGED vars
  <2>1. TypeOK'
    BY <1>7 DEF vars, IInv, TypeOK
  <2> QED BY <1>7, <2>1, OtherStep DEF vars
<1> QED BY <1>1, <1>2, <1>3, <1>4, <1>5, <1>6, <1>7, VisitStep, AnswerStep, ShutdownStep, SubmitStep
        DEF Next

(* Every variable keeps its type. *)
THEOREM TypeCorrect == Spec => []TypeOK
<1>1. IInv => TypeOK
  BY DEF IInv
<1> QED BY <1>1, InitIInv, NextIInv, PTL DEF Spec

(* However commands and connects overlap, a registered server runs on the   *)
(* secret that is stored, up to the exceptions StoredSecretIsUsed names     *)
(* (mcp/index.ts).                                                          *)
THEOREM SecretUsed == Spec => []StoredSecretIsUsed
<1>1. IInv => StoredSecretIsUsed
  BY DEF IInv, TypeOK, SecretsAgree, StoredSecretIsUsed
<1> QED BY <1>1, InitIInv, NextIInv, PTL DEF Spec

(* An open client is in the table or was replaced by another connect of its *)
(* server (connect and close of mcp/client.ts).                             *)
THEOREM ClientsFound == Spec => []OpenClientsAreFound
<1>1. IInv => OpenClientsAreFound
  BY DEF IInv
<1> QED BY <1>1, InitIInv, NextIInv, PTL DEF Spec
=============================================================================
