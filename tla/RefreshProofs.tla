----------------------------- MODULE RefreshProofs -----------------------------
(***************************************************************************)
(* The refresh, for every set of files, versions, packages and edits, and  *)
(* for any number of changes, upgrades and crashes.                        *)
(*                                                                         *)
(* The record only ever names contents the package shipped; as long as no  *)
(* crash came between a write and its record, it names what is on disk for *)
(* every file the tool wrote last; and what was noted of a drift is what   *)
(* the user was told.  What an apply does is said once for its whole run   *)
(* and for every crash of it: it wrote some of the files of its plan, each *)
(* of them after its backup, and nothing else.                             *)
(***************************************************************************)
EXTENDS Refresh, TLAPS

-----------------------------------------------------------------------------
Tree == [disk : [Files -> Contents \cup {None}], record : [Files -> Versions \cup {None}],
         backups : SUBSET (Files \X (Contents \cup {None})), ours : SUBSET Files]

\* The record names what is on disk.
Faithful(r) == \A f \in r.ours : r.record[f] # None /\ r.disk[f] = r.record[f]

IInv ==
    /\ repo \in Tree /\ shipped \in Packages
    /\ changes \in Nat /\ crashes \in Nat
    /\ crashes = 0 => Faithful(repo)
    /\ unsaved \in BOOLEAN /\ (~unsaved => told = noted)

LEMMA ShippedFiles ==
    ASSUME shipped \in Packages
    PROVE  /\ \A f \in Shipped : f \in Files /\ shipped[f] \in Versions /\ shipped[f] # None
           /\ Tooling \subseteq Shipped
BY PackagesAssumption, ContentsAssumption DEF Shipped, Files, Contents

-----------------------------------------------------------------------------
(* The writes. *)
LEMMA PutTree ==
    ASSUME shipped \in Packages, NEW r \in Tree, NEW S \in SUBSET Shipped
    PROVE  /\ Put(r, S) \in Tree
           /\ Put(r, S).disk = [f \in Files |-> IF f \in S THEN shipped[f] ELSE r.disk[f]]
           /\ Put(r, S).record = r.record /\ Put(r, S).backups = r.backups
           /\ Put(r, S).ours = r.ours \cup S
<1>1. \A f \in S : f \in Files /\ shipped[f] \in Contents
  BY ShippedFiles DEF Contents
<1>2. [f \in Files |-> IF f \in S THEN shipped[f] ELSE r.disk[f]] \in [Files -> Contents \cup {None}]
  BY <1>1 DEF Tree
<1>3. r.ours \cup S \in SUBSET Files
  BY <1>1 DEF Tree
<1> QED BY <1>2, <1>3 DEF Put, Tree

LEMMA RecordTree ==
    ASSUME shipped \in Packages, NEW r \in Tree, NEW S \in SUBSET Shipped
    PROVE  /\ Record(r, S) \in Tree
           /\ Record(r, S).record = [f \in Files |-> IF f \in S THEN shipped[f] ELSE r.record[f]]
           /\ Record(r, S).disk = r.disk /\ Record(r, S).backups = r.backups
           /\ Record(r, S).ours = r.ours
<1>1. [f \in Files |-> IF f \in S THEN shipped[f] ELSE r.record[f]] \in [Files -> Versions \cup {None}]
  BY ShippedFiles DEF Tree
<1> QED BY <1>1 DEF Record, Tree

LEMMA BackupTree ==
    ASSUME NEW r \in Tree, NEW S \in SUBSET Files
    PROVE  /\ Backup(r, S) \in Tree
           /\ Backup(r, S).backups = r.backups \cup {<<f, r.disk[f]>> : f \in S}
           /\ Backup(r, S).disk = r.disk /\ Backup(r, S).record = r.record
           /\ Backup(r, S).ours = r.ours
<1>1. r.backups \cup {<<f, r.disk[f]>> : f \in S} \in SUBSET (Files \X (Contents \cup {None}))
  BY DEF Tree
<1> QED BY <1>1 DEF Backup, Tree

LEMMA TornTree ==
    ASSUME NEW r \in Tree
    PROVE  /\ Torn(r) \in Tree
           /\ Torn(r).disk = r.disk /\ Torn(r).backups = r.backups /\ Torn(r).ours = r.ours
<1>1. [f \in Files |-> None] \in [Files -> Versions \cup {None}]
  OBVIOUS
<1> QED BY <1>1 DEF Torn, Tree

LEMMA WriteTree ==
    ASSUME shipped \in Packages, NEW r \in Tree, NEW S \in SUBSET Shipped
    PROVE  /\ Write(r, S) \in Tree
           /\ Write(r, S).disk = [f \in Files |-> IF f \in S THEN shipped[f] ELSE r.disk[f]]
           /\ Write(r, S).record = [f \in Files |-> IF f \in S THEN shipped[f] ELSE r.record[f]]
           /\ Write(r, S).backups = r.backups \cup {<<f, r.disk[f]>> : f \in S}
           /\ Write(r, S).ours = r.ours \cup S
<1>1. S \in SUBSET Files
  BY ShippedFiles
<1>2. PICK b : b = Backup(r, S)
  OBVIOUS
<1>3. /\ b \in Tree /\ b.backups = r.backups \cup {<<f, r.disk[f]>> : f \in S}
      /\ b.disk = r.disk /\ b.record = r.record /\ b.ours = r.ours
  BY <1>1, <1>2, BackupTree
<1>4. PICK p : p = Put(b, S)
  OBVIOUS
<1>5. /\ p \in Tree /\ p.disk = [f \in Files |-> IF f \in S THEN shipped[f] ELSE b.disk[f]]
      /\ p.record = b.record /\ p.backups = b.backups /\ p.ours = b.ours \cup S
  BY <1>3, <1>4, PutTree
<1>6. Write(r, S) = Record(p, S)
  BY <1>2, <1>4 DEF Write
<1> QED BY <1>3, <1>5, <1>6, RecordTree

-----------------------------------------------------------------------------
(* What a write, whole or broken off, does to a repository: it put some of *)
(* the files of S, each with the copy it replaced, and no other.           *)
Between(r, r2, S) ==
    \E W \in SUBSET S :
        /\ r2.disk = [f \in Files |-> IF f \in W THEN shipped[f] ELSE r.disk[f]]
        /\ \A f \in W : <<f, r.disk[f]>> \in r2.backups
        /\ r.backups \subseteq r2.backups

LEMMA WriteBetween ==
    ASSUME shipped \in Packages, NEW r \in Tree, NEW S \in SUBSET Shipped
    PROVE  Between(r, Write(r, S), S)
<1>1. PICK w : w = Write(r, S)
  OBVIOUS
<1>2. /\ w.disk = [f \in Files |-> IF f \in S THEN shipped[f] ELSE r.disk[f]]
      /\ w.backups = r.backups \cup {<<f, r.disk[f]>> : f \in S}
  BY <1>1, WriteTree
<1>3. S \in SUBSET S /\ r.backups \subseteq w.backups /\ \A f \in S : <<f, r.disk[f]>> \in w.backups
  BY <1>2
<1> QED BY <1>1, <1>2, <1>3 DEF Between

LEMMA CrashBetween ==
    ASSUME shipped \in Packages, NEW r \in Tree, NEW S \in SUBSET Shipped,
           NEW r2 \in WriteCrashes(r, S)
    PROVE  r2 \in Tree /\ Between(r, r2, S)
<1>1. PICK C \in SUBSET S :
        \/ r2 = Write(r, C)
        \/ \E f \in S \ C : \/ r2 = Backup(Write(r, C), {f})
                            \/ r2 = Put(Backup(Write(r, C), {f}), {f})
                            \/ r2 = Torn(Put(Backup(Write(r, C), {f}), {f}))
  BY DEF WriteCrashes
<1>2. PICK done : done = Write(r, C)
  OBVIOUS
<1>3. /\ done \in Tree
      /\ done.disk = [f \in Files |-> IF f \in C THEN shipped[f] ELSE r.disk[f]]
      /\ done.backups = r.backups \cup {<<f, r.disk[f]>> : f \in C}
  BY <1>2, WriteTree
<1>4. CASE r2 = done
  BY <1>3, <1>4 DEF Between
<1>5. ASSUME NEW f \in S \ C,
             \/ r2 = Backup(done, {f})
             \/ r2 = Put(Backup(done, {f}), {f})
             \/ r2 = Torn(Put(Backup(done, {f}), {f}))
      PROVE  r2 \in Tree /\ Between(r, r2, S)
  <2>1. f \in Files
    BY ShippedFiles
  <2>2. PICK b : b = Backup(done, {f})
    OBVIOUS
  <2>3. /\ b \in Tree /\ b.disk = done.disk
        /\ b.backups = done.backups \cup {<<g, done.disk[g]>> : g \in {f}}
    BY <1>3, <2>1, <2>2, BackupTree
  <2>4. /\ <<f, r.disk[f]>> \in b.backups /\ r.backups \subseteq b.backups
        /\ \A g \in C : <<g, r.disk[g]>> \in b.backups
    BY <1>3, <2>1, <2>3
  <2>5. CASE r2 = b
    BY <1>3, <2>3, <2>4, <2>5 DEF Between
  <2>6. PICK p : p = Put(b, {f})
    OBVIOUS
  <2>7. /\ p \in Tree /\ p.backups = b.backups
        /\ p.disk = [g \in Files |-> IF g \in {f} THEN shipped[g] ELSE b.disk[g]]
    BY <2>3, <2>6, PutTree
  <2>8. ASSUME r2 \in Tree, r2.disk = p.disk, r2.backups = p.backups
        PROVE  Between(r, r2, S)
    <3>1. r2.disk = [g \in Files |-> IF g \in C \cup {f} THEN shipped[g] ELSE r.disk[g]]
      BY <1>3, <2>3, <2>7, <2>8
    <3>2. \A g \in C \cup {f} : <<g, r.disk[g]>> \in r2.backups
      BY <2>4, <2>7, <2>8
    <3>3. r.backups \subseteq r2.backups
      BY <2>4, <2>7, <2>8
    <3>4. C \cup {f} \in SUBSET S
      OBVIOUS
    <3> QED BY <3>1, <3>2, <3>3, <3>4 DEF Between
  <2>9. CASE r2 = p
    BY <2>7, <2>8, <2>9
  <2>10. CASE r2 = Torn(p)
    BY <2>7, <2>8, <2>10, TornTree
  <2> QED BY <1>5, <2>2, <2>3, <2>5, <2>6, <2>9, <2>10
<1> QED BY <1>1, <1>2, <1>3, <1>4, <1>5

(* council-init and the creation pass put files only where there is none. *)
LEMMA ScaffoldTree ==
    ASSUME shipped \in Packages, NEW r \in Tree, NEW S \in SUBSET Missing(r)
    PROVE  /\ Scaffold(r, S) \in Tree
           /\ Scaffold(r, S).disk = [f \in Files |-> IF f \in S THEN shipped[f] ELSE r.disk[f]]
           /\ Scaffold(r, S).record = [f \in Files |-> IF f \in S THEN shipped[f] ELSE r.record[f]]
           /\ Scaffold(r, S).backups = r.backups /\ Scaffold(r, S).ours = r.ours \cup S
<1>1. S \in SUBSET Shipped
  BY DEF Missing
<1>2. CASE S = {}
  BY <1>2 DEF Scaffold, Tree
<1>3. CASE S # {}
  <2>1. PICK p : p = Put(r, S)
    OBVIOUS
  <2>2. /\ p \in Tree /\ p.disk = [f \in Files |-> IF f \in S THEN shipped[f] ELSE r.disk[f]]
        /\ p.record = r.record /\ p.backups = r.backups /\ p.ours = r.ours \cup S
    BY <1>1, <2>1, PutTree
  <2>3. Scaffold(r, S) = Record(p, S)
    BY <1>3, <2>1 DEF Scaffold
  <2> QED BY <1>1, <2>2, <2>3, RecordTree
<1> QED BY <1>2, <1>3

LEMMA ScaffoldCrash ==
    ASSUME shipped \in Packages, NEW r \in Tree, NEW S \in SUBSET Missing(r),
           NEW r2 \in ScaffoldCrashes(r, S)
    PROVE  /\ r2 \in Tree /\ r2.backups = r.backups
           /\ \E C \in SUBSET S :
                r2.disk = [f \in Files |-> IF f \in C THEN shipped[f] ELSE r.disk[f]]
<1>1. PICK C \in SUBSET S : r2 = Put(r, C) \/ r2 = Torn(Put(r, C))
  BY DEF ScaffoldCrashes
<1>2. C \in SUBSET Shipped
  BY DEF Missing
<1>3. PICK p : p = Put(r, C)
  OBVIOUS
<1>4. /\ p \in Tree /\ p.backups = r.backups
      /\ p.disk = [f \in Files |-> IF f \in C THEN shipped[f] ELSE r.disk[f]]
  BY <1>2, <1>3, PutTree
<1> QED BY <1>1, <1>3, <1>4, TornTree

LEMMA CreatedTree ==
    ASSUME shipped \in Packages, NEW r \in Tree
    PROVE  /\ Created(r) \in Tree
           /\ Created(r).disk = [f \in Files |-> IF f \in ToCreate(r) THEN shipped[f] ELSE r.disk[f]]
           /\ Created(r).record = [f \in Files |-> IF f \in ToCreate(r) THEN shipped[f] ELSE r.record[f]]
           /\ Created(r).backups = r.backups /\ Created(r).ours = r.ours \cup ToCreate(r)
BY ScaffoldTree DEF Created, ToCreate

LEMMA ToWriteShipped ==
    ASSUME shipped \in Packages, NEW r, NEW accepts
    PROVE  ToWrite(r, accepts) \in SUBSET Shipped
BY ShippedFiles DEF ToWrite

(* An apply, whole or broken off, as one statement: what it created was not *)
(* there and not in the record; what it wrote over was behind, or diverged  *)
(* and accepted, and is in the backups.                                     *)
Applies(r, r2, accepts) ==
    \A f \in Files : r2.disk[f] # r.disk[f] =>
        \/ r.disk[f] = None /\ r.record[f] = None
        \/ /\ f \in Tooling /\ r.disk[f] # None /\ <<f, r.disk[f]>> \in r2.backups
           /\ r.record[f] = r.disk[f] \/ f \in accepts

LEMMA BetweenApplies ==
    ASSUME shipped \in Packages, NEW r \in Tree, NEW accepts, NEW r2 \in Tree,
           Between(Created(r), r2, ToWrite(Created(r), accepts))
    PROVE  Applies(r, r2, accepts)
<1>1. PICK k : k = Created(r)
  OBVIOUS
<1>2. /\ k.disk = [f \in Files |-> IF f \in ToCreate(r) THEN shipped[f] ELSE r.disk[f]]
      /\ k.record = [f \in Files |-> IF f \in ToCreate(r) THEN shipped[f] ELSE r.record[f]]
  BY <1>1, CreatedTree
<1>3. PICK W \in SUBSET ToWrite(k, accepts) :
        /\ r2.disk = [f \in Files |-> IF f \in W THEN shipped[f] ELSE k.disk[f]]
        /\ \A f \in W : <<f, k.disk[f]>> \in r2.backups
  BY <1>1 DEF Between
<1> SUFFICES ASSUME NEW f \in Files, r2.disk[f] # r.disk[f]
             PROVE  \/ r.disk[f] = None /\ r.record[f] = None
                    \/ /\ f \in Tooling /\ r.disk[f] # None
                       /\ <<f, r.disk[f]>> \in r2.backups
                       /\ r.record[f] = r.disk[f] \/ f \in accepts
  BY DEF Applies
<1>4. CASE f \in ToCreate(r)
  BY <1>4 DEF ToCreate, Missing
<1>5. CASE f \notin ToCreate(r)
  <2>1. k.disk[f] = r.disk[f] /\ k.record[f] = r.record[f]
    BY <1>2, <1>5
  <2>2. f \in W
    BY <1>3, <2>1
  <2>3. /\ f \in Tooling
        /\ State(k, f) = "behind" \/ (State(k, f) = "diverged" /\ f \in accepts)
    BY <1>3, <2>2 DEF ToWrite
  <2>4. k.disk[f] # None /\ (State(k, f) = "behind" => k.disk[f] = k.record[f])
    BY <2>3 DEF State, Pristine
  <2> QED BY <1>3, <2>1, <2>2, <2>3, <2>4
<1> QED BY <1>4, <1>5

(* Every end an apply can have. *)
LEMMA ApplyEnds ==
    ASSUME shipped \in Packages, NEW r \in Tree, NEW accepts, NEW r2,
           r2 = Applied(r, accepts) \/ r2 \in ApplyCrashes(r, accepts)
    PROVE  r2 \in Tree /\ Applies(r, r2, accepts)
<1>1. PICK k : k = Created(r)
  OBVIOUS
<1>2. k \in Tree
  BY <1>1, CreatedTree
<1>3. PICK S : S = ToWrite(k, accepts)
  OBVIOUS
<1>4. S \in SUBSET Shipped
  BY <1>3, ToWriteShipped
<1>5. CASE r2 = Write(k, S)
  BY <1>1, <1>2, <1>3, <1>4, <1>5, WriteTree, WriteBetween, BetweenApplies
<1>6. CASE r2 \in WriteCrashes(k, S)
  BY <1>1, <1>2, <1>3, <1>4, <1>6, CrashBetween, BetweenApplies
<1>7. CASE r2 \in ScaffoldCrashes(r, ToCreate(r))
  <2>1. ToCreate(r) \in SUBSET Missing(r)
    BY DEF ToCreate
  <2>2. PICK C \in SUBSET ToCreate(r) :
          r2.disk = [f \in Files |-> IF f \in C THEN shipped[f] ELSE r.disk[f]]
    BY <1>7, <2>1, ScaffoldCrash
  <2>3. r2 \in Tree
    BY <1>7, <2>1, ScaffoldCrash
  <2> QED BY <2>2, <2>3 DEF Applies, ToCreate, Missing
<1> QED BY <1>1, <1>3, <1>5, <1>6, <1>7 DEF Applied, ApplyCrashes

LEMMA InitEnds ==
    ASSUME shipped \in Packages, NEW r \in Tree, NEW r2,
           r2 = Scaffold(r, Missing(r)) \/ r2 \in ScaffoldCrashes(r, Missing(r))
    PROVE  /\ r2 \in Tree
           /\ \A f \in Files : r.disk[f] # None => r2.disk[f] = r.disk[f]
<1>1. CASE r2 = Scaffold(r, Missing(r))
  <2>1. r2 \in Tree /\ r2.disk = [f \in Files |-> IF f \in Missing(r) THEN shipped[f] ELSE r.disk[f]]
    BY <1>1, ScaffoldTree
  <2> QED BY <2>1 DEF Missing
<1>2. CASE r2 \in ScaffoldCrashes(r, Missing(r))
  <2>1. PICK C \in SUBSET Missing(r) :
          r2.disk = [f \in Files |-> IF f \in C THEN shipped[f] ELSE r.disk[f]]
    BY <1>2, ScaffoldCrash
  <2>2. r2 \in Tree
    BY <1>2, ScaffoldCrash
  <2> QED BY <2>1, <2>2 DEF Missing
<1> QED BY <1>1, <1>2

(* A write that ends leaves the record faithful. *)
LEMMA ScaffoldFaithful ==
    ASSUME shipped \in Packages, NEW r \in Tree, NEW S \in SUBSET Missing(r), Faithful(r)
    PROVE  Faithful(Scaffold(r, S))
<1>1. PICK w : w = Scaffold(r, S)
  OBVIOUS
<1>2. /\ w.disk = [f \in Files |-> IF f \in S THEN shipped[f] ELSE r.disk[f]]
      /\ w.record = [f \in Files |-> IF f \in S THEN shipped[f] ELSE r.record[f]]
      /\ w.ours = r.ours \cup S
  BY <1>1, ScaffoldTree
<1>3. r.ours \subseteq Files /\ \A f \in S : f \in Files /\ shipped[f] # None
  BY ShippedFiles DEF Missing, Tree
<1>4. Faithful(w)
  BY <1>2, <1>3 DEF Faithful
<1> QED BY <1>1, <1>4

LEMMA AppliedFaithful ==
    ASSUME shipped \in Packages, NEW r \in Tree, NEW accepts, Faithful(r)
    PROVE  Faithful(Applied(r, accepts))
<1>1. PICK k : k = Created(r)
  OBVIOUS
<1>2. k \in Tree /\ Faithful(k)
  BY <1>1, CreatedTree, ScaffoldFaithful DEF Created, ToCreate
<1>3. PICK S : S = ToWrite(k, accepts)
  OBVIOUS
<1>4. S \in SUBSET Shipped
  BY <1>3, ToWriteShipped
<1>5. PICK w : w = Write(k, S)
  OBVIOUS
<1>6. /\ w.disk = [f \in Files |-> IF f \in S THEN shipped[f] ELSE k.disk[f]]
      /\ w.record = [f \in Files |-> IF f \in S THEN shipped[f] ELSE k.record[f]]
      /\ w.ours = k.ours \cup S
  BY <1>2, <1>4, <1>5, WriteTree
<1>7. k.ours \subseteq Files /\ \A f \in S : f \in Files /\ shipped[f] # None
  BY <1>2, <1>4, ShippedFiles DEF Tree
<1>8. Faithful(w)
  BY <1>2, <1>6, <1>7 DEF Faithful
<1> QED BY <1>1, <1>3, <1>5, <1>8 DEF Applied

-----------------------------------------------------------------------------
LEMMA InitIInv == Init => IInv
<1> SUFFICES ASSUME Init PROVE IInv
  OBVIOUS
<1>1. /\ repo.disk \in [Files -> Edits \cup {None}] /\ repo.record = [f \in Files |-> None]
      /\ repo.backups = {} /\ repo.ours = {}
      /\ repo = [disk |-> repo.disk, record |-> repo.record, backups |-> repo.backups,
                 ours |-> repo.ours]
  BY DEF Init
<1>2. repo.disk \in [Files -> Contents \cup {None}]
  BY <1>1 DEF Contents
<1>3. repo.record \in [Files -> Versions \cup {None}]
  BY <1>1
<1>4. repo \in Tree
  BY <1>1, <1>2, <1>3 DEF Tree
<1>5. Faithful(repo)
  BY <1>1 DEF Faithful
<1> QED BY <1>4, <1>5 DEF Init, IInv

LEMMA NextIInv == ASSUME IInv, [Next]_vars PROVE IInv'
<1>1. ASSUME CouncilInit PROVE IInv'
  <2>1. repo' \in Tree
    BY <1>1, InitEnds DEF CouncilInit, Ends, IInv
  <2>2. crashes' \in Nat
    BY <1>1 DEF CouncilInit, Ends, IInv
  <2>3. ASSUME crashes' = 0 PROVE Faithful(repo')
    <3>1. crashes = 0 /\ repo' = Scaffold(repo, Missing(repo))
      BY <1>1, <2>3 DEF CouncilInit, Ends, IInv
    <3>2. Faithful(Scaffold(repo, Missing(repo)))
      BY <3>1, ScaffoldFaithful DEF IInv
    <3> QED BY <3>1, <3>2
  <2>4. Faithful(repo') => Faithful(repo)'
    BY DEF Faithful
  <2> QED BY <1>1, <2>1, <2>2, <2>3, <2>4 DEF CouncilInit, IInv
<1>2. ASSUME Apply PROVE IInv'
  <2>1. PICK accepts : accepts = command.accepts
    OBVIOUS
  <2>2. Ends(Applied(repo, accepts), ApplyCrashes(repo, accepts))
    BY <1>2, <2>1 DEF Apply
  <2>3. repo' \in Tree
    BY <2>2, ApplyEnds DEF Ends, IInv
  <2>4. crashes' \in Nat
    BY <2>2 DEF Ends, IInv
  <2>5. ASSUME crashes' = 0 PROVE Faithful(repo')
    <3>1. crashes = 0 /\ repo' = Applied(repo, accepts)
      BY <2>2, <2>5 DEF Ends, IInv
    <3>2. Faithful(Applied(repo, accepts))
      BY <3>1, AppliedFaithful DEF IInv
    <3> QED BY <3>1, <3>2
  <2>6. Faithful(repo') => Faithful(repo)'
    BY DEF Faithful
  <2> QED BY <1>2, <2>3, <2>4, <2>5, <2>6 DEF Apply, IInv
<1>3. ASSUME NEW f \in Files, NEW c \in Contents \cup {None}, Consumer(f, c) PROVE IInv'
  <2>1. repo \in Tree /\ repo' = [repo EXCEPT !.disk[f] = c, !.ours = @ \ {f}]
    BY <1>3 DEF Consumer, IInv
  <2>2. /\ repo' \in Tree /\ repo'.record = repo.record /\ repo'.ours = repo.ours \ {f}
        /\ \A g \in Files \ {f} : repo'.disk[g] = repo.disk[g]
    BY <2>1 DEF Tree
  <2>3. repo.ours \subseteq Files
    BY <2>1 DEF Tree
  <2>4. Faithful(repo) => Faithful(repo)'
    BY <2>2, <2>3 DEF Faithful
  <2> QED BY <1>3, <2>2, <2>4 DEF Consumer, IInv
<1>4. ASSUME NEW p \in Packages, Upgrade(p) PROVE IInv'
  BY <1>4 DEF Upgrade, IInv, Faithful
<1>5. ASSUME SessionStart PROVE IInv'
  <2>1. UNCHANGED <<shipped, repo, changes, crashes>>
    BY <1>5 DEF SessionStart
  <2>2. unsaved' \in BOOLEAN /\ (~unsaved' => told' = noted')
    <3>1. CASE Drift = noted /\ Drift # {}
      BY <1>5, <3>1 DEF SessionStart, IInv
    <3>2. CASE ~(Drift = noted /\ Drift # {})
      <4>1. told' = Drift /\ ((noted' = Noted /\ unsaved' = FALSE) \/ unsaved' = TRUE)
        BY <1>5, <3>2 DEF SessionStart
      <4> QED BY <4>1 DEF Noted
    <3> QED BY <3>1, <3>2
  <2> QED BY <2>1, <2>2 DEF IInv, Faithful
<1>6. ASSUME \/ \E accepts \in SUBSET Tooling, ui \in BOOLEAN : StartUpdate(accepts, ui)
             \/ \E f \in Tooling : Ask(f)
             \/ \E accepted \in {{}, command.asking} : Answer(accepted)
             \/ UNCHANGED vars
      PROVE  IInv'
  <2>1. UNCHANGED <<shipped, repo, noted, told, unsaved, changes, upgrades, crashes>>
    BY <1>6 DEF StartUpdate, Ask, Answer, vars
  <2> QED BY <2>1 DEF IInv, Faithful
<1> QED BY <1>1, <1>2, <1>3, <1>4, <1>5, <1>6 DEF Next

(* A file the tool wrote and nobody touched since is never taken for an     *)
(* edited one, whatever packages came after it (planRows, applyRefresh).    *)
THEOREM Untouched == Spec => []UntouchedIsUpdatable
<1>1. IInv => UntouchedIsUpdatable
  BY DEF IInv, UntouchedIsUpdatable, Faithful, State, Pristine
<1> QED BY <1>1, InitIInv, NextIInv, PTL DEF Spec

-----------------------------------------------------------------------------
(* The steps that touch the files of the repository. *)
LEMMA FilesMove ==
    ASSUME IInv, [Next]_vars, changes' = changes
    PROVE  \/ repo' = repo
           \/ CouncilInit /\ \A f \in Files : repo.disk[f] # None => repo'.disk[f] = repo.disk[f]
           \/ Apply /\ Applies(repo, repo', command.accepts)
<1>1. ASSUME CouncilInit
      PROVE  \A f \in Files : repo.disk[f] # None => repo'.disk[f] = repo.disk[f]
  BY <1>1, InitEnds DEF CouncilInit, Ends, IInv
<1>2. ASSUME Apply PROVE Applies(repo, repo', command.accepts)
  <2>1. PICK accepts : accepts = command.accepts
    OBVIOUS
  <2>2. Ends(Applied(repo, accepts), ApplyCrashes(repo, accepts))
    BY <1>2, <2>1 DEF Apply
  <2> QED BY <2>1, <2>2, ApplyEnds DEF Ends, IInv
<1>3. ASSUME NEW f \in Files, NEW c \in Contents \cup {None}, Consumer(f, c) PROVE FALSE
  BY <1>3 DEF Consumer, IInv
<1>4. ASSUME \/ \E accepts \in SUBSET Tooling, ui \in BOOLEAN : StartUpdate(accepts, ui)
             \/ \E f \in Tooling : Ask(f)
             \/ \E accepted \in {{}, command.asking} : Answer(accepted)
             \/ \E p \in Packages : Upgrade(p)
             \/ SessionStart
             \/ UNCHANGED vars
      PROVE  repo' = repo
  BY <1>4 DEF StartUpdate, Ask, Answer, Upgrade, SessionStart, vars
<1> QED BY <1>1, <1>2, <1>3, <1>4 DEF Next

SurviveStep ==
    changes' = changes => \A f \in Files :
        repo.disk[f] \notin {None, repo'.disk[f]} =>
            /\ f \in Tooling /\ <<f, repo.disk[f]>> \in repo'.backups
            /\ repo.disk[f] \in Edits => f \in command.accepts

(* Nothing the consumer wrote is lost: a crash, a new package and an edit   *)
(* made while the command waits included (applyRefresh).                    *)
THEOREM Survive == Spec => EditsSurvive
<1>1. IInv /\ [Next]_vars => [SurviveStep]_vars
  <2> SUFFICES ASSUME IInv, [Next]_vars, changes' = changes, NEW f \in Files,
                      repo.disk[f] \notin {None, repo'.disk[f]}
               PROVE  /\ f \in Tooling /\ <<f, repo.disk[f]>> \in repo'.backups
                      /\ repo.disk[f] \in Edits => f \in command.accepts
    BY DEF SurviveStep
  <2>1. Applies(repo, repo', command.accepts)
    BY FilesMove
  <2>2. repo.record[f] \notin Edits \/ repo.record[f] = None
    BY ContentsAssumption DEF IInv, Tree
  <2>3. None \notin Edits
    BY ContentsAssumption DEF Contents
  <2> QED BY <2>1, <2>2, <2>3 DEF Applies
<1> QED BY <1>1, InitIInv, NextIInv, PTL DEF Spec, EditsSurvive, SurviveStep

DeletedStep ==
    command.on => \A f \in Files :
        repo.record[f] # None /\ repo.disk[f] = None /\ repo'.disk[f] # None => changes' # changes

(* An update never brings a deleted file back that the record knows         *)
(* (creationPass).                                                          *)
THEOREM Deleted == Spec => DeletedStaysDeleted
<1>1. IInv /\ [Next]_vars => [DeletedStep]_vars
  <2> SUFFICES ASSUME IInv, [Next]_vars, command.on, changes' = changes, NEW f \in Files,
                      repo.record[f] # None, repo.disk[f] = None, repo'.disk[f] # None
               PROVE  FALSE
    BY DEF DeletedStep
  <2>1. ~CouncilInit
    BY DEF CouncilInit, Idle
  <2>2. Applies(repo, repo', command.accepts)
    BY <2>1, FilesMove
  <2> QED BY <2>2 DEF Applies
<1> QED BY <1>1, InitIInv, NextIInv, PTL DEF Spec, DeletedStaysDeleted, DeletedStep

ToldStep == SessionStart /\ ~unsaved => told' = Drift

(* A session that starts over drifted tooling has told the user of exactly  *)
(* this drift, unless the state file could not be written or removed when   *)
(* the drift last changed (checkToolingDrift).                              *)
THEOREM Told == Spec => DriftIsTold
<1>1. IInv => [ToldStep]_vars
  BY DEF IInv, ToldStep, SessionStart
<1> QED BY <1>1, InitIInv, NextIInv, PTL DEF Spec, DriftIsTold, ToldStep
=============================================================================
