---------------------------- MODULE MergePathProofs ----------------------------
(***************************************************************************)
(* What the merge check reads, for every number of cards, dispatches and   *)
(* second attempts.                                                        *)
(*                                                                         *)
(* That the mode of a card only grows stronger needs nothing of the        *)
(* reachable states but that roots are never dropped: the subtree under    *)
(* more roots of more manifests is larger, and so are the generators and   *)
(* the modes in it.  That nothing is merged without its evidence needs an  *)
(* invariant: whatever was dispatched for a card is, or hangs under, a     *)
(* root of it, also after a second attempt replaced manifests, because a   *)
(* replaced manifest has the parent its id spells; and the manifest of a   *)
(* root is never replaced, because the session never starts to count       *)
(* again.                                                                  *)
(***************************************************************************)
EXTENDS MergePath, SequenceTheorems, TLAPS

-----------------------------------------------------------------------------
(* The reduction over the root modes. *)
LEMMA StrongestMode ==
    ASSUME NEW S \in SUBSET Modes, S # {}
    PROVE  /\ Strongest(S) \in S
           /\ \A n \in S : AtLeast(Strongest(S), n)
<1>1. \E m \in S : \A n \in S : AtLeast(m, n)
  <2>1. \A n \in S : n \in {"Deliberate", "Verify", "Direct"}
    BY DEF Modes
  <2>2. CASE "Deliberate" \in S
    BY <2>1, <2>2 DEF AtLeast, Rank
  <2>3. CASE "Deliberate" \notin S /\ "Verify" \in S
    BY <2>1, <2>3 DEF AtLeast, Rank
  <2>4. CASE "Deliberate" \notin S /\ "Verify" \notin S
    <3>1. \A n \in S : n = "Direct"
      BY <2>1, <2>4
    <3> QED BY <3>1 DEF AtLeast, Rank
  <2> QED BY <2>2, <2>3, <2>4
<1> QED BY <1>1 DEF Strongest

(* More manifests and more roots reach more. *)
LEMMA SubtreeGrows ==
    ASSUME NEW ms, NEW ms2, NEW ids, NEW ids2,
           DOMAIN ms \subseteq DOMAIN ms2, \A i \in DOMAIN ms : ms2[i] = ms[i],
           ids \subseteq ids2
    PROVE  Subtree(ms, ids) \subseteq Subtree(ms2, ids2)
<1> SUFFICES ASSUME NEW i \in Subtree(ms, ids), NEW S2 \in SUBSET DOMAIN ms2,
                    ids2 \cap DOMAIN ms2 \subseteq S2,
                    \A k \in DOMAIN ms2 : ms2[k].parent \in S2 => k \in S2
             PROVE  i \in DOMAIN ms2 /\ i \in S2
  BY DEF Subtree
<1>1. i \in DOMAIN ms
  BY DEF Subtree
<1>2. PICK S : S = S2 \cap DOMAIN ms
  OBVIOUS
<1>3. S \in SUBSET DOMAIN ms /\ ids \cap DOMAIN ms \subseteq S
  BY <1>2
<1>4. \A k \in DOMAIN ms : ms[k].parent \in S => k \in S
  BY <1>2
<1>5. i \in S
  BY <1>3, <1>4 DEF Subtree
<1> QED BY <1>1, <1>2, <1>5

LEMMA CardModeStrengthens ==
    ASSUME NEW ms, NEW ms2, NEW ids, NEW ids2,
           DOMAIN ms \subseteq DOMAIN ms2, \A i \in DOMAIN ms : ms2[i] = ms[i],
           ids \subseteq ids2, CardMode(ms, ids) \in Modes
    PROVE  CardMode(ms2, ids2) \in Modes /\ AtLeast(CardMode(ms2, ids2), CardMode(ms, ids))
<1>1. ids \cap DOMAIN ms # {} /\ ids2 \cap DOMAIN ms2 # {}
  BY DEF CardMode, Modes
<1>2. \A m \in Modes : AtLeast("Deliberate", m)
  BY DEF Modes, AtLeast, Rank
<1>3. CASE Generates(ms2, ids2)
  <2>1. CardMode(ms2, ids2) = "Deliberate"
    BY <1>1, <1>3 DEF CardMode
  <2> QED BY <1>2, <2>1 DEF Modes
<1>4. CASE ~Generates(ms2, ids2)
  <2>1. ~Generates(ms, ids)
    <3> SUFFICES ASSUME NEW i \in Subtree(ms, ids), ms[i].seat \in Generators
                 PROVE  FALSE
      BY DEF Generates
    <3>1. i \in Subtree(ms2, ids2)
      BY SubtreeGrows
    <3>2. i \in DOMAIN ms /\ ms2[i] = ms[i]
      BY DEF Subtree
    <3> QED BY <1>4, <3>1, <3>2 DEF Generates
  <2>2. RootModes(ms, ids) # {} /\ CardMode(ms, ids) = Strongest(RootModes(ms, ids))
    BY <1>1, <2>1 DEF CardMode, Modes
  <2>3. RootModes(ms, ids) \subseteq RootModes(ms2, ids2) /\ RootModes(ms2, ids2) \subseteq Modes
    BY DEF RootModes
  <2>4. CardMode(ms2, ids2) = Strongest(RootModes(ms2, ids2))
    BY <1>1, <1>4, <2>2, <2>3 DEF CardMode
  <2>5. Strongest(RootModes(ms, ids)) \in RootModes(ms, ids)
    BY <2>2, <2>3, StrongestMode
  <2>6. /\ Strongest(RootModes(ms2, ids2)) \in Modes
        /\ AtLeast(Strongest(RootModes(ms2, ids2)), Strongest(RootModes(ms, ids)))
    BY <2>2, <2>3, <2>5, StrongestMode
  <2> QED BY <2>2, <2>4, <2>6
<1> QED BY <1>3, <1>4

-----------------------------------------------------------------------------
\* Every step keeps the roots of every card.
LEMMA RootsGrow ==
    ASSUME DOMAIN roots = Cards, [Next]_vars
    PROVE  DOMAIN roots' = Cards /\ \A c \in Cards : roots[c] \subseteq roots'[c]
<1>1. ASSUME NEW c \in Cards, NEW mode \in Modes \cup {None}, DispatchRunner(c, mode)
      PROVE  DOMAIN roots' = Cards /\ \A d \in Cards : roots[d] \subseteq roots'[d]
  BY <1>1 DEF DispatchRunner
<1>2. ASSUME NEW seat, DispatchStray(seat) PROVE roots' = roots
  BY <1>2 DEF DispatchStray
<1>3. ASSUME NEW c, NEW r, NEW seat, DispatchSeat(c, r, seat) PROVE roots' = roots
  BY <1>3 DEF DispatchSeat
<1>4. ASSUME NEW c, NEW r, Retry(c, r) PROVE roots' = roots
  BY <1>4 DEF Retry
<1>5. CASE UNCHANGED vars
  BY <1>5 DEF vars
<1> QED BY <1>1, <1>2, <1>3, <1>4, <1>5 DEF Next

ModeKept == Grows => \A c \in Cards : Read(c) \in Modes =>
                Read(c)' \in Modes /\ AtLeast(Read(c)', Read(c))

LEMMA ModeStep ==
    ASSUME DOMAIN roots = Cards, [Next]_vars
    PROVE  ModeKept
<1> SUFFICES ASSUME Grows, NEW c \in Cards, Read(c) \in Modes
             PROVE  Read(c)' \in Modes /\ AtLeast(Read(c)', Read(c))
  BY DEF ModeKept
<1>1. DOMAIN manifest \subseteq DOMAIN manifest'
      /\ \A i \in DOMAIN manifest : manifest'[i] = manifest[i]
  BY DEF Grows
<1>2. roots[c] \subseteq roots'[c]
  BY RootsGrow
<1>3. PICK ms, ms2, ids, ids2 :
        ms = manifest /\ ms2 = manifest' /\ ids = roots[c] /\ ids2 = roots'[c]
  OBVIOUS
<1>4. CardMode(ms, ids) \in Modes
  BY <1>3 DEF Read
<1>5. CardMode(ms2, ids2) \in Modes /\ AtLeast(CardMode(ms2, ids2), CardMode(ms, ids))
  BY <1>1, <1>2, <1>3, <1>4, CardModeStrengthens
<1>6. Read(c)' = CardMode(ms2, ids2) /\ Read(c) = CardMode(ms, ids)
  BY <1>3 DEF Read
<1> QED BY <1>5, <1>6

(* Escalation only: while no manifest is replaced, the mode a card reads   *)
(* is never weakened by any dispatch of any seat, for every number of      *)
(* cards, dispatches and attempts (readCardMode).                          *)
THEOREM ModeStrengthens == Spec => ModeOnlyStrengthens
<1>1. Init => DOMAIN roots = Cards
  BY DEF Init
<1>2. DOMAIN roots = Cards /\ [Next]_vars => (DOMAIN roots = Cards)'
  BY RootsGrow
<1>3. DOMAIN roots = Cards /\ [Next]_vars =>
        [Grows => \A c \in Cards : Read(c) \in Modes =>
           Read(c)' \in Modes /\ AtLeast(Read(c)', Read(c))]_vars
  BY ModeStep DEF ModeKept
<1> QED BY <1>1, <1>2, <1>3, PTL DEF Spec, ModeOnlyStrengthens

-----------------------------------------------------------------------------
(* The invariant behind MergedOnEvidence. *)
RootsThere ==
    /\ DOMAIN roots = Cards
    /\ \A c \in Cards : roots[c] \subseteq DOMAIN manifest

Numbered ==
    /\ Session \in DOMAIN next /\ DOMAIN manifest \subseteq DOMAIN next
    /\ \A p \in DOMAIN next : p \in Seq(Nat) /\ next[p] \in Nat

\* An id spells the path of the process that gave it.
IdsSpellParents ==
    \A i \in DOMAIN manifest :
        /\ manifest[i].parent \in Seq(Nat)
        /\ \E n \in Nat : i = Append(manifest[i].parent, n)

\* The numbers the session gave are behind it: it gives none a second time.
SessionCountsOn ==
    \A i \in DOMAIN manifest : manifest[i].parent = Session =>
        \E n \in Nat : n < next[Session] /\ i = Append(Session, n)

RootsAreKept ==
    \A c \in Cards : \A i \in roots[c] :
        /\ manifest[i].parent = Session
        /\ \E d \in made : d.for = c /\ d.id = i /\ Kept(d)

\* What was dispatched for a card is one of its roots or hangs under one, and
\* only its roots have a mode.
DispatchesAreReached ==
    \A d \in made :
        /\ d.mode \in Modes \cup {None}
        /\ d.for \in Cards =>
             /\ d.id \in DOMAIN manifest
             /\ d.id \in roots[d.for] \/ manifest[d.id].parent \in roots[d.for]
             /\ d.mode \in Modes => d.id \in roots[d.for]

\* A root is a root of one card.
RootsAreApart == \A c, e \in Cards : roots[c] \cap roots[e] # {} => c = e

\* What a runner dispatched was dispatched for the card it is a root of.
ChildrenAreOwned ==
    \A i \in DOMAIN manifest :
        \/ manifest[i].parent = Session
        \/ \E c \in Cards : /\ manifest[i].parent \in roots[c]
                           /\ \E d \in made : d.for = c /\ d.id = i

IInv == /\ RootsThere /\ Numbered /\ IdsSpellParents
        /\ SessionCountsOn /\ RootsAreKept /\ DispatchesAreReached
        /\ RootsAreApart /\ ChildrenAreOwned

LEMMA InitIInv == Init => IInv
<1> SUFFICES ASSUME Init PROVE IInv
  OBVIOUS
<1>1. manifest = <<>> /\ DOMAIN manifest = {} /\ made = {}
  BY DEF Init
<1>2. \A c \in Cards : roots[c] = {}
  BY DEF Init
<1>3. DOMAIN roots = Cards /\ DOMAIN next = {Session} /\ next[Session] = 1
  BY DEF Init
<1>4. Session \in Seq(Nat)
  BY DEF Session
<1> QED BY <1>1, <1>2, <1>3, <1>4
        DEF IInv, RootsThere, Numbered, IdsSpellParents, SessionCountsOn, RootsAreKept,
            DispatchesAreReached, RootsAreApart, ChildrenAreOwned

\* An id tells the process that gave it.
LEMMA SpelledOnce ==
    ASSUME NEW p \in Seq(Nat), NEW q \in Seq(Nat), NEW m \in Nat, NEW n \in Nat,
           Append(p, m) = Append(q, n)
    PROVE  p = q /\ m = n
BY AppendInjective

(* One dispatch, of the session or of a root, whatever it is for. *)
LEMMA DispatchStep ==
    ASSUME IInv, NEW path, NEW seat, NEW mode \in Modes \cup {None}, NEW for,
           Dispatch(path, seat, mode, for),
           path = Session \/ (for \in Cards /\ path \in roots[for]),
           DOMAIN roots' = Cards,
           NEW id, id = Append(path, next[path]),
           \A c \in Cards : /\ roots[c] \subseteq roots'[c]
                            /\ \A i \in roots'[c] \ roots[c] : i = id /\ for = c /\ path = Session,
           for \in Cards => id \in roots'[for] \/ (path \in roots[for] /\ mode \notin Modes)
    PROVE  IInv'
<1> DEFINE new == [parent |-> path, seat |-> seat, mode |-> mode]
<1> DEFINE entry == [id |-> id, seat |-> seat, mode |-> mode, for |-> for]
<1>1. path \in DOMAIN next /\ path \in Seq(Nat) /\ next[path] \in Nat
  BY DEF IInv, RootsThere, Numbered
<1>2. id \in Seq(Nat) /\ id # path
  <2>1. id \in Seq(Nat) /\ Len(id) = Len(path) + 1 /\ Len(path) \in Nat
    BY <1>1, AppendProperties
  <2> QED BY <2>1
<1>3. /\ DOMAIN manifest' = DOMAIN manifest \cup {id}
      /\ manifest'[id] = new
      /\ \A i \in DOMAIN manifest \ {id} : manifest'[i] = manifest[i]
  BY DEF Dispatch
<1>4. /\ DOMAIN next' = DOMAIN next \cup {id}
      /\ next'[id] = 1 /\ next'[path] = next[path] + 1
      /\ \A p \in DOMAIN next \ {id, path} : next'[p] = next[p]
  BY <1>1, <1>2 DEF Dispatch
<1>5. made' = made \cup {entry}
  BY DEF Dispatch
\* The parent of an id does not change.
<1>6. \A i \in DOMAIN manifest : manifest'[i].parent = manifest[i].parent
  <2>0. manifest'[id].parent = path
    BY <1>3
  <2> SUFFICES ASSUME id \in DOMAIN manifest PROVE manifest[id].parent = path
    BY <1>3, <2>0
  <2>1. PICK n \in Nat : id = Append(manifest[id].parent, n)
    BY DEF IInv, IdsSpellParents
  <2>2. manifest[id].parent \in Seq(Nat)
    BY DEF IInv, IdsSpellParents
  <2>3. PICK q, m : q = manifest[id].parent /\ m = next[path]
    OBVIOUS
  <2>4. q \in Seq(Nat) /\ m \in Nat /\ Append(path, m) = Append(q, n)
    BY <1>1, <2>1, <2>2, <2>3
  <2>5. path = q
    BY <1>1, <2>4, SpelledOnce
  <2> QED BY <2>3, <2>5
\* A number of the session is new.
<1>7. ASSUME path = Session PROVE id \notin DOMAIN manifest
  <2> SUFFICES ASSUME id \in DOMAIN manifest PROVE FALSE
    OBVIOUS
  <2>1. manifest[id].parent = Session
    BY <1>3, <1>6, <1>7
  <2>2. PICK n \in Nat : n < next[Session] /\ id = Append(Session, n)
    BY <2>1 DEF IInv, SessionCountsOn
  <2>3. n = next[path]
    BY <1>1, <1>7, <2>2, SpelledOnce
  <2> QED BY <1>7, <2>2, <2>3
\* The manifest of a root is not replaced.
<1>8. \A c \in Cards : \A i \in roots[c] : manifest'[i] = manifest[i]
  <2> SUFFICES ASSUME NEW c \in Cards, NEW i \in roots[c], i = id PROVE FALSE
    BY <1>3 DEF IInv, RootsThere
  <2>1. id \in DOMAIN manifest /\ manifest[id].parent = Session
    BY DEF IInv, RootsThere, RootsAreKept
  <2>2. path = Session
    BY <1>3, <1>6, <2>1
  <2> QED BY <1>7, <2>1, <2>2
<1>9. RootsThere'
  BY <1>3 DEF IInv, RootsThere
<1>10. Numbered'
  <2>1. Session \in DOMAIN next' /\ DOMAIN manifest' \subseteq DOMAIN next'
    BY <1>3, <1>4 DEF IInv, Numbered
  <2>2. \A p \in DOMAIN next' : p \in Seq(Nat) /\ next'[p] \in Nat
    <3> SUFFICES ASSUME NEW p \in DOMAIN next' PROVE p \in Seq(Nat) /\ next'[p] \in Nat
      OBVIOUS
    <3>1. CASE p = id
      BY <1>2, <1>4, <3>1
    <3>2. CASE p = path
      BY <1>1, <1>4, <3>2
    <3>3. CASE p \notin {id, path}
      BY <1>4, <3>3 DEF IInv, Numbered
    <3> QED BY <3>1, <3>2, <3>3
  <2> QED BY <2>1, <2>2 DEF Numbered
<1>11. IdsSpellParents'
  <2> SUFFICES ASSUME NEW i \in DOMAIN manifest'
               PROVE  /\ manifest'[i].parent \in Seq(Nat)
                      /\ \E n \in Nat : i = Append(manifest'[i].parent, n)
    BY DEF IdsSpellParents
  <2>1. CASE i = id
    <3>1. manifest'[i].parent = path
      BY <1>3, <2>1
    <3> QED BY <1>1, <2>1, <3>1
  <2>2. CASE i # id
    <3>1. i \in DOMAIN manifest /\ manifest'[i].parent = manifest[i].parent
      BY <1>3, <1>6, <2>2
    <3> QED BY <3>1 DEF IInv, IdsSpellParents
  <2> QED BY <2>1, <2>2
<1>12. SessionCountsOn'
  <2> SUFFICES ASSUME NEW i \in DOMAIN manifest', manifest'[i].parent = Session
               PROVE  \E n \in Nat : n < next'[Session] /\ i = Append(Session, n)
    BY DEF SessionCountsOn
  <2>1. next'[Session] \in Nat /\ next[Session] \in Nat
    BY <1>10 DEF IInv, Numbered
  <2>2. next[Session] <= next'[Session]
    <3>1. Session # id
      BY <1>1, AppendProperties DEF Session
    <3>2. CASE path = Session
      BY <1>4, <2>1, <3>2
    <3>3. CASE path # Session
      BY <1>4, <2>1, <3>1, <3>3 DEF IInv, Numbered
    <3> QED BY <3>2, <3>3
  <2>3. CASE i = id
    <3>1. path = Session
      BY <1>3, <2>3
    <3> QED BY <1>1, <1>4, <2>1, <2>3, <3>1
  <2>4. CASE i # id
    <3>1. i \in DOMAIN manifest /\ manifest[i].parent = Session
      BY <1>3, <2>4
    <3>2. PICK n \in Nat : n < next[Session] /\ i = Append(Session, n)
      BY <3>1 DEF IInv, SessionCountsOn
    <3> QED BY <2>1, <2>2, <3>2
  <2> QED BY <2>3, <2>4
<1>13. RootsAreKept'
  <2> SUFFICES ASSUME NEW c \in Cards, NEW i \in roots'[c]
               PROVE  /\ manifest'[i].parent = Session
                      /\ \E d \in made' : d.for = c /\ d.id = i /\ Kept(d)'
    BY DEF RootsAreKept
  <2>1. CASE i \in roots[c]
    <3>1. PICK d \in made : d.for = c /\ d.id = i /\ Kept(d)
      BY <2>1 DEF IInv, RootsAreKept
    <3>2. Kept(d)'
      BY <1>8, <2>1, <3>1 DEF Kept
    <3>3. manifest'[i].parent = Session
      BY <1>8, <2>1 DEF IInv, RootsAreKept
    <3> QED BY <1>5, <3>1, <3>2, <3>3
  <2>2. CASE i \notin roots[c]
    <3>1. i = id /\ for = c /\ path = Session
      BY <2>2
    <3>2. Kept(entry)'
      BY <1>3 DEF Kept
    <3> QED BY <1>3, <1>5, <3>1, <3>2
  <2> QED BY <2>1, <2>2
<1>14. DispatchesAreReached'
  <2> SUFFICES ASSUME NEW d \in made'
               PROVE  /\ d.mode \in Modes \cup {None}
                      /\ d.for \in Cards =>
                           /\ d.id \in DOMAIN manifest'
                           /\ \/ d.id \in roots'[d.for]
                              \/ manifest'[d.id].parent \in roots'[d.for]
                           /\ d.mode \in Modes => d.id \in roots'[d.for]
    BY DEF DispatchesAreReached
  <2>1. CASE d \in made
    <3>1. d.mode \in Modes \cup {None}
      BY <2>1 DEF IInv, DispatchesAreReached
    <3>2. ASSUME d.for \in Cards
          PROVE  /\ d.id \in DOMAIN manifest'
                 /\ d.id \in roots'[d.for] \/ manifest'[d.id].parent \in roots'[d.for]
                 /\ d.mode \in Modes => d.id \in roots'[d.for]
      <4>1. /\ d.id \in DOMAIN manifest
            /\ d.id \in roots[d.for] \/ manifest[d.id].parent \in roots[d.for]
            /\ d.mode \in Modes => d.id \in roots[d.for]
        BY <2>1, <3>2 DEF IInv, DispatchesAreReached
      <4>2. manifest'[d.id].parent = manifest[d.id].parent /\ d.id \in DOMAIN manifest'
        BY <1>3, <1>6, <4>1
      <4>3. roots[d.for] \subseteq roots'[d.for]
        BY <3>2
      <4> QED BY <4>1, <4>2, <4>3
    <3> QED BY <3>1, <3>2
  <2>2. CASE d = entry
    <3>1. d.mode = mode /\ d.for = for /\ d.id = id
      BY <2>2
    <3> QED BY <1>3, <3>1
  <2> QED BY <1>5, <2>1, <2>2
<1>15. RootsAreApart'
  <2> SUFFICES ASSUME NEW c \in Cards, NEW e \in Cards, NEW i, i \in roots'[c], i \in roots'[e]
               PROVE  c = e
    BY DEF RootsAreApart
  <2>1. CASE i \in DOMAIN manifest
    <3>1. i \in roots[c] /\ i \in roots[e]
      BY <1>7, <2>1
    <3> QED BY <3>1 DEF IInv, RootsAreApart
  <2>2. CASE i \notin DOMAIN manifest
    <3>1. i \notin roots[c] /\ i \notin roots[e]
      BY <2>2 DEF IInv, RootsThere
    <3> QED BY <3>1
  <2> QED BY <2>1, <2>2
<1>16. ChildrenAreOwned'
  <2> SUFFICES ASSUME NEW i \in DOMAIN manifest', manifest'[i].parent # Session
               PROVE  \E c \in Cards : /\ manifest'[i].parent \in roots'[c]
                                      /\ \E d \in made' : d.for = c /\ d.id = i
    BY DEF ChildrenAreOwned
  <2>1. CASE i = id
    <3>1. manifest'[i].parent = path
      BY <1>3, <2>1
    <3>2. for \in Cards /\ path \in roots'[for]
      BY <3>1
    <3>3. entry \in made' /\ entry.for = for /\ entry.id = i
      BY <1>5, <2>1
    <3> QED BY <3>1, <3>2, <3>3
  <2>2. CASE i # id
    <3>1. i \in DOMAIN manifest /\ manifest'[i].parent = manifest[i].parent
      BY <1>3, <1>6, <2>2
    <3>2. PICK c \in Cards : /\ manifest[i].parent \in roots[c]
                            /\ \E d \in made : d.for = c /\ d.id = i
      BY <3>1 DEF IInv, ChildrenAreOwned
    <3>3. manifest'[i].parent \in roots'[c]
      BY <3>1, <3>2
    <3> QED BY <1>5, <3>2, <3>3
  <2> QED BY <2>1, <2>2
<1> QED BY <1>9, <1>10, <1>11, <1>12, <1>13, <1>14, <1>15, <1>16 DEF IInv

LEMMA RetryStep ==
    ASSUME IInv, NEW c \in Cards, NEW r \in roots[c], Retry(c, r)
    PROVE  IInv'
<1>1. /\ DOMAIN next' = DOMAIN next
      /\ \A p \in DOMAIN next \ {r} : next'[p] = next[p]
      /\ r \in DOMAIN next => next'[r] = 1
      /\ UNCHANGED <<manifest, roots, made>>
  BY DEF Retry
<1>2. r # Session
  <2>1. manifest[r].parent = Session /\ r \in DOMAIN manifest
    BY DEF IInv, RootsAreKept, RootsThere
  <2>2. PICK n \in Nat : r = Append(Session, n)
    BY <2>1 DEF IInv, SessionCountsOn
  <2> QED BY <2>2, AppendProperties DEF Session
<1>3. next'[Session] = next[Session]
  BY <1>1, <1>2 DEF IInv, Numbered
<1>4. Numbered'
  <2>1. \A p \in DOMAIN next' : p \in Seq(Nat) /\ next'[p] \in Nat
    BY <1>1 DEF IInv, Numbered
  <2> QED BY <1>1, <2>1 DEF IInv, Numbered
<1>5. RootsThere' /\ IdsSpellParents'
  BY <1>1 DEF IInv, RootsThere, IdsSpellParents
<1>6. RootsAreKept'
  BY <1>1 DEF IInv, RootsAreKept, Kept
<1>7. DispatchesAreReached'
  BY <1>1 DEF IInv, DispatchesAreReached
<1>8. SessionCountsOn'
  BY <1>1, <1>3 DEF IInv, SessionCountsOn
<1>9. RootsAreApart' /\ ChildrenAreOwned'
  BY <1>1 DEF IInv, RootsAreApart, ChildrenAreOwned
<1> QED BY <1>4, <1>5, <1>6, <1>7, <1>8, <1>9 DEF IInv

LEMMA NextIInv == ASSUME IInv, [Next]_vars PROVE IInv'
<1>1. ASSUME NEW c \in Cards, NEW mode \in Modes \cup {None}, DispatchRunner(c, mode)
      PROVE  IInv'
  <2>1. PICK id : id = Append(Session, next[Session])
    OBVIOUS
  <2>2. id = <<next[Session]>>
    BY <2>1 DEF Session
  <2>3. roots' = [roots EXCEPT ![c] = @ \cup {id}] /\ Dispatch(Session, Runner, mode, c)
    BY <1>1, <2>2 DEF DispatchRunner
  <2>4. DOMAIN roots' = Cards /\ DOMAIN roots = Cards
    BY <2>3 DEF IInv, RootsThere
  <2>5. \A d \in Cards : /\ roots[d] \subseteq roots'[d]
                         /\ \A i \in roots'[d] \ roots[d] : i = id /\ c = d /\ Session = Session
    BY <2>3, <2>4
  <2>6. id \in roots'[c]
    BY <2>3, <2>4
  <2> QED BY <2>1, <2>3, <2>4, <2>5, <2>6, DispatchStep
<1>2. ASSUME NEW seat \in Generators \cup OtherSeats, DispatchStray(seat) PROVE IInv'
  <2>1. PICK id : id = Append(Session, next[Session])
    OBVIOUS
  <2>2. roots' = roots /\ Dispatch(Session, seat, None, Stray)
    BY <1>2 DEF DispatchStray
  <2>3. DOMAIN roots' = Cards
    BY <2>2 DEF IInv, RootsThere
  <2> QED BY <2>1, <2>2, <2>3, DispatchStep, StrayAssumption
<1>3. ASSUME NEW c \in Cards, NEW r \in roots[c], NEW seat \in Generators \cup OtherSeats,
             DispatchSeat(c, r, seat)
      PROVE  IInv'
  <2>1. PICK id : id = Append(r, next[r])
    OBVIOUS
  <2>2. roots' = roots /\ Dispatch(r, seat, None, c)
    BY <1>3 DEF DispatchSeat
  <2>3. DOMAIN roots' = Cards
    BY <2>2 DEF IInv, RootsThere
  <2> QED BY <2>1, <2>2, <2>3, DispatchStep, NoneAssumption
<1>4. ASSUME NEW c \in Cards, NEW r \in roots[c], Retry(c, r) PROVE IInv'
  BY <1>4, RetryStep
<1>5. CASE UNCHANGED vars
  <2>1. UNCHANGED <<manifest, next, roots, made>>
    BY <1>5 DEF vars
  <2>2. RootsThere' /\ Numbered' /\ IdsSpellParents' /\ SessionCountsOn'
    BY <2>1 DEF IInv, RootsThere, Numbered, IdsSpellParents, SessionCountsOn
  <2>3. RootsAreKept'
    BY <2>1 DEF IInv, RootsAreKept, Kept
  <2>4. DispatchesAreReached'
    BY <2>1 DEF IInv, DispatchesAreReached
  <2>5. RootsAreApart' /\ ChildrenAreOwned'
    BY <2>1 DEF IInv, RootsAreApart, ChildrenAreOwned
  <2> QED BY <2>2, <2>3, <2>4, <2>5 DEF IInv
<1> QED BY <1>1, <1>2, <1>3, <1>4, <1>5 DEF Next

-----------------------------------------------------------------------------
(* What a card that reads Direct was dispatched with. *)
LEMMA DirectIsEarned ==
    ASSUME IInv, NEW c \in Cards, Read(c) = "Direct"
    PROVE  /\ \E d \in DispatchesOf(c) : Kept(d) /\ d.mode = "Direct"
           /\ \A d \in DispatchesOf(c) : Kept(d) =>
                d.seat \notin Generators /\ d.mode \in {"Direct", None}
<1>1. /\ ~Generates(manifest, roots[c]) /\ RootModes(manifest, roots[c]) # {}
      /\ Strongest(RootModes(manifest, roots[c])) = "Direct"
  BY DEF Read, CardMode
<1>2. RootModes(manifest, roots[c]) \subseteq Modes
  BY DEF RootModes
<1>3. /\ "Direct" \in RootModes(manifest, roots[c])
      /\ \A m \in RootModes(manifest, roots[c]) : AtLeast("Direct", m)
  BY <1>1, <1>2, StrongestMode
<1>4. \A m \in RootModes(manifest, roots[c]) : m = "Direct"
  BY <1>2, <1>3 DEF AtLeast, Rank, Modes
<1>5. roots[c] \subseteq DOMAIN manifest
  BY DEF IInv, RootsThere
<1>6. PICK i \in roots[c] : manifest[i].mode = "Direct"
  BY <1>3 DEF RootModes
<1>7. PICK d \in made : d.for = c /\ d.id = i /\ Kept(d)
  BY DEF IInv, RootsAreKept
<1>8. d.mode = "Direct"
  BY <1>6, <1>7 DEF Kept
<1>9. roots[c] \subseteq Subtree(manifest, roots[c])
  BY <1>5 DEF Subtree
<1>10. ASSUME NEW e \in made, e.for = c, Kept(e)
       PROVE  e.seat \notin Generators /\ e.mode \in {"Direct", None}
  <2>1. /\ e.mode \in Modes \cup {None} /\ e.id \in DOMAIN manifest
        /\ e.id \in roots[c] \/ manifest[e.id].parent \in roots[c]
        /\ e.mode \in Modes => e.id \in roots[c]
    BY <1>10 DEF IInv, DispatchesAreReached
  <2>2. e.id \in Subtree(manifest, roots[c])
    BY <1>5, <1>9, <2>1 DEF Subtree
  <2>3. e.seat \notin Generators
    BY <1>1, <1>10, <2>2 DEF Generates, Kept
  <2>4. ASSUME e.mode \in Modes PROVE e.mode = "Direct"
    <3>1. e.mode \in RootModes(manifest, roots[c])
      BY <1>5, <1>10, <2>1, <2>4 DEF RootModes, Kept
    <3> QED BY <1>4, <3>1
  <2> QED BY <2>1, <2>3, <2>4
<1> QED BY <1>7, <1>8, <1>10 DEF DispatchesOf

LEMMA Criteria ==
    ASSUME NEW mode, NEW obs \in Observation, Merges(mode, obs)
    PROVE  /\ obs.gates /\ obs.workflow /\ obs.settled
           /\ mode = "Direct" \/ (obs.goal = "PASS" /\ obs.unopposed)
<1>1. \A n \in MergeCriteriaFor(mode) : Holds(obs)[n]
  BY DEF Merges
<1>2. {1, 2, 5} \subseteq MergeCriteriaFor(mode)
  BY DEF MergeCriteriaFor
<1>3. mode # "Direct" => {3, 4} \subseteq MergeCriteriaFor(mode)
  BY DEF MergeCriteriaFor
<1>4. /\ Holds(obs)[1] = obs.gates /\ Holds(obs)[2] = obs.workflow
      /\ Holds(obs)[3] = obs.unopposed /\ Holds(obs)[4] = (obs.goal = "PASS")
      /\ Holds(obs)[5] = obs.settled
  BY DEF Holds
<1> QED BY <1>1, <1>2, <1>3, <1>4

(* No card is merged without the evidence its mode asks for, for every     *)
(* number of cards, dispatches in any order, and second attempts           *)
(* (evaluateMergeCheck over readCardMode).                                 *)
THEOREM Evidence == Spec => []MergedOnEvidence
<1>1. IInv => MergedOnEvidence
  <2> SUFFICES ASSUME IInv, NEW c \in Cards, NEW obs \in Observation, Merges(Read(c), obs)
               PROVE  /\ obs.gates /\ obs.workflow /\ obs.settled
                      /\ obs.goal # "PASS" \/ ~obs.unopposed =>
                           LET kept == {d \in DispatchesOf(c) : Kept(d)}
                           IN  /\ \E d \in kept : d.mode = "Direct"
                               /\ \A d \in kept : d.seat \notin Generators
                                                  /\ d.mode \in {"Direct", None}
    BY DEF MergedOnEvidence
  <2>1. /\ obs.gates /\ obs.workflow /\ obs.settled
        /\ Read(c) = "Direct" \/ (obs.goal = "PASS" /\ obs.unopposed)
    BY Criteria
  <2>2. CASE Read(c) = "Direct"
    BY <2>1, <2>2, DirectIsEarned
  <2>3. CASE obs.goal = "PASS" /\ obs.unopposed
    BY <2>1, <2>3
  <2> QED BY <2>1, <2>2, <2>3
<1> QED BY <1>1, InitIInv, NextIInv, PTL DEF Spec

-----------------------------------------------------------------------------
OwnIds(c) == {d.id : d \in DispatchesOf(c)}

(* A manifest that hangs under a card's dispatch is of a dispatch of the    *)
(* card.                                                                   *)
LEMMA OwnIsClosed ==
    ASSUME IInv, NEW c \in Cards, NEW k \in DOMAIN manifest, manifest[k].parent \in OwnIds(c)
    PROVE  k \in OwnIds(c)
<1>1. PICK d \in made : d.for = c /\ d.id = manifest[k].parent
  BY DEF OwnIds, DispatchesOf
<1>2. /\ d.id \in DOMAIN manifest
      /\ d.id \in roots[c] \/ manifest[d.id].parent \in roots[c]
  BY <1>1 DEF IInv, DispatchesAreReached
<1>3. Session \notin DOMAIN manifest
  <2> SUFFICES ASSUME Session \in DOMAIN manifest PROVE FALSE
    OBVIOUS
  <2>1. PICK q \in Seq(Nat), n \in Nat : Session = Append(q, n)
    BY DEF IInv, IdsSpellParents
  <2> QED BY <2>1, AppendProperties DEF Session
<1>4. PICK e \in Cards : /\ manifest[k].parent \in roots[e]
                         /\ \E f \in made : f.for = e /\ f.id = k
  BY <1>1, <1>2, <1>3 DEF IInv, ChildrenAreOwned
<1>5. manifest[d.id].parent = Session
  BY <1>1, <1>4 DEF IInv, RootsAreKept
<1>6. d.id \in roots[c]
  BY <1>2, <1>3, <1>5 DEF IInv, RootsThere
<1>7. e = c
  BY <1>1, <1>4, <1>6 DEF IInv, RootsAreApart
<1> QED BY <1>4, <1>7 DEF OwnIds, DispatchesOf

LEMMA OwnSubtree ==
    ASSUME IInv, NEW c \in Cards, NEW own, own = [i \in OwnIds(c) |-> manifest[i]]
    PROVE  /\ Subtree(manifest, roots[c]) = Subtree(own, roots[c])
           /\ roots[c] \subseteq OwnIds(c) /\ OwnIds(c) \subseteq DOMAIN manifest
<1>1. OwnIds(c) \subseteq DOMAIN manifest
  BY DEF OwnIds, DispatchesOf, IInv, DispatchesAreReached
<1>2. roots[c] \subseteq OwnIds(c)
  BY DEF OwnIds, DispatchesOf, IInv, RootsAreKept
<1>3. DOMAIN own = OwnIds(c) /\ \A i \in OwnIds(c) : own[i] = manifest[i]
  OBVIOUS
<1>4. Subtree(own, roots[c]) \subseteq Subtree(manifest, roots[c])
  <2>1. PICK ms : ms = manifest
    OBVIOUS
  <2>2. PICK ids : ids = roots[c]
    OBVIOUS
  <2>3. Subtree(own, ids) \subseteq Subtree(ms, ids)
    BY <1>1, <1>3, <2>1, SubtreeGrows
  <2> QED BY <2>1, <2>2, <2>3
<1>5. Subtree(manifest, roots[c]) \subseteq Subtree(own, roots[c])
  <2> SUFFICES ASSUME NEW i \in Subtree(manifest, roots[c]), NEW S \in SUBSET DOMAIN own,
                      roots[c] \cap DOMAIN own \subseteq S,
                      \A k \in DOMAIN own : own[k].parent \in S => k \in S
               PROVE  i \in DOMAIN own /\ i \in S
    BY DEF Subtree
  <2>1. S \in SUBSET DOMAIN manifest /\ roots[c] \cap DOMAIN manifest \subseteq S
    BY <1>1, <1>2, <1>3
  <2>2. \A k \in DOMAIN manifest : manifest[k].parent \in S => k \in S
    BY <1>3, OwnIsClosed
  <2>3. i \in S
    BY <2>1, <2>2 DEF Subtree
  <2> QED BY <2>3
<1> QED BY <1>1, <1>2, <1>4, <1>5

(* A card reads the same when every manifest of other cards and of the     *)
(* session's own dispatches is left out (readCardMode).                    *)
THEOREM Apart == Spec => []ForestsApart
<1>1. IInv => ForestsApart
  <2> SUFFICES ASSUME IInv, NEW c \in Cards
               PROVE  Read(c) = CardMode([i \in OwnIds(c) |-> manifest[i]], roots[c])
    BY DEF ForestsApart, OwnIds
  <2>1. PICK own : own = [i \in OwnIds(c) |-> manifest[i]]
    OBVIOUS
  <2>2. /\ Subtree(manifest, roots[c]) = Subtree(own, roots[c])
        /\ roots[c] \subseteq OwnIds(c) /\ OwnIds(c) \subseteq DOMAIN manifest
    BY <2>1, OwnSubtree
  <2>3. DOMAIN own = OwnIds(c) /\ \A i \in OwnIds(c) : own[i] = manifest[i]
    BY <2>1
  <2>4. roots[c] \cap DOMAIN own = roots[c] \cap DOMAIN manifest
    BY <2>2, <2>3
  <2>5. Generates(manifest, roots[c]) <=> Generates(own, roots[c])
    <3>1. \A i \in Subtree(own, roots[c]) : own[i] = manifest[i]
      BY <2>3 DEF Subtree
    <3> QED BY <2>2, <3>1 DEF Generates
  <2>6. RootModes(manifest, roots[c]) = RootModes(own, roots[c])
    BY <2>2, <2>3, <2>4 DEF RootModes
  <2>7. Read(c) = CardMode(own, roots[c])
    BY <2>4, <2>5, <2>6 DEF Read, CardMode
  <2> QED BY <2>1, <2>7
<1> QED BY <1>1, InitIInv, NextIInv, PTL DEF Spec
=============================================================================
