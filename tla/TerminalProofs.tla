----------------------------- MODULE TerminalProofs -----------------------------
(***************************************************************************)
(* Proofs about what a user of the terminal reads and chooses: the job     *)
(* tree and its editor (Navigator), the transcript view (TranscriptView)   *)
(* and the model picker with the file it writes (CouncilConfig), for every *)
(* set of jobs, terminal, session file, catalogue and document.            *)
(***************************************************************************)
EXTENDS Navigator, TranscriptView, CouncilConfig,
        FiniteSetTheorems, FunctionTheorems, SequenceTheorems, WellFoundedInduction, TLAPS

-----------------------------------------------------------------------------
(* Sorted lists. *)

StrictOrder(S, R) ==
    /\ \A x \in S : <<x, x>> \notin R
    /\ \A x, y, z \in S : <<x, y>> \in R /\ <<y, z>> \in R => <<x, z>> \in R
    /\ \A x, y \in S : x = y \/ <<x, y>> \in R \/ <<y, x>> \in R

LEMMA RankRange ==
    ASSUME NEW S, IsFiniteSet(S), NEW R, StrictOrder(S, R), NEW x \in S
    PROVE  /\ Rank(S, R, x) \in 1 .. Cardinality(S)
           /\ IsFiniteSet(Below(S, R, x))
<1>1. Below(S, R, x) \in SUBSET (S \ {x})
  BY DEF Below, StrictOrder
<1>2. IsFiniteSet(S \ {x}) /\ Cardinality(S \ {x}) = Cardinality(S) - 1
  BY FS_RemoveElement
<1>3. IsFiniteSet(Below(S, R, x)) /\ Cardinality(Below(S, R, x)) <= Cardinality(S \ {x})
  BY <1>1, <1>2, FS_Subset
<1>4. Cardinality(Below(S, R, x)) \in Nat /\ Cardinality(S) \in Nat
  BY <1>3, FS_CardinalityType
<1> QED BY <1>2, <1>3, <1>4 DEF Rank

LEMMA RankGrows ==
    ASSUME NEW S, IsFiniteSet(S), NEW R, StrictOrder(S, R),
           NEW x \in S, NEW y \in S, <<x, y>> \in R
    PROVE  Rank(S, R, x) < Rank(S, R, y)
<1>1. Below(S, R, x) \in SUBSET (Below(S, R, y) \ {x}) /\ x \in Below(S, R, y)
  BY DEF Below, StrictOrder
<1>2. IsFiniteSet(Below(S, R, x)) /\ IsFiniteSet(Below(S, R, y))
  BY RankRange
<1>3. /\ IsFiniteSet(Below(S, R, y) \ {x})
      /\ Cardinality(Below(S, R, y) \ {x}) = Cardinality(Below(S, R, y)) - 1
  BY <1>1, <1>2, FS_RemoveElement
<1>4. Cardinality(Below(S, R, x)) <= Cardinality(Below(S, R, y) \ {x})
  BY <1>1, <1>3, FS_Subset
<1>5. Cardinality(Below(S, R, x)) \in Nat /\ Cardinality(Below(S, R, y)) \in Nat
  BY <1>2, FS_CardinalityType
<1> QED BY <1>3, <1>4, <1>5 DEF Rank

LEMMA RankOnto ==
    ASSUME NEW S, IsFiniteSet(S), NEW R, StrictOrder(S, R), NEW i \in 1 .. Cardinality(S)
    PROVE  \E x \in S : Rank(S, R, x) = i
<1> DEFINE T == 1 .. Cardinality(S)
           f == [x \in S |-> Rank(S, R, x)]
<1>1. Cardinality(S) \in Nat
  BY FS_CardinalityType
<1>2. f \in [S -> T]
  BY RankRange
<1>3. ASSUME NEW x \in S, NEW y \in S, x # y PROVE f[x] # f[y]
  <2>1. Rank(S, R, x) \in Nat /\ Rank(S, R, y) \in Nat
    BY RankRange, <1>1
  <2>2. <<x, y>> \in R \/ <<y, x>> \in R
    BY <1>3 DEF StrictOrder
  <2>3. Rank(S, R, x) < Rank(S, R, y) \/ Rank(S, R, y) < Rank(S, R, x)
    BY <2>2, RankGrows
  <2> QED BY <2>1, <2>3
<1>4. f \in Injection(S, T)
  BY <1>2, <1>3 DEF Injection, IsInjective
<1>5. IsFiniteSet(T) /\ Cardinality(T) = Cardinality(S)
  BY <1>1, FS_Interval
<1>6. f \in Surjection(S, T)
  BY <1>4, <1>5, FS_Injection
<1> QED BY <1>6 DEF Surjection

\* What a sorted list is: its elements are those of the set, in order.
LEMMA OrderedIs ==
    ASSUME NEW S, IsFiniteSet(S), NEW R, StrictOrder(S, R)
    PROVE  /\ Cardinality(S) \in Nat
           /\ Ordered(S, R) \in [1 .. Cardinality(S) -> S]
           /\ Ordered(S, R) \in Seq(S) /\ Len(Ordered(S, R)) = Cardinality(S)
           /\ DOMAIN Ordered(S, R) = 1 .. Cardinality(S)
           /\ \A i \in 1 .. Cardinality(S) : /\ Ordered(S, R)[i] \in S
                                             /\ Rank(S, R, Ordered(S, R)[i]) = i
           /\ \A x \in S : /\ Rank(S, R, x) \in 1 .. Cardinality(S)
                           /\ Ordered(S, R)[Rank(S, R, x)] = x
<1>1. Cardinality(S) \in Nat
  BY FS_CardinalityType
<1>2. ASSUME NEW i \in 1 .. Cardinality(S)
      PROVE  Ordered(S, R)[i] \in S /\ Rank(S, R, Ordered(S, R)[i]) = i
  BY RankOnto DEF Ordered
<1>3. Ordered(S, R) \in [1 .. Cardinality(S) -> S]
  BY <1>2 DEF Ordered
<1>4. Ordered(S, R) \in Seq(S) /\ Len(Ordered(S, R)) = Cardinality(S)
  BY <1>1, <1>3
<1>5. ASSUME NEW x \in S PROVE /\ Rank(S, R, x) \in 1 .. Cardinality(S)
                               /\ Ordered(S, R)[Rank(S, R, x)] = x
  <2>1. Rank(S, R, x) \in 1 .. Cardinality(S)
    BY RankRange
  <2> DEFINE y == Ordered(S, R)[Rank(S, R, x)]
  <2>2. y \in S /\ Rank(S, R, y) = Rank(S, R, x)
    BY <1>2, <2>1
  <2>3. CASE y # x
    <3>1. <<x, y>> \in R \/ <<y, x>> \in R
      BY <2>2, <2>3 DEF StrictOrder
    <3>2. Rank(S, R, x) < Rank(S, R, y) \/ Rank(S, R, y) < Rank(S, R, x)
      BY <2>2, <3>1, RankGrows
    <3> QED BY <2>1, <2>2, <3>2, <1>1
  <2> QED BY <2>1, <2>3
<1>6. DOMAIN Ordered(S, R) = 1 .. Cardinality(S)
  BY DEF Ordered
<1> QED BY <1>1, <1>2, <1>3, <1>4, <1>5, <1>6

\* What T has and S has not comes behind all of S.
Appends(S, Q, T, R) ==
    /\ S \subseteq T
    /\ \A x, y \in S : <<x, y>> \in Q <=> <<x, y>> \in R
    /\ \A x \in S : \A y \in T \ S : <<x, y>> \in R

\* Adding elements behind all others keeps what was in the list where it was.
LEMMA OrderedPrefix ==
    ASSUME NEW S, IsFiniteSet(S), NEW T, IsFiniteSet(T), NEW Q, StrictOrder(S, Q),
           NEW R, StrictOrder(T, R), Appends(S, Q, T, R)
    PROVE  /\ Cardinality(S) <= Cardinality(T)
           /\ \A i \in 1 .. Cardinality(S) : Ordered(T, R)[i] = Ordered(S, Q)[i]
<1>0. S \subseteq T
  BY DEF Appends
<1>1. Cardinality(S) <= Cardinality(T)
  BY <1>0, FS_Subset
<1>2. ASSUME NEW x \in S PROVE Rank(T, R, x) = Rank(S, Q, x)
  <2>1. Below(T, R, x) = Below(S, Q, x)
    BY DEF Below, StrictOrder, Appends
  <2> QED BY <2>1 DEF Rank
<1>3. Cardinality(S) \in Nat /\ Cardinality(T) \in Nat
  BY FS_CardinalityType
<1>4. ASSUME NEW i \in 1 .. Cardinality(S) PROVE Ordered(T, R)[i] = Ordered(S, Q)[i]
  <2>1. Ordered(S, Q)[i] \in S /\ Rank(S, Q, Ordered(S, Q)[i]) = i
    BY OrderedIs
  <2>2. Rank(T, R, Ordered(S, Q)[i]) = i /\ Ordered(S, Q)[i] \in T
    BY <2>1, <1>0, <1>2
  <2> DEFINE x == Ordered(S, Q)[i]
  <2>3. Ordered(T, R)[Rank(T, R, x)] = x
    BY <2>2, OrderedIs
  <2> QED BY <2>2, <2>3
<1> QED BY <1>1, <1>4
-----------------------------------------------------------------------------
(* The editor slot and the tree. *)

\* What is live is what the slot and the two module variables build, and the
\* tree's factory is reachable in it exactly while the tree is open.
SlotInv == ~endless =>
    /\ live = Built(slot, treePrior, retryPrior).layers
    /\ Built(slot, treePrior, retryPrior).ends
    /\ open <=> (slot = "tree" \/ (slot = "retry" /\ retryPrior = "tree"))
    /\ IF open THEN treePrior # "tree" ELSE treePrior = "default"
    /\ IF retryInstalled
       THEN "stale" \notin {slot, treePrior, retryPrior} /\ retryPrior # "retry"
       ELSE retryPrior = "default" /\ slot # "retry" /\ treePrior # "retry"

\* The snapshot is never ahead of the manifests.
RowsBehind ==
    \A j \in Jobs : rows[j] # None =>
        manifest[j] # None /\ rows[j].attempt <= manifest[j].attempt

\* The cursor names an attempt that the snapshot has.
CursorKept ==
    /\ cursor \in Nat \X Nat
    /\ cursor # NoSession => /\ cursor[1] \in Jobs /\ rows[cursor[1]] # None
                             /\ cursor[2] \in Browsable(rows[cursor[1]])

\* There is an attempt to show of whatever is listed.
HasAttempt ==
    \A j \in Jobs : /\ manifest[j] # None => manifest[j].attempt >= 1
                    /\ rows[j] # None => rows[j].attempt >= 1

SnapshotInv == RowsBehind /\ CursorKept /\ HasAttempt

NavInv == TypeOK /\ SlotInv /\ SnapshotInv

LEMMA BuiltIs ==
    ASSUME NEW f, NEW tp, NEW rp
    PROVE  /\ Built(f, tp, rp).ends \in BOOLEAN
           /\ Built(f, tp, rp).ends <=>
                \/ ~Composes(f) \/ ~Composes(Under(f, tp, rp))
                \/ ~Composes(Under(Under(f, tp, rp), tp, rp))
           /\ Built(f, tp, rp).layers =
                IF ~Composes(f) THEN <<>>
                ELSE IF ~Composes(Under(f, tp, rp)) THEN <<Layer(f)>>
                ELSE <<Layer(f), Layer(Under(f, tp, rp))>>
<1> DEFINE g == Under(f, tp, rp)
           h == Under(g, tp, rp)
<1>1. CASE ~Composes(f)
  <2>1. Built(f, tp, rp) = [layers |-> <<>>, ends |-> TRUE]
    BY <1>1 DEF Built
  <2> QED BY <1>1, <2>1
<1>2. CASE Composes(f) /\ ~Composes(g)
  <2>1. Built(f, tp, rp) = [layers |-> <<Layer(f)>>, ends |-> TRUE]
    BY <1>2 DEF Built
  <2> QED BY <1>2, <2>1
<1>3. CASE Composes(f) /\ Composes(g)
  <2>1. Built(f, tp, rp) = [layers |-> <<Layer(f), Layer(g)>>, ends |-> ~Composes(h)]
    BY <1>3 DEF Built
  <2>2. Built(f, tp, rp).layers = <<Layer(f), Layer(g)>>
    BY <2>1
  <2>3. Built(f, tp, rp).ends = ~Composes(h)
    BY <2>1
  <2>4. Built(f, tp, rp).ends \in BOOLEAN /\ (Built(f, tp, rp).ends <=> ~Composes(h))
    BY <2>3
  <2> QED BY <1>3, <2>2, <2>4
<1> QED BY <1>1, <1>2, <1>3

LEMMA SameBuild ==
    ASSUME NEW f, NEW tp, NEW rp, NEW tq, NEW rq, Built(f, tp, rp).ends,
           Composes(f) =>
             /\ Composes(Under(f, tp, rp)) <=> Composes(Under(f, tq, rq))
             /\ Composes(Under(f, tp, rp)) =>
                   /\ Layer(Under(f, tp, rp)) = Layer(Under(f, tq, rq))
                   /\ ~Composes(Under(Under(f, tq, rq), tq, rq))
    PROVE  Built(f, tq, rq).ends /\ Built(f, tq, rq).layers = Built(f, tp, rp).layers
BY BuiltIs

LEMMA LayersType ==
    ASSUME NEW f, NEW tp, NEW rp
    PROVE  /\ Built(f, tp, rp).layers \in Seq({"tree", "retry"})
           /\ Len(Built(f, tp, rp).layers) <= 2
<1> DEFINE g == Under(f, tp, rp)
           L == {"tree", "retry"}
<1>1. Layer(f) \in L /\ Layer(g) \in L
  BY DEF Layer
<1>2. \/ Built(f, tp, rp).layers = <<>>
      \/ Built(f, tp, rp).layers = <<Layer(f)>>
      \/ Built(f, tp, rp).layers = <<Layer(f), Layer(g)>>
  BY BuiltIs
<1> HIDE DEF g
<1>3. <<>> \in Seq(L) /\ <<Layer(f)>> \in Seq(L) /\ <<Layer(f), Layer(g)>> \in Seq(L)
  BY <1>1
<1>4. Len(<<>>) <= 2 /\ Len(<<Layer(f)>>) <= 2 /\ Len(<<Layer(f), Layer(g)>>) <= 2
  OBVIOUS
<1> QED BY <1>2, <1>3, <1>4

\* The four operations on the slot keep its types.
LEMMA SlotTypes ==
    ASSUME SlotTypeOK, InstallTree \/ RestoreTree \/ InstallRetry \/ RestoreRetry
    PROVE  SlotTypeOK'
<1>1. ASSUME NEW f \in Factories, NEW tp \in Factories, NEW rp \in Factories,
             SetEditorComponent(f, tp, rp)
      PROVE  /\ slot' \in Factories /\ endless' \in BOOLEAN
             /\ live' \in Seq({"tree", "retry"}) /\ Len(live') <= 2
  <2>1. endless' = ~Built(f, tp, rp).ends /\ slot' = f
        /\ (live' = live \/ live' = Built(f, tp, rp).layers)
    BY <1>1 DEF SetEditorComponent
  <2>2. endless' \in BOOLEAN
    BY <2>1, BuiltIs
  <2> QED BY <2>1, <2>2, LayersType DEF SlotTypeOK
<1>2. /\ "default" \in Factories /\ "tree" \in Factories /\ "retry" \in Factories
      /\ \A f \in Factories : Aged(f) \in Factories
  BY DEF Factories, Aged
<1>3. CASE InstallTree
  BY <1>1, <1>2, <1>3 DEF InstallTree, SlotTypeOK
<1>4. CASE RestoreTree
  BY <1>1, <1>2, <1>4 DEF RestoreTree, SlotTypeOK
<1>5. CASE InstallRetry
  BY <1>1, <1>2, <1>5 DEF InstallRetry, SlotTypeOK, slotVars
<1>6. CASE RestoreRetry
  <2>1. CASE ~retryInstalled
    BY <2>1, <1>6 DEF RestoreRetry, SlotTypeOK, slotVars
  <2>2. CASE retryInstalled
    <3>1. treePrior' \in Factories /\ retryPrior' \in Factories /\ retryInstalled' \in BOOLEAN
      BY <2>2, <1>2, <1>6 DEF RestoreRetry, SlotTypeOK
    <3>2. \/ SetEditorComponent(retryPrior, treePrior, retryPrior)
          \/ UNCHANGED <<slot, live, endless>>
      BY <2>2, <1>6 DEF RestoreRetry
    <3> QED BY <3>1, <3>2, <1>1 DEF SlotTypeOK
  <2> QED BY <2>1, <2>2
<1> QED BY <1>3, <1>4, <1>5, <1>6

LEMMA ToggleSlot ==
    ASSUME SlotTypeOK, SlotInv, ~endless,
           \/ open /\ RestoreTree /\ open' = FALSE
           \/ ~open /\ InstallTree /\ open' = TRUE
    PROVE  SlotInv'
<1> SUFFICES ASSUME ~endless' PROVE
        /\ live' = Built(slot', treePrior', retryPrior').layers
        /\ Built(slot', treePrior', retryPrior').ends
        /\ open' <=> (slot' = "tree" \/ (slot' = "retry" /\ retryPrior' = "tree"))
        /\ IF open' THEN treePrior' # "tree" ELSE treePrior' = "default"
        /\ IF retryInstalled'
           THEN "stale" \notin {slot', treePrior', retryPrior'} /\ retryPrior' # "retry"
           ELSE retryPrior' = "default" /\ slot' # "retry" /\ treePrior' # "retry"
  BY DEF SlotInv
<1> PICK s, t, r : s = slot /\ t = treePrior /\ r = retryPrior
  OBVIOUS
<1>0. /\ \/ ~Composes(s) \/ ~Composes(Under(s, t, r)) \/ ~Composes(Under(Under(s, t, r), t, r))
      /\ s \in Factories /\ t \in Factories /\ r \in Factories
      /\ open <=> (s = "tree" \/ (s = "retry" /\ r = "tree"))
      /\ IF open THEN t # "tree" ELSE t = "default"
      /\ IF retryInstalled
         THEN "stale" \notin {s, t, r} /\ r # "retry"
         ELSE r = "default" /\ s # "retry" /\ t # "retry"
  BY BuiltIs DEF SlotInv, SlotTypeOK
<1>1. CASE open /\ RestoreTree /\ open' = FALSE
  <2>1. /\ slot' = t /\ Built(t, t, r).ends /\ live' = Built(t, t, r).layers
        /\ treePrior' = "default" /\ retryPrior' = r /\ retryInstalled' = retryInstalled
    BY <1>1, BuiltIs DEF RestoreTree, SetEditorComponent
  <2>2. t # "tree" /\ ~(t = "retry" /\ r = "tree")
    BY <1>0, <1>1 DEF Composes, Under
  <2>3. Composes(t) => /\ Under(t, "default", r) = r /\ Under(t, t, r) = r
                       /\ Composes(r) => Under(r, "default", r) = Under(r, t, r) \/ r = "tree"
    BY <2>2 DEF Under
  <2>4. Composes(t) /\ Composes(r) => ~Composes(Under(r, "default", r))
    BY <2>1, <2>2, <2>3, BuiltIs DEF Composes, Under
  <2>5. Built(t, "default", r).ends /\ Built(t, "default", r).layers = Built(t, t, r).layers
    BY <2>1, <2>3, <2>4, SameBuild
  <2> QED BY <1>0, <1>1, <2>1, <2>2, <2>5
<1>2. CASE ~open /\ InstallTree /\ open' = TRUE
  <2>1. /\ slot' = "tree" /\ Built("tree", s, r).ends /\ live' = Built("tree", s, r).layers
        /\ treePrior' = s /\ retryPrior' = r /\ retryInstalled' = retryInstalled
    BY <1>2, BuiltIs DEF InstallTree, SetEditorComponent
  <2> QED BY <1>0, <1>2, <2>1
<1> QED BY <1>1, <1>2

LEMMA RetrySlot ==
    ASSUME SlotTypeOK, SlotInv, ~endless, InstallRetry \/ RestoreRetry, open' = open
    PROVE  SlotInv'
<1> SUFFICES ASSUME ~endless' PROVE
        /\ live' = Built(slot', treePrior', retryPrior').layers
        /\ Built(slot', treePrior', retryPrior').ends
        /\ open' <=> (slot' = "tree" \/ (slot' = "retry" /\ retryPrior' = "tree"))
        /\ IF open' THEN treePrior' # "tree" ELSE treePrior' = "default"
        /\ IF retryInstalled'
           THEN "stale" \notin {slot', treePrior', retryPrior'} /\ retryPrior' # "retry"
           ELSE retryPrior' = "default" /\ slot' # "retry" /\ treePrior' # "retry"
  BY DEF SlotInv
<1> PICK s, t, r : s = slot /\ t = treePrior /\ r = retryPrior
  OBVIOUS
<1>0. /\ \/ ~Composes(s) \/ ~Composes(Under(s, t, r)) \/ ~Composes(Under(Under(s, t, r), t, r))
      /\ s \in Factories /\ t \in Factories /\ r \in Factories
      /\ open <=> (s = "tree" \/ (s = "retry" /\ r = "tree"))
      /\ IF open THEN t # "tree" ELSE t = "default"
      /\ IF retryInstalled
         THEN "stale" \notin {s, t, r} /\ r # "retry"
         ELSE r = "default" /\ s # "retry" /\ t # "retry"
      /\ live = Built(s, t, r).layers /\ Built(s, t, r).ends
  BY BuiltIs DEF SlotInv, SlotTypeOK
<1>1. CASE UNCHANGED slotVars
  BY <1>1, <1>0 DEF slotVars
<1>2. CASE ~retryInstalled /\ InstallRetry
  <2>1. /\ slot' = "retry" /\ Built("retry", t, s).ends /\ live' = Built("retry", t, s).layers
        /\ treePrior' = t /\ retryPrior' = s /\ retryInstalled' = TRUE
    BY <1>2, BuiltIs DEF InstallRetry, SetEditorComponent
  <2>2. "stale" \notin {s, t}
    BY <2>1, <1>0, <1>2, BuiltIs DEF Composes, Under, Factories
  <2> QED BY <1>0, <1>2, <2>1, <2>2
<1>3. CASE retryInstalled /\ RestoreRetry
  <2>1. treePrior' = Aged(t) /\ retryPrior' = "default" /\ retryInstalled' = FALSE
    BY <1>3 DEF RestoreRetry
  <2>2. CASE s = "retry"
    <3>1. slot' = r /\ Built(r, t, r).ends /\ live' = Built(r, t, r).layers
      BY <1>3, <2>2, BuiltIs DEF RestoreRetry, SetEditorComponent, StillOurs
    <3>2. Built(r, t, r).ends
      BY <3>1, <1>0
    <3>3. Composes(r) =>
            /\ Composes(Under(r, t, r)) <=> Composes(Under(r, Aged(t), "default"))
            /\ Composes(Under(r, t, r)) =>
                 /\ Layer(Under(r, t, r)) = Layer(Under(r, Aged(t), "default"))
                 /\ ~Composes(Under(Under(r, Aged(t), "default"), Aged(t), "default"))
      BY <3>2, <2>2, <1>0, <1>3, BuiltIs DEF Composes, Under, Factories, Aged, Layer
    <3>4. /\ Built(r, Aged(t), "default").ends
          /\ Built(r, Aged(t), "default").layers = Built(r, t, r).layers
      BY <3>2, <3>3, SameBuild
    <3> QED BY <1>0, <1>3, <2>1, <2>2, <3>1, <3>4 DEF Aged
  <2>3. CASE s # "retry"
    <3>1. slot' = s /\ live' = live
      BY <1>3, <2>3 DEF RestoreRetry, StillOurs
    <3>2. Built(s, t, r).ends
      BY <3>1, <1>0
    <3>3. Composes(s) =>
            /\ Composes(Under(s, t, r)) <=> Composes(Under(s, Aged(t), "default"))
            /\ Composes(Under(s, t, r)) =>
                 /\ Layer(Under(s, t, r)) = Layer(Under(s, Aged(t), "default"))
                 /\ ~Composes(Under(Under(s, Aged(t), "default"), Aged(t), "default"))
      BY <3>2, <2>3, <1>0, <1>3, BuiltIs DEF Composes, Under, Factories, Aged, Layer
    <3>4. /\ Built(s, Aged(t), "default").ends
          /\ Built(s, Aged(t), "default").layers = Built(s, t, r).layers
      BY <3>2, <3>3, SameBuild
    <3> QED BY <1>0, <1>3, <2>1, <2>3, <3>1, <3>4 DEF Aged
  <2> QED BY <2>2, <2>3
<1> QED BY <1>1, <1>2, <1>3 DEF InstallRetry, RestoreRetry

Manifests == {None} \cup [state : DOMAIN Order, attempt : Nat]

TreeTypeOK ==
    /\ manifest \in [Jobs -> Manifests] /\ rows \in [Jobs -> Manifests]
    /\ ctlRows \in Seq(Jobs) /\ open \in BOOLEAN
    /\ surface \in {"editor", "tree", "progress"}
    /\ selected \in Jobs \cup {NoRow}

LEMMA TypeParts ==
    TypeOK <=> TreeTypeOK /\ SlotTypeOK /\ retrySurface \in {"idle", "backoff", "exhausted"}
BY DEF TypeOK, TreeTypeOK, Manifests

LEMMA JobFacts ==
    /\ IsFiniteSet(Jobs) /\ \A j \in Jobs : j \in Nat /\ j # NoRow
    /\ DOMAIN Order = {"running", "retrying", "failed", "done"}
    /\ \A s \in DOMAIN Order : Order[s] \in Nat
    /\ \A m \in Manifests : m # None => /\ m \in [state : DOMAIN Order, attempt : Nat]
                                        /\ m.state \in DOMAIN Order /\ m.attempt \in Nat
<1>1. DOMAIN Order = {"running", "retrying", "failed", "done"}
  BY DEF Order
<1>2. \A s \in DOMAIN Order : Order[s] \in Nat
  BY DEF Order
<1> QED BY <1>1, <1>2, JobsAssumption DEF Manifests, NoRow

\* A record with a state is not the missing manifest.
LEMMA NotNone == \A m \in [state : DOMAIN Order, attempt : Nat] : m # None
<1> SUFFICES ASSUME NEW m \in [state : DOMAIN Order, attempt : Nat], m = None PROVE FALSE
  OBVIOUS
<1>1. DOMAIN m = {"state", "attempt"}
  OBVIOUS
<1>2. DOMAIN None = {"none"}
  BY DEF None
<1> QED BY <1>1, <1>2

\* The rows of a drawing are the jobs of the snapshot, in an order.
LEMMA SortedRows ==
    ASSUME NEW rs \in [Jobs -> Manifests]
    PROVE  Sorted(rs) \in Seq(Jobs)
<1> DEFINE S == Listed(rs)
           R == {p \in S \X S : Before(rs, p[1], p[2])}
<1>1. S \subseteq Jobs /\ IsFiniteSet(S)
  BY JobFacts, FS_Subset DEF Listed
<1>2. \A i \in S : Order[rs[i].state] \in Nat /\ i \in Nat
  BY JobFacts DEF Listed
<1>3. \A i, j \in S : <<i, j>> \in R <=> Before(rs, i, j)
  OBVIOUS
<1>4. StrictOrder(S, R)
  <2> HIDE DEF R, S
  <2>1. \A x \in S : ~Before(rs, x, x)
    BY <1>2 DEF Before
  <2>2. \A x, y, z \in S : Before(rs, x, y) /\ Before(rs, y, z) => Before(rs, x, z)
    BY <1>2 DEF Before
  <2>3. \A x, y \in S : x = y \/ Before(rs, x, y) \/ Before(rs, y, x)
    BY <1>2 DEF Before
  <2> QED BY <1>3, <2>1, <2>2, <2>3 DEF StrictOrder
<1>5. Ordered(S, R) \in [1 .. Cardinality(S) -> S] /\ Cardinality(S) \in Nat
  BY <1>1, <1>4, OrderedIs
<1>6. Ordered(S, R) \in Seq(Jobs)
  BY <1>1, <1>5
<1> QED BY <1>6 DEF Sorted

\* The position of the selected row, and the keys that move it.
LEMMA MoveTypes ==
    ASSUME TreeTypeOK, KeyUp \/ KeyDown \/ KeyDownFromEditor
    PROVE  surface' \in {"editor", "tree", "progress"} /\ selected' \in Jobs \cup {NoRow}
<1>1. Len(ctlRows) \in Nat /\ DOMAIN ctlRows = 1 .. Len(ctlRows)
      /\ \A i \in DOMAIN ctlRows : ctlRows[i] \in Jobs
  BY DEF TreeTypeOK
<1>2. Position(selected) \in 0 .. Len(ctlRows)
  <2>1. CASE \E i \in DOMAIN ctlRows : ctlRows[i] = selected
    <3>1. Position(selected) \in DOMAIN ctlRows
      BY <2>1 DEF Position
    <3> QED BY <3>1, <1>1
  <2>2. CASE ~ \E i \in DOMAIN ctlRows : ctlRows[i] = selected
    BY <2>2, <1>1 DEF Position
  <2> QED BY <2>1, <2>2
<1>3. CASE KeyUp
  BY <1>1, <1>2, <1>3 DEF KeyUp, AtTop, Exit, Move, Focus
<1>4. CASE KeyDown
  BY <1>1, <1>2, <1>4 DEF KeyDown, AtBottom, Exit, Move, Focus
<1>5. CASE KeyDownFromEditor
  <2>1. 1 \in DOMAIN ctlRows
    BY <1>1, <1>5 DEF KeyDownFromEditor
  <2>2. CASE Position(selected) = 0
    BY <1>1, <1>5, <2>1, <2>2 DEF KeyDownFromEditor, Focus
  <2>3. CASE Position(selected) # 0
    BY <1>5, <2>3 DEF KeyDownFromEditor, Focus, TreeTypeOK
  <2> QED BY <2>2, <2>3
<1> QED BY <1>3, <1>4, <1>5

TreeKeys == KeyDownFromEditor \/ KeyUp \/ KeyDown \/ KeyEnter \/ KeyEscape

LEMMA KeysTypes ==
    ASSUME TreeTypeOK, TreeKeys
    PROVE  TreeTypeOK'
<1>1. UNCHANGED <<manifest, open, rows, drawn, ctlRows, cursor, view>>
  BY DEF TreeKeys, KeyDownFromEditor, KeyUp, KeyDown, KeyEnter, KeyEscape, KeyStep,
         drawVars, viewVars
<1>2. surface' \in {"editor", "tree", "progress"} /\ selected' \in Jobs \cup {NoRow}
  BY MoveTypes DEF TreeKeys, KeyEnter, KeyEscape, Focus, Exit, TreeTypeOK
<1> QED BY <1>1, <1>2 DEF TreeTypeOK

\* A manifest is only ever written with an attempt no earlier than before.
LEMMA ManifestGrows ==
    ASSUME TreeTypeOK, NEW j \in Jobs, JobChanges(j)
    PROVE  /\ manifest' \in [Jobs -> Manifests]
           /\ \A k \in Jobs : manifest[k] # None =>
                manifest'[k] # None /\ manifest[k].attempt <= manifest'[k].attempt
           /\ HasAttempt => HasAttempt'
           /\ UNCHANGED <<rows, drawn, ctlRows, open, surface, selected, cursor, view>>
           /\ UNCHANGED <<slotVars, retrySurface>>
<1> DEFINE R == [state : DOMAIN Order, attempt : Nat]
<1>1. PICK m \in R : /\ manifest' = [manifest EXCEPT ![j] = m]
                     /\ manifest[j] # None => manifest[j].attempt <= m.attempt
                     /\ manifest[j] = None => m.attempt = 1
                     /\ UNCHANGED <<rows, drawn, ctlRows, open, surface, selected, cursor, view>>
                     /\ UNCHANGED <<slotVars, retrySurface>>
  <2>1. manifest[j] \in Manifests
    BY DEF TreeTypeOK
  <2>2. CASE JobStarts(j)
    <3>1. [state |-> "running", attempt |-> 1] \in R
      BY JobFacts
    <3>2. [state |-> "running", attempt |-> 1].attempt = 1
      OBVIOUS
    <3> QED BY <2>2, <3>1, <3>2 DEF JobChanges, JobStarts, WriteManifest, focusVars, drawVars, viewVars
  <2>3. CASE JobRespawns(j)
    <3>0. manifest[j] \in R /\ manifest[j].attempt \in Nat
      BY <2>1, <2>3, JobFacts DEF JobRespawns
    <3>1. [state |-> "running", attempt |-> manifest[j].attempt + 1] \in R
      BY <3>0, JobFacts
    <3>2. manifest[j].attempt <= [state |-> "running", attempt |-> manifest[j].attempt + 1].attempt
      BY <3>0
    <3> QED BY <2>3, <3>1, <3>2
          DEF JobChanges, JobRespawns, WriteManifest, focusVars, drawVars, viewVars
  <2>4. ASSUME NEW s \in DOMAIN Order, JobSettles(j, s)
        PROVE  \E m \in R : /\ manifest' = [manifest EXCEPT ![j] = m] /\ manifest[j] # None
                            /\ manifest[j].attempt <= m.attempt
                            /\ UNCHANGED <<rows, drawn, ctlRows, open, surface, selected, cursor, view>>
    <3>0. manifest[j] \in R /\ manifest[j].attempt \in Nat
      BY <2>1, <2>4, JobFacts DEF JobSettles
    <3>1. [manifest[j] EXCEPT !.state = s] \in R
          /\ manifest[j].attempt <= [manifest[j] EXCEPT !.state = s].attempt
      BY <3>0
    <3> QED BY <2>4, <3>1 DEF JobSettles, WriteManifest, focusVars, drawVars, viewVars
  <2> QED BY <2>2, <2>3, <2>4 DEF JobChanges
<1>2. m \in Manifests /\ m # None
  BY NotNone DEF Manifests
<1>3. manifest' \in [Jobs -> Manifests]
  BY <1>1, <1>2 DEF TreeTypeOK
<1>4. ASSUME NEW k \in Jobs, manifest[k] # None
      PROVE  manifest'[k] # None /\ manifest[k].attempt <= manifest'[k].attempt
  <2>1. CASE k = j
    <3>1. manifest'[k] = m
      BY <1>1, <2>1 DEF TreeTypeOK
    <3> QED BY <1>1, <1>2, <1>4, <2>1, <3>1
  <2>2. CASE k # j
    <3>1. manifest'[k] = manifest[k]
      BY <1>1, <2>2 DEF TreeTypeOK
    <3>2. manifest[k] \in Manifests
      BY DEF TreeTypeOK
    <3>3. manifest[k].attempt \in Nat
      BY <3>2, <1>4, JobFacts
    <3> QED BY <1>4, <3>1, <3>3
  <2> QED BY <2>1, <2>2
<1>5. ASSUME HasAttempt PROVE HasAttempt'
  <2>1. ASSUME NEW k \in Jobs, manifest'[k] # None PROVE manifest'[k].attempt >= 1
    <3>1. manifest[k] # None => manifest[k].attempt >= 1 /\ manifest[k].attempt \in Nat
      BY <1>5, JobFacts DEF HasAttempt, TreeTypeOK
    <3>2. manifest'[k].attempt \in Nat
      BY <2>1, <1>3, JobFacts
    <3>3. manifest[k] = None => k = j /\ manifest'[k] = m
      BY <1>1, <2>1 DEF TreeTypeOK
    <3> QED BY <1>1, <1>4, <3>1, <3>2, <3>3
  <2> QED BY <1>1, <1>5, <2>1 DEF HasAttempt
<1> QED BY <1>1, <1>3, <1>4, <1>5

\* Drawing, refreshing, opening and closing: the rest of the tree's steps.
LEMMA DrawTypes ==
    ASSUME TreeTypeOK,
           \/ Render \/ Refresh \/ OpenWidget \/ CloseWidget \/ \E d \in {-1, 1} : KeyBracket(d)
    PROVE  TreeTypeOK'
<1>1. CASE Render
  <2>1. ctlRows' \in Seq(Jobs)
    BY <1>1, SortedRows DEF Render, TreeTypeOK
  <2>2. UNCHANGED <<manifest, rows, open, surface, selected>>
    BY <1>1 DEF Render, focusVars
  <2> QED BY <2>1, <2>2 DEF TreeTypeOK
<1>2. CASE Refresh
  BY <1>2 DEF Refresh, TreeTypeOK, focusVars
<1>3. CASE OpenWidget
  BY <1>3 DEF OpenWidget, TreeTypeOK
<1>4. CASE CloseWidget
  BY <1>4 DEF CloseWidget, TreeTypeOK, Exit, Focus
<1>5. CASE \E d \in {-1, 1} : KeyBracket(d)
  BY <1>5 DEF KeyBracket, TreeTypeOK, focusVars
<1> QED BY <1>1, <1>2, <1>3, <1>4, <1>5

LEMMA SameSnapshot ==
    ASSUME SnapshotInv, UNCHANGED <<manifest, rows, cursor>>
    PROVE  SnapshotInv'
BY DEF SnapshotInv, RowsBehind, CursorKept, HasAttempt

LEMMA JobsSnapshot ==
    ASSUME TreeTypeOK, SnapshotInv, NEW j \in Jobs, JobChanges(j)
    PROVE  SnapshotInv'
<1>1. /\ UNCHANGED <<rows, cursor>>
      /\ \A k \in Jobs : manifest[k] # None =>
            manifest'[k] # None /\ manifest[k].attempt <= manifest'[k].attempt
      /\ manifest' \in [Jobs -> Manifests] /\ HasAttempt'
  BY ManifestGrows DEF SnapshotInv
<1>2. ASSUME NEW k \in Jobs, rows[k] # None
      PROVE  manifest'[k] # None /\ rows[k].attempt <= manifest'[k].attempt
  <2>1. /\ manifest[k] # None /\ manifest'[k] # None
        /\ rows[k].attempt <= manifest[k].attempt
        /\ manifest[k].attempt <= manifest'[k].attempt
    BY <1>1, <1>2 DEF SnapshotInv, RowsBehind
  <2>2. rows[k].attempt \in Nat /\ manifest[k].attempt \in Nat /\ manifest'[k].attempt \in Nat
    BY <1>1, <1>2, <2>1, JobFacts DEF TreeTypeOK
  <2> QED BY <2>1, <2>2
<1>3. RowsBehind'
  BY <1>1, <1>2 DEF RowsBehind
<1>4. CursorKept'
  BY <1>1 DEF SnapshotInv, CursorKept
<1> QED BY <1>1, <1>3, <1>4 DEF SnapshotInv

\* A fresh snapshot has every attempt the old one had.
LEMMA FreshSnapshot ==
    ASSUME TreeTypeOK, SnapshotInv, rows' = manifest, UNCHANGED <<manifest, cursor>>
    PROVE  SnapshotInv'
<1>1. ASSUME NEW k \in Jobs, rows'[k] # None
      PROVE  manifest'[k] # None /\ rows'[k].attempt <= manifest'[k].attempt
  <2>1. manifest[k].attempt \in Nat /\ rows'[k] = manifest[k] /\ manifest'[k] = manifest[k]
    BY <1>1, JobFacts DEF TreeTypeOK
  <2> QED BY <1>1, <2>1
<1>2. ASSUME cursor # NoSession
      PROVE  rows'[cursor[1]] # None /\ cursor[2] \in Browsable(rows'[cursor[1]])
  <2> DEFINE k == cursor[1]
  <2>1. k \in Jobs /\ rows[k] # None /\ cursor[2] \in Browsable(rows[k])
    BY <1>2 DEF SnapshotInv, CursorKept
  <2>2. manifest[k] # None /\ rows[k].attempt <= manifest[k].attempt
    BY <2>1 DEF SnapshotInv, RowsBehind
  <2>3. rows[k].attempt \in Nat /\ manifest[k].attempt \in Nat
    BY <2>1, <2>2, JobFacts DEF TreeTypeOK
  <2> QED BY <2>1, <2>2, <2>3 DEF Browsable
<1> QED BY <1>1, <1>2 DEF SnapshotInv, RowsBehind, CursorKept, HasAttempt

\* The cursor is put on an attempt of the selected row.
LEMMA CursorPut ==
    ASSUME TreeTypeOK, SnapshotInv, UNCHANGED <<manifest, rows>>,
           selected \in Listed(rows),
           NEW a \in Browsable(rows[selected]), cursor' = <<selected, a>>
    PROVE  SnapshotInv'
<1>1. selected \in Jobs /\ rows[selected] # None /\ selected \in Nat
  BY JobFacts DEF Listed
<1>2. a \in Nat
  BY <1>1, JobFacts DEF Browsable, TreeTypeOK
<1> QED BY <1>1, <1>2 DEF SnapshotInv, RowsBehind, CursorKept, HasAttempt

\* What is shown of a listed row is one of its attempts: the cursor's, if that
\* is there.
LEMMA ShownIs ==
    ASSUME TreeTypeOK, SnapshotInv, NEW j \in Listed(rows)
    PROVE  /\ Shown(rows[j], j) \in Browsable(rows[j])
           /\ cursor[1] = j => Shown(rows[j], j) = cursor[2]
<1>1. j \in Jobs /\ rows[j] # None /\ j # NoRow
  BY JobFacts DEF Listed
<1>2. rows[j].attempt \in Nat /\ rows[j].attempt >= 1
  BY <1>1, JobFacts DEF TreeTypeOK, SnapshotInv, HasAttempt
<1>3. cursor[1] = j => cursor[2] \in Browsable(rows[j])
  BY <1>1 DEF SnapshotInv, CursorKept, NoSession, NoRow
<1> QED BY <1>2, <1>3 DEF Shown, Browsable

LEMMA RenderSnapshot ==
    ASSUME TreeTypeOK, SnapshotInv, Render
    PROVE  SnapshotInv'
<1>1. UNCHANGED <<manifest, rows>>
  BY DEF Render
<1>2. CASE selected \in Listed(rows) /\ EnsureView
  BY <1>1, <1>2, ShownIs, CursorPut DEF EnsureView
<1>3. CASE UNCHANGED viewVars
  BY <1>1, <1>3, SameSnapshot DEF viewVars
<1> QED BY <1>2, <1>3 DEF Render

LEMMA BracketSnapshot ==
    ASSUME TreeTypeOK, SnapshotInv, NEW d, KeyBracket(d)
    PROVE  SnapshotInv'
BY CursorPut DEF KeyBracket

LEMMA OpenCloseSnapshot ==
    ASSUME TreeTypeOK, SnapshotInv, OpenWidget \/ CloseWidget
    PROVE  SnapshotInv'
<1>1. CASE OpenWidget
  BY <1>1, FreshSnapshot DEF OpenWidget, viewVars
<1>2. CASE CloseWidget
  <2>1. cursor' = NoSession /\ cursor' \in Nat \X Nat /\ UNCHANGED <<manifest, rows>>
    BY <1>2 DEF CloseWidget, NoSession
  <2> QED BY <2>1 DEF SnapshotInv, RowsBehind, CursorKept, HasAttempt
<1> QED BY <1>1, <1>2

-----------------------------------------------------------------------------
(* The whole. *)
LEMMA InitNav == NavInit => NavInv
<1> SUFFICES ASSUME NavInit PROVE NavInv
  OBVIOUS
<1>1. TreeTypeOK
  <2>1. <<>> \in Seq(Jobs)
    OBVIOUS
  <2> QED BY <2>1 DEF NavInit, Init, TreeTypeOK, Manifests
<1>2. SlotTypeOK
  <2>1. <<>> \in Seq({"tree", "retry"}) /\ Len(<<>>) <= 2
    OBVIOUS
  <2> QED BY <2>1 DEF NavInit, SlotInit, SlotTypeOK, Factories
<1>3. SlotInv
  <2>1. ~Composes(slot) /\ slot \in {"default", "other"} /\ live = <<>>
    BY DEF NavInit, SlotInit, Composes
  <2>2. Built(slot, treePrior, retryPrior).ends
        /\ Built(slot, treePrior, retryPrior).layers = <<>>
    BY <2>1, BuiltIs
  <2> QED BY <2>1, <2>2 DEF NavInit, Init, SlotInit, SlotInv
<1>4. SnapshotInv
  <2>1. cursor = NoSession /\ cursor \in Nat \X Nat
    BY DEF NavInit, Init, NoSession
  <2> QED BY <2>1 DEF NavInit, Init, SnapshotInv, RowsBehind, CursorKept, HasAttempt
<1> QED BY <1>1, <1>2, <1>3, <1>4, TypeParts DEF NavInv, NavInit

\* A step of the tree alone, of the slot alone, or a toggle of both.
LEMMA SlotFrame ==
    ASSUME SlotTypeOK, SlotInv, UNCHANGED <<slotVars, open>>
    PROVE  SlotTypeOK' /\ SlotInv'
BY DEF slotVars, SlotTypeOK, SlotInv

LEMMA NextNav == NavInv /\ [Next]_vars => NavInv'
<1> SUFFICES ASSUME NavInv, [Next]_vars PROVE NavInv'
  OBVIOUS
<1> USE DEF NavInv
<1>0. TreeTypeOK /\ SlotTypeOK /\ SlotInv /\ SnapshotInv
      /\ retrySurface \in {"idle", "backoff", "exhausted"}
  BY TypeParts
<1> HIDE DEF NavInv
<1> SUFFICES /\ TreeTypeOK' /\ SlotTypeOK' /\ SlotInv' /\ SnapshotInv'
             /\ retrySurface' \in {"idle", "backoff", "exhausted"}
  BY TypeParts DEF NavInv, TypeOK, TreeTypeOK, Manifests
<1>1. CASE UNCHANGED vars
  <2>1. UNCHANGED <<manifest, rows, ctlRows, open, surface, selected, cursor>>
        /\ UNCHANGED <<slotVars, open>> /\ retrySurface' = retrySurface
    BY <1>1 DEF vars, treeVars, focusVars, drawVars, viewVars
  <2> QED BY <1>0, <2>1, SlotFrame, SameSnapshot DEF TreeTypeOK
<1>2. ASSUME NEW j \in Jobs, JobChanges(j)
      PROVE  /\ TreeTypeOK' /\ SlotTypeOK' /\ SlotInv' /\ SnapshotInv'
             /\ retrySurface' \in {"idle", "backoff", "exhausted"}
  <2>1. /\ manifest' \in [Jobs -> Manifests]
        /\ UNCHANGED <<rows, ctlRows, open, surface, selected, slotVars, retrySurface>>
    BY <1>0, <1>2, ManifestGrows
  <2> QED BY <1>0, <1>2, <2>1, SlotFrame, JobsSnapshot DEF TreeTypeOK
<1>3. CASE Draw
  <2>1. UNCHANGED <<slotVars, open>> /\ Render /\ retrySurface' = retrySurface
    BY <1>3 DEF Draw, Render, focusVars
  <2> QED BY <1>0, <2>1, DrawTypes, SlotFrame, RenderSnapshot
<1>4. CASE Tick
  <2>1. /\ UNCHANGED <<slotVars, open>> /\ Refresh /\ retrySurface' = retrySurface
        /\ rows' = manifest /\ UNCHANGED <<manifest, cursor>>
    BY <1>4 DEF Tick, Refresh, focusVars, viewVars
  <2> QED BY <1>0, <2>1, DrawTypes, SlotFrame, FreshSnapshot
<1>5. CASE Toggle /\ ~endless
  <2>1. /\ OpenWidget \/ CloseWidget
        /\ InstallTree \/ RestoreTree
        /\ \/ open /\ RestoreTree /\ open' = FALSE
           \/ ~open /\ InstallTree /\ open' = TRUE
        /\ retrySurface' = retrySurface
    BY <1>5, <1>0 DEF Toggle, OpenWidget, CloseWidget, TreeTypeOK
  <2> QED BY <1>0, <1>5, <2>1, DrawTypes, SlotTypes, ToggleSlot, OpenCloseSnapshot
<1>6. ASSUME NEW s \in {"backoff", "exhausted"}, RetryShows(s) \/ RetryEnds, ~endless
      PROVE  /\ TreeTypeOK' /\ SlotTypeOK' /\ SlotInv' /\ SnapshotInv'
             /\ retrySurface' \in {"idle", "backoff", "exhausted"}
  <2>1. /\ InstallRetry \/ RestoreRetry
        /\ UNCHANGED <<manifest, rows, ctlRows, open, surface, selected, cursor>>
        /\ retrySurface' \in {"idle", "backoff", "exhausted"}
    BY <1>6, <1>0 DEF RetryShows, RetryEnds, treeVars, focusVars, drawVars, viewVars
  <2> QED BY <1>0, <1>6, <2>1, SlotTypes, RetrySlot, SameSnapshot DEF TreeTypeOK
<1>7. CASE RetryFires \/ Escape \/ \E e \in BOOLEAN : Enter(e)
  <2>1. /\ UNCHANGED treeVars \/ KeyEscape \/ KeyEnter
        /\ UNCHANGED slotVars
        /\ retrySurface' \in {"idle", "backoff", "exhausted"}
    BY <1>7, <1>0 DEF RetryFires, Escape, Enter, ToRetry, TreeHasFocus
  <2>2. CASE UNCHANGED treeVars
    <3>1. UNCHANGED <<manifest, rows, ctlRows, open, surface, selected, cursor>>
      BY <2>2 DEF treeVars, focusVars, drawVars, viewVars
    <3> QED BY <1>0, <2>1, <3>1, SlotFrame, SameSnapshot DEF TreeTypeOK
  <2>3. CASE KeyEscape \/ KeyEnter
    <3>1. TreeKeys /\ UNCHANGED <<manifest, rows, cursor, open>>
      BY <2>3 DEF TreeKeys, KeyEscape, KeyEnter, KeyStep, drawVars, viewVars
    <3> QED BY <1>0, <2>1, <3>1, SlotFrame, SameSnapshot, KeysTypes
  <2> QED BY <2>1, <2>2, <2>3
<1>8. CASE TreeKey
  <2>1. UNCHANGED slotVars /\ retrySurface' = retrySurface
    BY <1>8 DEF TreeKey
  <2>2. CASE KeyDownFromEditor \/ KeyUp \/ KeyDown
    <3>1. TreeKeys /\ UNCHANGED <<manifest, rows, cursor, open>>
      BY <2>2 DEF TreeKeys, KeyDownFromEditor, KeyUp, KeyDown, KeyStep, drawVars, viewVars
    <3> QED BY <1>0, <2>1, <3>1, SlotFrame, SameSnapshot, KeysTypes
  <2>3. ASSUME NEW d \in {-1, 1}, KeyBracket(d)
        PROVE  /\ TreeTypeOK' /\ SlotTypeOK' /\ SlotInv' /\ SnapshotInv'
               /\ retrySurface' \in {"idle", "backoff", "exhausted"}
    <3>1. open' = open
      BY <2>3 DEF KeyBracket, focusVars
    <3> QED BY <1>0, <2>1, <2>3, <3>1, DrawTypes, SlotFrame, BracketSnapshot
  <2> QED BY <1>8, <2>2, <2>3 DEF TreeKey
<1> QED BY <1>1, <1>2, <1>3, <1>4, <1>5, <1>6, <1>7, <1>8 DEF Next

(* However the job tree is opened and closed and the retry of the turn puts *)
(* its editor over it, under it or in its place (focus-nav.ts,              *)
(* parent-retry.ts), the tree's editor is live exactly while it is open.    *)
THEOREM EditorLive == Spec => []TreeEditorLive
<1>1. NavInv => TreeEditorLive
  <2> SUFFICES ASSUME NavInv, ~endless PROVE open <=> TreeLive
    BY DEF NavInv, TreeEditorLive
  <2>1. /\ live = Built(slot, treePrior, retryPrior).layers
        /\ Built(slot, treePrior, retryPrior).ends
        /\ open <=> (slot = "tree" \/ (slot = "retry" /\ retryPrior = "tree"))
        /\ IF open THEN treePrior # "tree" ELSE treePrior = "default"
        /\ IF retryInstalled
           THEN "stale" \notin {slot, treePrior, retryPrior} /\ retryPrior # "retry"
           ELSE retryPrior = "default" /\ slot # "retry" /\ treePrior # "retry"
    BY DEF NavInv, SlotInv
  <2>2. CASE ~Composes(slot)
    <3>0. Built(slot, treePrior, retryPrior).layers = <<>>
      BY <2>2, BuiltIs
    <3>1. live = <<>> /\ ~open
      BY <2>1, <2>2, <3>0 DEF Composes
    <3>2. Range(live) = {}
      BY <3>1 DEF Range
    <3> QED BY <3>1, <3>2 DEF TreeLive
  <2>3. CASE Composes(slot) /\ ~Composes(Under(slot, treePrior, retryPrior))
    <3>1. live = <<Layer(slot)>>
      BY <2>1, <2>3, BuiltIs
    <3>2. Range(live) = {Layer(slot)}
      BY <3>1 DEF Range
    <3>3. "tree" = Layer(slot) <=> slot = "tree"
      BY DEF Layer
    <3>4. ~(slot = "retry" /\ retryPrior = "tree")
      BY <2>3 DEF Under, Composes
    <3> QED BY <2>1, <3>2, <3>3, <3>4 DEF TreeLive
  <2>4. CASE Composes(slot) /\ Composes(Under(slot, treePrior, retryPrior))
    <3>1. live = <<Layer(slot), Layer(Under(slot, treePrior, retryPrior))>>
      BY <2>1, <2>4, BuiltIs
    <3>2. Range(live) = {Layer(slot), Layer(Under(slot, treePrior, retryPrior))}
      BY <3>1 DEF Range
    <3>3. TreeLive <=> slot = "tree" \/ Under(slot, treePrior, retryPrior) = "tree"
      BY <3>2 DEF TreeLive, Layer
    <3>4. slot \in {"tree", "retry", "stale"}
      BY <2>4 DEF Composes
    <3> QED BY <2>1, <2>4, <3>3, <3>4, BuiltIs DEF Under, Composes
  <2> QED BY <2>2, <2>3, <2>4
<1> QED BY <1>1, InitNav, NextNav, PTL DEF Spec

\* ReadingKept says this of every step.
KeepsReading ==
    (cursor[1] = selected /\ selected # NoRow /\ drawn' # drawn /\ drawn' # None)
        => cursor' = cursor

(* ensureView and resolveAttempt: drawing the progress surface shows the   *)
(* attempt the reader chose, also when a retry has added another since.    *)
THEOREM ReadingIsKept == Spec => ReadingKept
<1>1. ASSUME NavInv, Next, cursor[1] = selected, selected # NoRow,
             drawn' # drawn, drawn' # None
      PROVE  cursor' = cursor
  <2>0. TreeTypeOK /\ SnapshotInv
    BY <1>1, TypeParts DEF NavInv
  <2>1. CASE Draw /\ selected \in Listed(rows) /\ EnsureView
    <3>1. Shown(rows[selected], selected) = cursor[2]
      BY <1>1, <2>0, <2>1, ShownIs
    <3>2. cursor' = <<cursor[1], cursor[2]>>
      BY <1>1, <2>1, <3>1 DEF EnsureView
    <3> QED BY <2>0, <3>2 DEF SnapshotInv, CursorKept
  <2>2. CASE UNCHANGED cursor
    BY <2>2
  <2>3. drawn' = drawn \/ drawn' = None \/ Draw
    <3>1. ASSUME NEW j \in Jobs, JobChanges(j) PROVE drawn' = drawn
      BY <2>0, <3>1, ManifestGrows
    <3>2. Toggle \/ Tick => drawn' = None
      BY DEF Toggle, Tick, OpenWidget, CloseWidget, Refresh
    <3>3. (\E s \in {"backoff", "exhausted"} : RetryShows(s)) \/ RetryEnds \/ RetryFires
              => drawn' = drawn
      BY DEF RetryShows, RetryEnds, RetryFires, treeVars, drawVars
    <3>4. Escape \/ (\E e \in BOOLEAN : Enter(e)) => drawn' = drawn
      BY DEF Escape, Enter, ToRetry, KeyEscape, KeyEnter, KeyStep, treeVars, drawVars
    <3>5. TreeKey => drawn' = drawn \/ drawn' = None
      BY DEF TreeKey, KeyDownFromEditor, KeyUp, KeyDown, KeyBracket, KeyStep, drawVars
    <3> QED BY <1>1, <3>1, <3>2, <3>3, <3>4, <3>5 DEF Next
  <2>4. Draw => \/ selected \in Listed(rows) /\ EnsureView
                \/ UNCHANGED cursor
    BY DEF Draw, Render, viewVars
  <2> QED BY <1>1, <2>1, <2>2, <2>3, <2>4
<1>2. NavInv /\ [Next]_vars => [KeepsReading]_vars
  BY <1>1 DEF KeepsReading
<1> QED BY <1>2, InitNav, NextNav, PTL DEF Spec, ReadingKept, KeepsReading

-----------------------------------------------------------------------------
(* computeProgressLayout's stated invariant.  It says "for EVERY termRows"; *)
(* from the display floor up (avail >= 2) tree, separator and progress fit  *)
(* what is available, and neither list nor view is without a row.           *)
THEOREM LayoutFits ==
    ASSUME NEW termRows \in Nat, termRows >= DisplayFloor, NEW content \in Nat
    PROVE  LET l == Layout(termRows, content)
           IN  l.tree >= 1 /\ l.progress >= 1 /\ l.tree + l.sep + l.progress <= l.avail
<1> DEFINE avail == Larger(1, termRows - ProgressChrome)
           sep   == IF avail < 7 /\ avail < 3 THEN 0 ELSE 1
           floor == IF avail < 7 THEN 1 ELSE 3
           tree  == Larger(floor, Smaller(11, Smaller(content, avail - sep - floor)))
           prog  == Larger(floor, avail - sep - tree)
           l     == Layout(termRows, content)
<1>1. l = [avail |-> avail, sep |-> sep, tree |-> tree, progress |-> prog]
  BY DEF Layout
<1>2. l.avail = avail /\ l.sep = sep /\ l.tree = tree /\ l.progress = prog
  BY <1>1
<1>3. avail \in Nat /\ avail >= 2
  BY DEF Larger, ProgressChrome, DisplayFloor
<1>4. tree >= 1 /\ prog >= 1 /\ tree + sep + prog <= avail
  <2> HIDE DEF avail
  <2> QED BY <1>3 DEF Larger, Smaller
<1> HIDE DEF l, avail, sep, floor, tree, prog
<1>5. l.tree >= 1 /\ l.progress >= 1 /\ l.tree + l.sep + l.progress <= l.avail
  BY <1>2, <1>4
<1> QED BY <1>5 DEF l
-----------------------------------------------------------------------------
(* The transcript view. *)

\* The file keeps its bound, and every result in it has a call before it.
FileInv ==
    /\ Len(file) + (IF half = NoLine THEN 0 ELSE 1) <= MaxLines
    /\ \A i \in Kind(file, "result") :
          \E c \in Kind(file, "call") : c < i /\ file[c].id = file[i].id
    /\ half.kind = "result" => \E c \in Kind(file, "call") : file[c].id = half.id

\* What the tail holds is torn exactly when a poll ended inside a character of
\* the line it belongs to, and only a half line is held at the end of the file.
SplitInv ==
    /\ split \subseteq 1 .. offset + 1
    /\ partial = "torn" <=> offset + 1 \in split
    /\ partial # "none" /\ offset = Len(file) => half # NoLine
    /\ cut => half # NoLine /\ Len(file) + 1 \in Wide

\* The unit the screen marked is the one the keys act on.
Marked ==
    screen # NoLine /\ screen.unit # 0 =>
        /\ focused \in DOMAIN Visible(blocks, showThinking)
        /\ Visible(blocks, showThinking)[focused] = screen.unit

ViewInv == BlocksAreTheFile /\ FileInv /\ SplitInv /\ Marked

LEMMA AscendingIs ==
    ASSUME NEW S, IsFiniteSet(S), S \subseteq Nat
    PROVE  /\ StrictOrder(S, LessThan(S))
           /\ Cardinality(S) \in Nat
           /\ Ascending(S) \in Seq(S) /\ Len(Ascending(S)) = Cardinality(S)
           /\ DOMAIN Ascending(S) = 1 .. Cardinality(S)
           /\ \A i \in 1 .. Cardinality(S) : Ascending(S)[i] \in S
<1>1. \A x, y \in S : <<x, y>> \in LessThan(S) <=> x < y
  BY DEF LessThan
<1>2. StrictOrder(S, LessThan(S))
  BY <1>1 DEF StrictOrder
<1> QED BY <1>2, OrderedIs DEF Ascending

LEMMA AscendingPrefix ==
    ASSUME NEW S, IsFiniteSet(S), S \subseteq Nat, NEW T, IsFiniteSet(T), T \subseteq Nat,
           S \subseteq T, \A x \in S : \A y \in T \ S : x < y
    PROVE  /\ Cardinality(S) <= Cardinality(T)
           /\ \A i \in 1 .. Cardinality(S) : Ascending(T)[i] = Ascending(S)[i]
<1>1. /\ \A x, y \in S : <<x, y>> \in LessThan(S) <=> x < y
      /\ \A x, y \in T : <<x, y>> \in LessThan(T) <=> x < y
  BY DEF LessThan
<1>2. StrictOrder(S, LessThan(S)) /\ StrictOrder(T, LessThan(T))
  BY AscendingIs
<1>3. /\ \A x, y \in S : <<x, y>> \in LessThan(S) <=> <<x, y>> \in LessThan(T)
      /\ \A x \in S : \A y \in T \ S : <<x, y>> \in LessThan(T)
  BY <1>1
<1>4. Appends(S, LessThan(S), T, LessThan(T))
  BY <1>3 DEF Appends
<1> QED BY <1>2, <1>4, OrderedPrefix DEF Ascending

LEMMA UnitsFacts ==
    ASSUME NEW bs \in Seq(Lines)
    PROVE  /\ Folded(bs) \subseteq DOMAIN bs
           /\ DOMAIN bs = 1 .. Len(bs) /\ IsFiniteSet(DOMAIN bs \ Folded(bs))
           /\ DOMAIN bs \ Folded(bs) \subseteq Nat
           /\ Cardinality(DOMAIN bs \ Folded(bs)) \in 0 .. Len(bs)
           /\ DOMAIN Units(bs) = 1 .. Cardinality(DOMAIN bs \ Folded(bs))
           /\ \A i \in DOMAIN Units(bs) : Units(bs)[i] \in DOMAIN bs \ Folded(bs)
<1>1. Folded(bs) \subseteq DOMAIN bs
  BY DEF Folded, FirstResult, Kind
<1>2. DOMAIN bs = 1 .. Len(bs) /\ Len(bs) \in Nat
  OBVIOUS
<1>3. IsFiniteSet(DOMAIN bs) /\ Cardinality(DOMAIN bs) = Len(bs)
  BY <1>2, FS_Interval
<1>4. /\ IsFiniteSet(DOMAIN bs \ Folded(bs))
      /\ Cardinality(DOMAIN bs \ Folded(bs)) <= Len(bs)
  BY <1>3, FS_Subset
<1>5. DOMAIN bs \ Folded(bs) \subseteq Nat
  BY <1>2
<1> DEFINE S == DOMAIN bs \ Folded(bs)
<1>6. /\ Cardinality(S) \in Nat /\ DOMAIN Ascending(S) = 1 .. Cardinality(S)
      /\ \A i \in 1 .. Cardinality(S) : Ascending(S)[i] \in S
  BY <1>4, <1>5, AscendingIs
<1>7. Units(bs) = Ascending(S)
  BY DEF Units
<1> HIDE DEF S
<1>8. Cardinality(S) \in 0 .. Len(bs)
  BY <1>2, <1>4, <1>6 DEF S
<1> QED BY <1>1, <1>2, <1>4, <1>5, <1>6, <1>7, <1>8 DEF S

\* The units the filter lets through.
Through(bs, thinking) ==
    {i \in DOMAIN Units(bs) : bs[Units(bs)[i]].kind # "thinking" \/ thinking}

LEMMA VisibleFacts ==
    ASSUME NEW bs \in Seq(Lines), NEW thinking \in BOOLEAN
    PROVE  /\ Visible(bs, thinking) = Ascending(Through(bs, thinking))
           /\ IsFiniteSet(Through(bs, thinking)) /\ Through(bs, thinking) \subseteq Nat
           /\ Cardinality(Through(bs, thinking)) \in 0 .. Len(bs)
           /\ Len(Visible(bs, thinking)) = Cardinality(Through(bs, thinking))
           /\ DOMAIN Visible(bs, thinking) = 1 .. Cardinality(Through(bs, thinking))
           /\ Visible(bs, thinking) \in Seq(Nat)
           /\ \A k \in DOMAIN Visible(bs, thinking) : Visible(bs, thinking)[k] \in DOMAIN bs
<1> DEFINE S == Through(bs, thinking)
<1>1. Visible(bs, thinking) = Ascending(S)
  BY DEF Visible, Through
<1>2. Cardinality(DOMAIN Units(bs)) <= Len(bs) /\ IsFiniteSet(DOMAIN Units(bs))
      /\ DOMAIN Units(bs) \subseteq DOMAIN bs /\ Len(bs) \in Nat /\ DOMAIN bs \subseteq Nat
  <2>1. PICK n \in 0 .. Len(bs) : DOMAIN Units(bs) = 1 .. n
    BY UnitsFacts
  <2>2. Len(bs) \in Nat /\ DOMAIN bs = 1 .. Len(bs)
    OBVIOUS
  <2>3. IsFiniteSet(1 .. n) /\ Cardinality(1 .. n) = n
    BY <2>1, <2>2, FS_Interval
  <2> QED BY <2>1, <2>2, <2>3
<1>3. S \subseteq DOMAIN Units(bs)
  BY DEF Through
<1>4. IsFiniteSet(S) /\ Cardinality(S) <= Cardinality(DOMAIN Units(bs))
  BY <1>2, <1>3, FS_Subset
<1>5. Cardinality(DOMAIN Units(bs)) \in Nat /\ Cardinality(S) \in Nat
  BY <1>2, <1>4, FS_CardinalityType
<1>6. S \subseteq Nat
  BY <1>2, <1>3
<1>7. /\ Ascending(S) \in Seq(S) /\ Len(Ascending(S)) = Cardinality(S)
      /\ DOMAIN Ascending(S) = 1 .. Cardinality(S)
      /\ \A i \in 1 .. Cardinality(S) : Ascending(S)[i] \in S
  BY <1>4, <1>6, AscendingIs
<1>8. Ascending(S) \in Seq(Nat)
  <2>1. \A i \in 1 .. Len(Ascending(S)) : Ascending(S)[i] \in Nat
    BY <1>6, <1>7
  <2> QED BY <2>1, <1>7
<1> HIDE DEF S
<1>9. Cardinality(S) \in 0 .. Len(bs)
  BY <1>2, <1>4, <1>5
<1>10. \A i \in 1 .. Cardinality(S) : Ascending(S)[i] \in DOMAIN bs
  BY <1>2, <1>3, <1>7
<1> QED BY <1>1, <1>4, <1>6, <1>7, <1>8, <1>9, <1>10 DEF S

\* Every result has a call before it.
CallsFirst(bs) ==
    \A i \in Kind(bs, "result") : \E c \in Kind(bs, "call") : c < i /\ bs[c].id = bs[i].id

\* Lines that arrive leave every unit where it was: what they fold in is new.
LEMMA UnitsStay ==
    ASSUME NEW bs \in Seq(Lines), NEW cs \in Seq(Lines), Len(bs) <= Len(cs),
           \A i \in 1 .. Len(bs) : cs[i] = bs[i], CallsFirst(cs)
    PROVE  /\ DOMAIN Units(bs) \subseteq DOMAIN Units(cs)
           /\ \A i \in DOMAIN Units(bs) : Units(cs)[i] = Units(bs)[i]
<1>1. /\ DOMAIN bs = 1 .. Len(bs) /\ DOMAIN cs = 1 .. Len(cs) /\ DOMAIN bs \subseteq DOMAIN cs
      /\ Len(bs) \in Nat /\ Len(cs) \in Nat
      /\ \A i \in DOMAIN bs : cs[i] = bs[i]
  OBVIOUS
<1>2. ASSUME NEW i \in DOMAIN bs, NEW id
      PROVE  i \in FirstResult(bs, id) <=> i \in FirstResult(cs, id)
  <2>1. \A h \in DOMAIN cs \ DOMAIN bs : i <= h
    BY <1>1
  <2>2. /\ \A h \in DOMAIN bs : h \in Kind(bs, "result") <=> h \in Kind(cs, "result")
        /\ Kind(cs, "result") \subseteq DOMAIN cs /\ Kind(bs, "result") \subseteq DOMAIN bs
    BY <1>1 DEF Kind
  <2> QED BY <1>1, <2>1, <2>2 DEF FirstResult
<1>3. ASSUME NEW i \in DOMAIN bs, i \in Folded(bs) PROVE i \in Folded(cs)
  <2>1. PICK c \in Kind(bs, "call") : i \in FirstResult(bs, bs[c].id)
    BY <1>3 DEF Folded
  <2>2. c \in Kind(cs, "call") /\ cs[c].id = bs[c].id
    BY <1>1, <2>1 DEF Kind
  <2> QED BY <1>2, <2>1, <2>2 DEF Folded
<1>4. ASSUME NEW i \in DOMAIN bs, i \in Folded(cs) PROVE i \in Folded(bs)
  <2>1. PICK d \in Kind(cs, "call") : i \in FirstResult(cs, cs[d].id)
    BY <1>4 DEF Folded
  <2>2. i \in Kind(cs, "result") /\ cs[i].id = cs[d].id
    BY <2>1 DEF FirstResult
  <2>3. PICK c \in Kind(cs, "call") : c < i /\ cs[c].id = cs[i].id
    BY <2>2 DEF CallsFirst
  <2>4. c \in DOMAIN bs
    BY <1>1, <2>3 DEF Kind
  <2>5. c \in Kind(bs, "call") /\ bs[c].id = cs[d].id
    BY <1>1, <2>2, <2>3, <2>4 DEF Kind
  <2> QED BY <1>2, <2>1, <2>5 DEF Folded
<1> DEFINE S == DOMAIN bs \ Folded(bs)
           T == DOMAIN cs \ Folded(cs)
<1>5. /\ IsFiniteSet(S) /\ IsFiniteSet(T) /\ S \subseteq Nat /\ T \subseteq Nat
      /\ DOMAIN Units(bs) = 1 .. Cardinality(S) /\ DOMAIN Units(cs) = 1 .. Cardinality(T)
      /\ Cardinality(S) \in Nat /\ Cardinality(T) \in Nat
  BY UnitsFacts
<1>6. S \subseteq T /\ \A y \in T \ S : y \in DOMAIN cs \ DOMAIN bs
  BY <1>1, <1>3, <1>4
<1>7. \A x \in S : \A y \in T \ S : x < y
  BY <1>1, <1>6
<1> HIDE DEF S, T
<1>8. /\ Cardinality(S) <= Cardinality(T)
      /\ \A i \in 1 .. Cardinality(S) : Ascending(T)[i] = Ascending(S)[i]
  BY <1>5, <1>6, <1>7, AscendingPrefix
<1>9. Units(bs) = Ascending(S) /\ Units(cs) = Ascending(T)
  BY DEF Units, S, T
<1> QED BY <1>5, <1>8, <1>9

\* ... and every visible unit where it was among the visible ones.
LEMMA VisibleStays ==
    ASSUME NEW bs \in Seq(Lines), NEW cs \in Seq(Lines), Len(bs) <= Len(cs),
           \A i \in 1 .. Len(bs) : cs[i] = bs[i], CallsFirst(cs), NEW thinking \in BOOLEAN
    PROVE  \A k \in DOMAIN Visible(bs, thinking) :
              /\ k \in DOMAIN Visible(cs, thinking)
              /\ Visible(cs, thinking)[k] = Visible(bs, thinking)[k]
<1> DEFINE S == Through(bs, thinking)
           T == Through(cs, thinking)
<1>1. /\ DOMAIN Units(bs) \subseteq DOMAIN Units(cs)
      /\ \A i \in DOMAIN Units(bs) : Units(cs)[i] = Units(bs)[i]
  BY UnitsStay
<1>2. \A i \in DOMAIN Units(bs) : cs[Units(bs)[i]] = bs[Units(bs)[i]]
  BY UnitsFacts
<1>3. \A i \in DOMAIN Units(bs) : i \in S <=> i \in T
  BY <1>1, <1>2 DEF Through
<1>4. /\ IsFiniteSet(S) /\ IsFiniteSet(T) /\ S \subseteq Nat /\ T \subseteq Nat
      /\ Cardinality(S) \in Nat /\ Cardinality(T) \in Nat
      /\ Visible(bs, thinking) = Ascending(S) /\ DOMAIN Visible(bs, thinking) = 1 .. Cardinality(S)
      /\ Visible(cs, thinking) = Ascending(T) /\ DOMAIN Visible(cs, thinking) = 1 .. Cardinality(T)
  BY VisibleFacts
<1>5. S \subseteq DOMAIN Units(bs) /\ T \subseteq DOMAIN Units(cs)
  BY DEF Through
<1> HIDE DEF S, T
<1>6. S \subseteq T /\ \A x \in S : \A y \in T \ S : x < y
  <2>1. PICK n \in 0 .. Len(bs), m \in 0 .. Len(cs) :
          DOMAIN Units(bs) = 1 .. n /\ DOMAIN Units(cs) = 1 .. m
    BY UnitsFacts
  <2>2. S \subseteq T
    BY <1>1, <1>3, <1>5
  <2>3. ASSUME NEW x \in S, NEW y \in T \ S PROVE x < y
    <3>1. x \in 1 .. n /\ y \in 1 .. m /\ y \notin 1 .. n
      BY <1>3, <1>5, <2>1
    <3> QED BY <2>1, <3>1
  <2> QED BY <2>2, <2>3
<1>7. /\ Cardinality(S) <= Cardinality(T)
      /\ \A i \in 1 .. Cardinality(S) : Ascending(T)[i] = Ascending(S)[i]
  BY <1>4, <1>6, AscendingPrefix
<1> QED BY <1>4, <1>7

LEMMA LineFacts ==
    /\ NoLine \notin Lines /\ NoLine.kind # "result"
    /\ \A l \in Lines : l.kind \in {"assistant", "thinking", "call", "result"}
BY DEF Lines, NoLine

LEMMA InitView == ViewInit => ViewInv
<1> SUFFICES ASSUME ViewInit PROVE ViewInv
  OBVIOUS
<1>1. <<>> \in Seq(Lines) /\ Len(<<>>) = 0
  OBVIOUS
<1>2. ViewTypeOK
  <2>1. {cut, found, showThinking, follow} \subseteq BOOLEAN
    BY DEF ViewInit
  <2>2. /\ file \in Seq(Lines) /\ half \in Lines \cup {NoLine} /\ offset \in 0 .. Len(file)
        /\ expanded \subseteq DOMAIN blocks /\ focused \in 1 .. MaxLines + 1
        /\ partial \in {"none", "whole", "torn"} /\ damaged \subseteq DOMAIN blocks
        /\ split \subseteq Wide
    BY <1>1, BoundAssumption DEF ViewInit
  <2> QED BY <2>1, <2>2 DEF ViewTypeOK
<1>3. blocks = SubSeq(file, 1, offset) /\ damaged = split \cap (1 .. offset) /\ SplitInv
  BY DEF ViewInit, SplitInv
<1>4. FileInv
  BY <1>1, LineFacts, BoundAssumption DEF ViewInit, FileInv, Kind
<1>5. Marked
  BY DEF ViewInit, Marked
<1> QED BY <1>2, <1>3, <1>4, <1>5 DEF ViewInv, BlocksAreTheFile

\* The blocks are a prefix of a file in which every result has its call.
LEMMA BlocksFacts ==
    ASSUME ViewInv
    PROVE  /\ file \in Seq(Lines) /\ offset \in 0 .. Len(file) /\ Len(file) \in 0 .. MaxLines
           /\ blocks \in Seq(Lines) /\ Len(blocks) = offset
           /\ \A i \in 1 .. offset : blocks[i] = file[i]
           /\ CallsFirst(file)
<1>1. /\ file \in Seq(Lines) /\ offset \in 0 .. Len(file) /\ blocks = SubSeq(file, 1, offset)
      /\ MaxLines \in Nat /\ Len(file) \in Nat
  BY BoundAssumption DEF ViewInv, BlocksAreTheFile, ViewTypeOK
<1>2. blocks \in Seq(Lines) /\ Len(blocks) = offset /\ \A i \in 1 .. offset : blocks[i] = file[i]
  BY <1>1
<1>3. Len(file) <= MaxLines
  BY <1>1 DEF ViewInv, FileInv
<1> QED BY <1>1, <1>2, <1>3 DEF ViewInv, FileInv, CallsFirst

\* The child's writer.
LEMMA FileSteps ==
    ASSUME ViewInv, (\E l \in Lines : BeginLine(l)) \/ GrowLine \/ CompleteLine
    PROVE  ViewInv'
<1>0. /\ UNCHANGED <<found, offset, partial, blocks, damaged, split, expanded, showThinking, focused,
                    follow, screen>>
      /\ file \in Seq(Lines) /\ half \in Lines \cup {NoLine} /\ MaxLines \in Nat
      /\ offset \in 0 .. Len(file) /\ Len(file) \in Nat
      /\ blocks = SubSeq(file, 1, offset)
  BY BoundAssumption
     DEF BeginLine, GrowLine, CompleteLine, tailVars, readerVars, ViewInv, BlocksAreTheFile, ViewTypeOK
<1>1. ASSUME NEW l \in Lines, BeginLine(l)
      PROVE  ViewTypeOK' /\ FileInv' /\ SplitInv' /\ blocks' = SubSeq(file', 1, offset')
  <2>1. half = NoLine /\ Len(file) < MaxLines /\ file' = file /\ half' = l /\ cut' = cut
        /\ (l.kind = "result" => \E i \in Kind(file, "call") : file[i].id = l.id)
    BY <1>1 DEF BeginLine
  <2>2. FileInv'
    BY <1>0, <2>1, LineFacts DEF FileInv, ViewInv
  <2>3. ViewTypeOK'
    BY <1>0, <2>1 DEF ViewInv, BlocksAreTheFile, ViewTypeOK
  <2>4. SplitInv'
    BY <1>0, <2>1, LineFacts DEF ViewInv, SplitInv
  <2> QED BY <1>0, <2>1, <2>2, <2>3, <2>4
<1>1a. ASSUME GrowLine
       PROVE  ViewTypeOK' /\ FileInv' /\ SplitInv' /\ blocks' = SubSeq(file', 1, offset')
  <2>1. half # NoLine /\ Len(file) + 1 \in Wide /\ cut' \in BOOLEAN /\ file' = file /\ half' = half
    BY <1>1a DEF GrowLine
  <2>2. FileInv'
    BY <1>0, <2>1 DEF FileInv, ViewInv, Kind
  <2>3. ViewTypeOK'
    BY <1>0, <2>1 DEF ViewInv, BlocksAreTheFile, ViewTypeOK
  <2>4. SplitInv'
    BY <1>0, <2>1 DEF ViewInv, SplitInv
  <2> QED BY <1>0, <2>1, <2>2, <2>3, <2>4
<1>2. ASSUME CompleteLine
      PROVE  ViewTypeOK' /\ FileInv' /\ SplitInv' /\ blocks' = SubSeq(file', 1, offset')
  <2>1. half \in Lines /\ file' = Append(file, half) /\ half' = NoLine /\ cut' = FALSE
    BY <1>0, <1>2 DEF CompleteLine
  <2>2. /\ file' \in Seq(Lines) /\ Len(file') = Len(file) + 1
        /\ \A i \in 1 .. Len(file) : file'[i] = file[i]
        /\ file'[Len(file) + 1] = half
    BY <1>0, <2>1
  <2>3. SubSeq(file', 1, offset) = SubSeq(file, 1, offset)
    BY <1>0, <2>2
  <2>4. Len(file') <= MaxLines
    BY <1>0, <2>1, <2>2, LineFacts DEF ViewInv, FileInv
  <2>5. CallsFirst(file')
    <3> SUFFICES ASSUME NEW i \in Kind(file', "result")
                 PROVE  \E c \in Kind(file', "call") : c < i /\ file'[c].id = file'[i].id
      BY DEF CallsFirst
    <3>1. i \in 1 .. Len(file) + 1 /\ file'[i].kind = "result"
      BY <1>0, <2>2 DEF Kind
    <3>2. \A c \in Kind(file, "call") : c \in Kind(file', "call") /\ c \in 1 .. Len(file)
                                        /\ file'[c] = file[c]
      BY <1>0, <2>2 DEF Kind
    <3>3. CASE i \in 1 .. Len(file)
      <4>1. i \in Kind(file, "result") /\ file'[i] = file[i]
        BY <1>0, <2>2, <3>1, <3>3 DEF Kind
      <4>2. PICK c \in Kind(file, "call") : c < i /\ file[c].id = file[i].id
        BY <4>1, BlocksFacts DEF CallsFirst
      <4> QED BY <3>2, <4>1, <4>2
    <3>4. CASE i = Len(file) + 1
      <4>1. file'[i] = half /\ half.kind = "result"
        BY <2>2, <3>1, <3>4
      <4>2. PICK c \in Kind(file, "call") : file[c].id = half.id
        BY <4>1 DEF ViewInv, FileInv
      <4>3. c \in Kind(file', "call") /\ c < i /\ file'[c] = file[c]
        BY <1>0, <3>2, <3>4, <4>2
      <4> QED BY <4>1, <4>2, <4>3
    <3>5. i \in 1 .. Len(file) \/ i = Len(file) + 1
      BY <1>0, <3>1
    <3> QED BY <3>3, <3>4, <3>5
  <2>6. FileInv'
    <3>1. Len(file') + (IF half' = NoLine THEN 0 ELSE 1) <= MaxLines
      BY <1>0, <2>1, <2>2, <2>4
    <3>2. half'.kind # "result"
      BY <2>1, LineFacts
    <3> QED BY <2>5, <3>1, <3>2 DEF FileInv, CallsFirst
  <2>7. ViewTypeOK'
    <3>0. offset' \in 0 .. Len(file')
      BY <1>0, <2>2
    <3>1. {cut', found', showThinking', follow'} \subseteq BOOLEAN
      BY <1>0, <2>1 DEF ViewInv, BlocksAreTheFile, ViewTypeOK
    <3>2. /\ partial' \in {"none", "whole", "torn"} /\ split' \subseteq Wide
          /\ damaged' \subseteq DOMAIN blocks' /\ expanded' \subseteq DOMAIN blocks'
          /\ focused' \in 1 .. MaxLines + 1
      BY <1>0 DEF ViewInv, BlocksAreTheFile, ViewTypeOK
    <3> QED BY <2>1, <2>2, <3>0, <3>1, <3>2 DEF ViewTypeOK
  <2>8. blocks' = blocks /\ offset' = offset
    BY <1>0
  <2>9. blocks' = SubSeq(file', 1, offset')
    BY <1>0, <2>3, <2>8
  <2>10. SplitInv'
    <3>1. offset' # Len(file')
      BY <1>0, <2>2
    <3> QED BY <1>0, <2>1, <3>1 DEF ViewInv, SplitInv
  <2> QED BY <2>6, <2>7, <2>9, <2>10
<1>3. Marked'
  BY <1>0 DEF ViewInv, Marked
<1>4. (damaged = split \cap (1 .. offset))'
  BY <1>0 DEF ViewInv, BlocksAreTheFile
<1> QED BY <1>1, <1>1a, <1>2, <1>3, <1>4 DEF ViewInv, BlocksAreTheFile

\* A poll reads up to the end of the file and moves nothing that was visible.
LEMMA PollStep ==
    ASSUME ViewInv, Poll
    PROVE  ViewInv'
<1>0. /\ UNCHANGED <<file, half, cut, found, expanded, showThinking, focused, follow, screen>>
      /\ offset' = Len(file) /\ partial' = Held /\ blocks' = blocks \o Fresh
      /\ damaged' = damaged \cup Damages
      /\ split' = split \cup (IF cut THEN {Len(file) + 1} ELSE {})
  BY DEF Poll, fileVars, readerVars
<1>1. /\ file \in Seq(Lines) /\ offset \in 0 .. Len(file) /\ Len(file) \in Nat
      /\ blocks \in Seq(Lines) /\ Len(blocks) = offset
      /\ \A i \in 1 .. offset : blocks[i] = file[i]
      /\ CallsFirst(file) /\ blocks = SubSeq(file, 1, offset)
  BY BlocksFacts DEF ViewInv, BlocksAreTheFile
<1>2. blocks' = file
  <2>1. Fresh = SubSeq(file, offset + 1, Len(file))
    BY DEF Fresh, Parsed
  <2>2. SubSeq(file, 1, offset) \o SubSeq(file, offset + 1, Len(file)) = file
    <3> DEFINE a == SubSeq(file, 1, offset)
               b == SubSeq(file, offset + 1, Len(file))
    <3>1. /\ a \in Seq(Lines) /\ Len(a) = offset /\ \A i \in 1 .. offset : a[i] = file[i]
      BY <1>1
    <3>2. /\ b \in Seq(Lines) /\ Len(b) = Len(file) - offset
          /\ \A i \in 1 .. Len(file) - offset : b[i] = file[i + offset]
      BY <1>1
    <3> HIDE DEF a, b
    <3>3. /\ a \o b \in Seq(Lines) /\ Len(a \o b) = offset + (Len(file) - offset)
          /\ offset + (Len(file) - offset) = Len(file) /\ offset \in Nat
      <4>1. a \o b \in Seq(Lines) /\ Len(a \o b) = Len(a) + Len(b)
        BY <3>1, <3>2, ConcatProperties
      <4> QED BY <1>1, <3>1, <3>2, <4>1
    <3>4. ASSUME NEW i \in 1 .. Len(file) PROVE (a \o b)[i] = file[i]
      <4>1. CASE i <= offset
        <5>1. (a \o b)[i] = a[i]
          BY <1>1, <3>1, <3>2, <4>1
        <5> QED BY <1>1, <3>1, <4>1, <5>1
      <4>2. CASE i > offset
        <5>1. (a \o b)[i] = b[i - offset] /\ i - offset \in 1 .. Len(file) - offset
          BY <1>1, <3>1, <3>2, <4>2
        <5>2. b[i - offset] = file[(i - offset) + offset]
          BY <3>2, <5>1
        <5> QED BY <1>1, <5>1, <5>2
      <4>3. i <= offset \/ i > offset
        BY <1>1
      <4> QED BY <4>1, <4>2, <4>3
    <3> QED BY <1>1, <3>3, <3>4, SeqEqual DEF a, b
  <2> QED BY <1>0, <1>1, <2>1, <2>2
<1>3. blocks' = SubSeq(file', 1, offset')
  <2>1. SubSeq(file, 1, Len(file)) = file
    BY <1>1
  <2> QED BY <1>0, <1>2, <2>1
<1>3a. /\ damaged = split \cap (1 .. offset) /\ split \subseteq 1 .. offset + 1
       /\ partial = "torn" <=> offset + 1 \in split
       /\ partial # "none" /\ offset = Len(file) => half # NoLine
       /\ cut => half # NoLine /\ Len(file) + 1 \in Wide
  BY DEF ViewInv, BlocksAreTheFile, SplitInv
<1>3b. \A k \in split : k \in Nat /\ 1 <= k /\ k <= offset + 1
  BY <1>1, <1>3a
<1>3c. offset \in Nat /\ Len(file) \in Nat /\ offset <= Len(file)
  BY <1>1
<1>4a. damaged' = split' \cap (1 .. Len(file))
  <2>1. split' \cap (1 .. Len(file)) = split \cap (1 .. Len(file))
    BY <1>0, <1>1
  <2>2. CASE offset = Len(file)
    <3>1. damaged' = damaged
      BY <1>0, <1>1, <2>2 DEF Damages
    <3> QED BY <1>3a, <2>1, <2>2, <3>1
  <2>3. CASE offset < Len(file)
    <3>1. damaged' = damaged \cup (IF partial = "torn" THEN {offset + 1} ELSE {})
      BY <1>0, <1>1, <2>3 DEF Damages
    <3>2. \A k \in split : k \in 1 .. Len(file)
      BY <1>3b, <1>3c, <2>3
    <3>3. \A k \in split : k \in 1 .. offset \/ k = offset + 1
      BY <1>3b, <1>3c
    <3>4. split = (split \cap (1 .. offset)) \cup (IF offset + 1 \in split THEN {offset + 1} ELSE {})
      BY <3>3
    <3> QED BY <1>3a, <2>1, <3>1, <3>2, <3>4
  <2> QED BY <1>1, <2>2, <2>3
<1>4b. SplitInv'
  <2>1. split' \subseteq 1 .. Len(file) + 1
    <3>1. \A k \in split : k \in 1 .. Len(file) + 1
      BY <1>3b, <1>3c
    <3>2. Len(file) + 1 \in 1 .. Len(file) + 1
      BY <1>3c
    <3> QED BY <1>0, <3>1, <3>2
  <2>2. partial' = "torn" <=> Len(file) + 1 \in split'
    <3>1. CASE cut
      BY <1>0, <1>3a, <3>1 DEF Held
    <3>2. CASE ~cut
      <4>1. split' = split
        BY <1>0, <3>2
      <4>2. partial' = "torn" <=> half # NoLine /\ partial = "torn" /\ offset = Len(file)
        BY <1>0, <3>2 DEF Held
      <4>3. Len(file) + 1 \in split <=> partial = "torn" /\ offset = Len(file)
        BY <1>1, <1>3a
      <4> QED BY <1>3a, <4>1, <4>2, <4>3
    <3> QED BY <3>1, <3>2
  <2>3. partial' # "none" => half # NoLine
    BY <1>0 DEF Held
  <2> QED BY <1>0, <1>3a, <2>1, <2>2, <2>3 DEF SplitInv
<1>4. ViewTypeOK'
  <2>1. DOMAIN blocks \subseteq DOMAIN blocks'
    BY <1>1, <1>2
  <2>2. partial' \in {"none", "whole", "torn"} /\ split' \subseteq Wide
    BY <1>0 DEF Held, ViewInv, SplitInv, BlocksAreTheFile, ViewTypeOK
  <2>3. expanded' \subseteq DOMAIN blocks'
    BY <1>0, <2>1 DEF ViewInv, BlocksAreTheFile, ViewTypeOK
  <2>4. offset' \in 0 .. Len(file')
    BY <1>0, <1>1
  <2>5. damaged' \subseteq DOMAIN blocks'
    <3>1. DOMAIN blocks' = 1 .. Len(file)
      BY <1>1, <1>2
    <3> QED BY <1>1, <1>4a, <3>1
  <2> QED BY <1>0, <2>2, <2>3, <2>4, <2>5 DEF ViewInv, BlocksAreTheFile, ViewTypeOK
<1>5. FileInv'
  BY <1>0 DEF ViewInv, FileInv, Kind
<1>6. Marked'
  <2>1. showThinking \in BOOLEAN
    BY DEF ViewInv, BlocksAreTheFile, ViewTypeOK
  <2>2. \A k \in DOMAIN Visible(blocks, showThinking) :
            /\ k \in DOMAIN Visible(file, showThinking)
            /\ Visible(file, showThinking)[k] = Visible(blocks, showThinking)[k]
    <3>1. Len(blocks) <= Len(file) /\ \A i \in 1 .. Len(blocks) : file[i] = blocks[i]
      BY <1>1
    <3> QED BY <1>1, <2>1, <3>1, VisibleStays
  <2> QED BY <1>0, <1>2, <2>2 DEF ViewInv, Marked
<1> QED BY <1>0, <1>3, <1>4, <1>4a, <1>4b, <1>5, <1>6 DEF ViewInv, BlocksAreTheFile

\* The visible list as render and handleInput read it.
LEMMA VisibleNow ==
    ASSUME ViewInv
    PROVE  LET vis == Visible(blocks, showThinking)
           IN  /\ Len(vis) \in 0 .. MaxLines /\ DOMAIN vis = 1 .. Len(vis) /\ vis \in Seq(Nat)
               /\ \A k \in DOMAIN vis : vis[k] \in DOMAIN blocks
               /\ focused \in Nat /\ focused >= 1 /\ focused <= MaxLines + 1
               /\ vis # <<>> => Clamped(vis) \in 1 .. Len(vis)
<1> DEFINE vis == Visible(blocks, showThinking)
<1>1. /\ showThinking \in BOOLEAN /\ focused \in 1 .. MaxLines + 1 /\ MaxLines \in Nat
  BY BoundAssumption DEF ViewInv, BlocksAreTheFile, ViewTypeOK
<1>2. blocks \in Seq(Lines) /\ Len(blocks) \in 0 .. MaxLines
  BY <1>1, BlocksFacts
<1>3. /\ Len(vis) \in 0 .. Len(blocks) /\ DOMAIN vis = 1 .. Len(vis) /\ vis \in Seq(Nat)
      /\ \A k \in DOMAIN vis : vis[k] \in DOMAIN blocks
  BY <1>1, <1>2, VisibleFacts
<1> HIDE DEF vis
<1>4. Len(vis) \in 0 .. MaxLines
  BY <1>1, <1>2, <1>3
<1>5. vis # <<>> => Len(vis) >= 1
  BY <1>3
<1>6. vis # <<>> => Clamped(vis) \in 1 .. Len(vis)
  BY <1>1, <1>4, <1>5 DEF Clamped
<1> QED BY <1>1, <1>3, <1>4, <1>6 DEF vis

LEMMA DrawStep ==
    ASSUME ViewInv, DrawView
    PROVE  ViewInv'
<1> DEFINE vis == Visible(blocks, showThinking)
<1>0. /\ UNCHANGED <<file, half, cut, found, offset, partial, blocks, damaged, split, expanded,
                    showThinking, follow>>
      /\ focused' = IF vis = <<>> THEN 1 ELSE Clamped(vis)
      /\ screen'.unit = IF vis = <<>> THEN 0 ELSE vis[Clamped(vis)]
  BY DEF DrawView, fileVars, tailVars
<1>1. /\ Len(vis) \in 0 .. MaxLines /\ DOMAIN vis = 1 .. Len(vis)
      /\ vis # <<>> => Clamped(vis) \in 1 .. Len(vis)
  BY VisibleNow
<1>2. Visible(blocks', showThinking') = vis
  BY <1>0
<1> HIDE DEF vis
<1>3. focused' \in 1 .. MaxLines + 1
  BY <1>0, <1>1, BoundAssumption
<1>4. /\ ViewTypeOK' /\ FileInv' /\ SplitInv' /\ blocks' = SubSeq(file', 1, offset')
      /\ (damaged = split \cap (1 .. offset))'
  BY <1>0, <1>3 DEF ViewInv, BlocksAreTheFile, ViewTypeOK, FileInv, SplitInv
<1>5. Marked'
  BY <1>0, <1>1, <1>2 DEF Marked
<1> QED BY <1>4, <1>5 DEF ViewInv, BlocksAreTheFile

LEMMA KeySteps ==
    ASSUME ViewInv, \/ \E to \in {"up", "down", "first", "last"} : KeyGo(to)
                    \/ KeyExpand \/ KeyThinking \/ KeyFollow
    PROVE  ViewInv'
<1> DEFINE vis == Visible(blocks, showThinking)
<1>0. /\ UNCHANGED <<file, half, cut, found, offset, partial, blocks, damaged, split>> /\ screen' = NoLine
  BY DEF KeyGo, KeyExpand, KeyThinking, KeyFollow, Key, fileVars, tailVars
<1>1. /\ Len(vis) \in 0 .. MaxLines /\ DOMAIN vis = 1 .. Len(vis) /\ vis \in Seq(Nat)
      /\ \A k \in DOMAIN vis : vis[k] \in DOMAIN blocks
      /\ focused \in Nat /\ focused >= 1 /\ focused <= MaxLines + 1
  BY VisibleNow
<1>2. Marked'
  BY <1>0 DEF Marked
<1>3. expanded \subseteq DOMAIN blocks /\ follow \in BOOLEAN /\ showThinking \in BOOLEAN
      /\ MaxLines \in Nat
  BY BoundAssumption DEF ViewInv, BlocksAreTheFile, ViewTypeOK
<1>4. /\ focused' \in 1 .. MaxLines + 1 /\ expanded' \subseteq DOMAIN blocks
      /\ follow' \in BOOLEAN /\ showThinking' \in BOOLEAN
  <2>1. ASSUME NEW to \in {"up", "down", "first", "last"}, KeyGo(to)
        PROVE  /\ focused' \in 1 .. MaxLines + 1 /\ expanded' \subseteq DOMAIN blocks
               /\ follow' \in BOOLEAN /\ showThinking' \in BOOLEAN
    <3>1. /\ UNCHANGED <<expanded, showThinking>> /\ follow' = FALSE
          /\ \/ focused' = focused
             \/ focused' = IF focused > 1 THEN focused - 1 ELSE 1
             \/ focused' = Least(Len(vis), focused + 1) /\ Len(vis) # 0
             \/ focused' = 1
             \/ focused' = Len(vis) /\ Len(vis) # 0
      BY <2>1 DEF KeyGo
    <3> HIDE DEF vis
    <3>2. focused' \in 1 .. MaxLines + 1
      BY <1>1, <1>3, <3>1 DEF Least
    <3> QED BY <1>3, <3>1, <3>2
  <2>2. CASE KeyExpand
    <3>1. focused \in DOMAIN vis /\ expanded' = Toggled(expanded, vis[focused])
          /\ UNCHANGED <<showThinking, focused, follow>>
      BY <2>2 DEF KeyExpand, ToToggle
    <3> HIDE DEF vis
    <3> QED BY <1>1, <1>3, <3>1 DEF Toggled
  <2>3. CASE KeyThinking \/ KeyFollow
    <3>1. focused' = focused /\ expanded' = expanded
      BY <2>3 DEF KeyThinking, KeyFollow
    <3>2. /\ showThinking' = showThinking \/ showThinking' = ~showThinking
          /\ follow' = follow \/ follow' = ~follow
      BY <2>3 DEF KeyThinking, KeyFollow
    <3>3. showThinking' \in BOOLEAN /\ follow' \in BOOLEAN
      BY <1>3, <3>2
    <3> QED BY <1>1, <1>3, <3>1, <3>3
  <2> QED BY <2>1, <2>2, <2>3
<1>5. /\ ViewTypeOK' /\ FileInv' /\ SplitInv' /\ blocks' = SubSeq(file', 1, offset')
      /\ (damaged = split \cap (1 .. offset))'
  BY <1>0, <1>4 DEF ViewInv, BlocksAreTheFile, ViewTypeOK, FileInv, SplitInv
<1> QED BY <1>2, <1>5 DEF ViewInv, BlocksAreTheFile

LEMMA NextView == ViewInv /\ [ViewNext]_readingVars => ViewInv'
<1>1. ASSUME ViewInv, UNCHANGED readingVars PROVE ViewInv'
  BY <1>1 DEF readingVars, fileVars, tailVars, readerVars, ViewInv, BlocksAreTheFile, ViewTypeOK,
              FileInv, SplitInv, Marked
<1> QED BY <1>1, FileSteps, PollStep, DrawStep, KeySteps DEF ViewNext

(* TranscriptTail.poll: the view has exactly the lines its tail has passed, *)
(* each once and in order, however the file grew between the polls; damaged *)
(* are the lines a poll ended inside a character of, and no others.         *)
THEOREM BlocksCorrect == ViewSpec => []BlocksAreTheFile
<1>1. ViewInv => BlocksAreTheFile
  BY DEF ViewInv
<1> QED BY <1>1, InitView, NextView, PTL DEF ViewSpec

\* ToggleIsMarked says this of every step.
TogglesMarked ==
    expanded' # expanded /\ screen # NoLine /\ screen.unit # 0
        => expanded' = Toggled(expanded, screen.unit)

(* handleInput: e acts on the unit the reader saw marked, whatever arrived *)
(* since the drawing: no line that arrives moves a visible unit.           *)
THEOREM ToggleMarked == ViewSpec => ToggleIsMarked
<1>1. ASSUME ViewInv, ViewNext, expanded' # expanded, screen # NoLine, screen.unit # 0
      PROVE  expanded' = Toggled(expanded, screen.unit)
  <2>1. KeyExpand
    BY <1>1 DEF ViewNext, BeginLine, GrowLine, CompleteLine, Poll, DrawView, KeyGo, KeyThinking, KeyFollow,
                readerVars
  <2> QED BY <1>1, <2>1 DEF KeyExpand, ToToggle, ViewInv, Marked
<1>2. ViewInv /\ [ViewNext]_readingVars => [TogglesMarked]_readingVars
  BY <1>1 DEF TogglesMarked
<1> QED BY <1>2, InitView, NextView, PTL DEF ViewSpec, ToggleIsMarked, TogglesMarked

-----------------------------------------------------------------------------
(* Lines on the screen. *)
LEMMA HeightIs ==
    ASSUME NEW bs, NEW i
    PROVE  Height(bs, i) \in Nat /\ Height(bs, i) >= 1
<1>1. Height(bs, i) \in {1, 2, 1 + BodyLines, 1 + 0}
  BY DEF Height
<1> QED BY <1>1, BoundAssumption

\* A head further down has at least one more line above it.
LEMMA HeadsDescend ==
    ASSUME NEW bs, NEW vis, NEW v \in Nat, NEW w \in Nat, 1 <= v, v < w
    PROVE  /\ HeadLine(bs, vis, v) \in Nat /\ HeadLine(bs, vis, v) >= 1
           /\ HeadLine(bs, vis, w) \in Nat
           /\ HeadLine(bs, vis, v) < HeadLine(bs, vis, w)
<1>1. ASSUME NEW u \in Nat
      PROVE  IsFiniteSet(LinesAbove(bs, vis, u)) /\ Cardinality(LinesAbove(bs, vis, u)) \in Nat
  <2>1. IsFiniteSet(1 .. u - 1) /\ IsFiniteSet(1 .. BodyLines + 2)
    BY BoundAssumption, FS_Interval
  <2>2. IsFiniteSet((1 .. u - 1) \X (1 .. BodyLines + 2))
    BY <2>1, FS_Product
  <2>3. LinesAbove(bs, vis, u) \subseteq (1 .. u - 1) \X (1 .. BodyLines + 2)
    BY DEF LinesAbove
  <2> QED BY <2>2, <2>3, FS_Subset, FS_CardinalityType
<1> DEFINE A == LinesAbove(bs, vis, v)
           B == LinesAbove(bs, vis, w)
<1>2. <<v, 1>> \in B /\ <<v, 1>> \notin A
  <2>1. v \in 1 .. w - 1 /\ 1 \in 1 .. BodyLines + 2 /\ v \notin 1 .. v - 1
    BY BoundAssumption
  <2>2. 1 <= Height(bs, vis[v])
    BY HeightIs
  <2> QED BY <2>1, <2>2 DEF LinesAbove
<1>3. A \subseteq B
  <2>1. 1 .. v - 1 \subseteq 1 .. w - 1
    OBVIOUS
  <2> QED BY <2>1 DEF LinesAbove
<1>4. IsFiniteSet(A) /\ IsFiniteSet(B) /\ Cardinality(A) \in Nat /\ Cardinality(B) \in Nat
  BY <1>1
<1> HIDE DEF A, B
<1>5. IsFiniteSet(B \ {<<v, 1>>}) /\ Cardinality(B \ {<<v, 1>>}) = Cardinality(B) - 1
  BY <1>2, <1>4, FS_RemoveElement
<1>6. A \subseteq B \ {<<v, 1>>}
  BY <1>2, <1>3
<1>7. Cardinality(A) <= Cardinality(B \ {<<v, 1>>})
  BY <1>5, <1>6, FS_Subset
<1> QED BY <1>4, <1>5, <1>7 DEF HeadLine, A, B

\* The window of three lines or more holds the head of the focused unit.
LEMMA WindowHolds ==
    ASSUME ViewInv, Viewport # 1, Viewport # 2, ~follow,
           Visible(blocks, showThinking) # <<>>
    PROVE  LET vis == Visible(blocks, showThinking)
               f   == Clamped(vis)
           IN  HeadLine(blocks, vis, f) - Top(blocks, vis, f) \in 0 .. Viewport - 1
<1> DEFINE vis == Visible(blocks, showThinking)
           f   == Clamped(vis)
           h   == HeadLine(blocks, vis, f)
           t   == HeadLine(blocks, vis, Len(vis) + 1)
<1>1. Len(vis) \in Nat /\ f \in 1 .. Len(vis)
  BY VisibleNow
<1>2. h \in Nat /\ h >= 1 /\ t \in Nat /\ h < t
  <2>1. f \in Nat /\ Len(vis) + 1 \in Nat /\ 1 <= f /\ f < Len(vis) + 1
    BY <1>1
  <2> HIDE DEF f
  <2> QED BY <2>1, HeadsDescend
<1>3. Top(blocks, vis, f) = Least(Minus(h, 2), Minus(t, Viewport))
  BY DEF Top, Total, Anchor
<1>4. Viewport \in Nat /\ Viewport >= 3
  BY ViewportAssumption
<1> HIDE DEF vis, f, h, t
<1>5. h - Least(Minus(h, 2), Minus(t, Viewport)) \in 0 .. Viewport - 1
  BY <1>2, <1>4 DEF Least, Minus
<1> QED BY <1>3, <1>5 DEF vis, f, h

(* render and topLine: in a window of one line, and of three lines or      *)
(* more, the head of the focused unit is in the window whenever the reader *)
(* moves by hand.  In a window of two lines it need not be.                *)
THEOREM FocusShown ==
    ASSUME Viewport # 2
    PROVE  ViewSpec => []FocusOnScreen
<1>1. ViewInit => FocusOnScreen
  BY DEF ViewInit, FocusOnScreen
<1>2. ASSUME ViewInv, FocusOnScreen, [ViewNext]_readingVars PROVE FocusOnScreen'
  <2>1. CASE DrawView
    <3> DEFINE vis == Visible(blocks, showThinking)
               f   == Clamped(vis)
               in  == vis = <<>> \/ (IF Viewport = 1 THEN ~follow
                        ELSE HeadLine(blocks, vis, f) - Top(blocks, vis, f) \in 0 .. Viewport - 1)
    <3>1. screen'.following = follow /\ screen'.inside = in
      BY <2>1 DEF DrawView
    <3>2. ~follow => in
      BY <1>2, WindowHolds
    <3>3. follow \in BOOLEAN
      BY <1>2 DEF ViewInv, BlocksAreTheFile, ViewTypeOK
    <3> HIDE DEF in
    <3> QED BY <3>1, <3>2, <3>3 DEF FocusOnScreen
  <2>2. CASE screen' = NoLine \/ screen' = screen
    BY <1>2, <2>2 DEF FocusOnScreen
  <2>3. DrawView \/ screen' = NoLine \/ screen' = screen
    BY <1>2 DEF ViewNext, BeginLine, GrowLine, CompleteLine, Poll, KeyGo, KeyExpand, KeyThinking, KeyFollow,
                Key, readingVars
  <2> QED BY <2>1, <2>2, <2>3
<1> QED BY <1>1, <1>2, InitView, NextView, PTL DEF ViewSpec

-----------------------------------------------------------------------------
(* Documents. *)

Member == [seat : Texts, value : Values]

LEMMA DocumentParts ==
    ASSUME NEW d \in Documents
    PROVE  /\ Readable(d) /\ d # Absent /\ d # Malformed
           /\ d.council.members \in Seq(Member) /\ d.gate.members \in Seq(Texts)
           /\ d.council.is # "object" => d.council.members = <<>>
           /\ d.gate.is # "object" => d.gate.members = <<>>
           /\ d.council.is \in {"object", "absent", "bad"}
<1>1. d.state = "json" /\ d.council \in SectionsOf(Member) /\ d.gate \in SectionsOf(Texts)
  BY DEF Documents, Member
<1>2. d # Absent /\ d # Malformed
  BY <1>1 DEF Absent, Malformed
<1>3. <<>> \in Seq(Member) /\ <<>> \in Seq(Texts)
  OBVIOUS
<1>4. ASSUME NEW S, NEW x \in SectionsOf(S)
      PROVE  /\ x.members \in Seq(S)
             /\ x.is # "object" => x.members = <<>>
             /\ x.is \in {"object", "absent", "bad"}
  <2>1. x \in [is : {"object"}, members : Seq(S)] \/ x = NoSection \/ x = BadSection
    BY DEF SectionsOf
  <2>2. CASE x \in [is : {"object"}, members : Seq(S)]
    BY <2>2
  <2>3. CASE x = NoSection
    BY <2>3 DEF NoSection
  <2>4. CASE x = BadSection
    BY <2>4 DEF BadSection
  <2> QED BY <2>1, <2>2, <2>3, <2>4
<1>5. /\ d.council.members \in Seq(Member)
      /\ d.council.is # "object" => d.council.members = <<>>
      /\ d.council.is \in {"object", "absent", "bad"}
  BY <1>1, <1>4
<1>6. /\ d.gate.members \in Seq(Texts)
      /\ d.gate.is # "object" => d.gate.members = <<>>
  BY <1>1, <1>4
<1> QED BY <1>1, <1>2, <1>5, <1>6 DEF Readable

\* A set of numbers that is not empty has a least one.
LEMMA LeastOf ==
    ASSUME NEW T, T \subseteq Nat, T # {}
    PROVE  \E m \in T : \A n \in T : m <= n
<1> DEFINE R == OpToRel(<, Nat)
<1>1. IsWellFoundedOn(R, Nat)
  BY NatLessThanWellFounded
<1>2. \A n, m \in Nat : n < m => <<n, m>> \in R
  BY DEF OpToRel
<1> HIDE DEF R
<1>3. PICK m \in T : \A n \in T : <<n, m>> \notin R
  BY <1>1, WFMin
<1>4. \A n \in T : ~(n < m)
  BY <1>2, <1>3, Zenon
<1> QED BY <1>4

LEMMA LastOne ==
    ASSUME NEW d \in Documents, NEW s, Entries(d, s) # {}
    PROVE  /\ LastEntry(d, s) \in Entries(d, s)
           /\ \A h \in Entries(d, s) : h <= LastEntry(d, s)
<1> DEFINE ms == d.council.members
           n == Len(ms)
           T == {n - i : i \in Entries(d, s)}
<1>1. ms \in Seq(Member)
  BY DocumentParts
<1> HIDE DEF ms
<1>2. n \in Nat /\ DOMAIN ms = 1 .. n
  BY <1>1
<1>3. Entries(d, s) \subseteq 1 .. n
  BY <1>2 DEF Entries, ms
<1> HIDE DEF n
<1>4. T \subseteq Nat /\ T # {}
  BY <1>2, <1>3
<1> HIDE DEF T
<1>5. PICK m \in T : \A k \in T : m <= k
  BY <1>4, LeastOf
<1> USE DEF T
<1>6. PICK i \in Entries(d, s) : m = n - i
  BY <1>5
<1>7. \A h \in Entries(d, s) : h <= i
  <2> TAKE h \in Entries(d, s)
  <2>1. n - i <= n - h
    BY <1>5, <1>6
  <2> QED BY <2>1, <1>2, <1>3
<1> QED BY <1>6, <1>7 DEF LastEntry

LEMMA IsLast ==
    ASSUME NEW d \in Documents, NEW s, NEW m \in Entries(d, s), \A h \in Entries(d, s) : h <= m
    PROVE  LastEntry(d, s) = m
<1>1. Entries(d, s) \subseteq Nat
  BY DocumentParts DEF Entries
<1>2. LastEntry(d, s) \in Entries(d, s) /\ m <= LastEntry(d, s)
  BY LastOne
<1> QED BY <1>1, <1>2

LEMMA ValueType ==
    ASSUME NEW d \in Documents, NEW s, Entries(d, s) # {}
    PROVE  ValueOf(d, s) \in Values
<1>1. LastEntry(d, s) \in DOMAIN d.council.members
  BY LastOne DEF Entries
<1>2. d.council.members \in Seq(Member)
  BY DocumentParts
<1>3. d.council.members[LastEntry(d, s)] \in Member
  BY <1>1, <1>2
<1> QED BY <1>3 DEF ValueOf, Member

\* Two documents say the same of a seat.
SameOf(d, d2, t) ==
    /\ Entries(d2, t) = {} <=> Entries(d, t) = {}
    /\ Entries(d, t) # {} => ValueOf(d2, t) = ValueOf(d, t)

LEMMA SameResolves ==
    ASSUME NEW d \in Documents, NEW d2 \in Documents, NEW t, SameOf(d, d2, t)
    PROVE  OverrideOf(d2, t) = OverrideOf(d, t)
<1>1. d # Absent /\ d2 # Absent
  BY DocumentParts
<1> QED BY <1>1 DEF OverrideOf, SameOf

-----------------------------------------------------------------------------
(* The edits of the member list. *)

\* d with other council members.
Spliced(d, ms) == [d EXCEPT !.council = Object(ms)]

LEMMA SplicedDocument ==
    ASSUME NEW d \in Documents, NEW ms \in Seq(Member)
    PROVE  /\ Spliced(d, ms) \in Documents /\ Spliced(d, ms).council.members = ms
           /\ LoadTheme(Spliced(d, ms)) = LoadTheme(d)
           /\ LoadGate(Spliced(d, ms)) = LoadGate(d)
<1> DEFINE d2 == Spliced(d, ms)
<1>1. d2 = [state |-> d.state, council |-> Object(ms), theme |-> d.theme,
            themeLine |-> d.themeLine, gate |-> d.gate]
  BY DEF Spliced, Documents
<1>2. Object(ms) \in SectionsOf(Member) /\ Object(ms).members = ms
  BY DEF Object, SectionsOf
<1>3. d2 \in Documents
  BY <1>1, <1>2 DEF Documents, Member
<1>4. /\ d2.council = Object(ms) /\ d2.theme = d.theme /\ d2.gate = d.gate
  BY <1>1
<1> HIDE DEF d2
<1>5. d # Absent /\ d2 # Absent /\ Readable(d) /\ Readable(d2)
  BY <1>3, DocumentParts
<1>6. LoadTheme(d2) = LoadTheme(d) /\ LoadGate(d2) = LoadGate(d)
  BY <1>4, <1>5 DEF LoadTheme, LoadGate
<1> QED BY <1>2, <1>3, <1>4, <1>6 DEF d2

LEMMA Appended ==
    ASSUME NEW d \in Documents, NEW e \in Member, Entries(d, e.seat) = {}
    PROVE  /\ Append(d.council.members, e) \in Seq(Member)
           /\ \A d2 \in Documents : d2.council.members = Append(d.council.members, e) =>
                /\ Entries(d2, e.seat) # {} /\ ValueOf(d2, e.seat) = e.value
                /\ \A t : t # e.seat => SameOf(d, d2, t)
<1> DEFINE ms == d.council.members
           n == Len(ms)
<1>1. ms \in Seq(Member)
  BY DocumentParts
<1> HIDE DEF ms
<1>2. Append(ms, e) \in Seq(Member) /\ n \in Nat /\ DOMAIN ms = 1 .. n
  BY <1>1
<1>3. /\ DOMAIN Append(ms, e) = 1 .. n + 1
      /\ Append(ms, e)[n + 1] = e
      /\ \A i \in 1 .. n : Append(ms, e)[i] = ms[i]
  BY <1>1
<1>4. SUFFICES ASSUME NEW d2 \in Documents, d2.council.members = Append(ms, e)
               PROVE  /\ Entries(d2, e.seat) # {} /\ ValueOf(d2, e.seat) = e.value
                      /\ \A t : t # e.seat => SameOf(d, d2, t)
  BY <1>2 DEF ms
<1>5. \A i \in 1 .. n : ms[i].seat # e.seat
  BY <1>2 DEF Entries, ms
<1>6. Entries(d2, e.seat) = {n + 1}
  BY <1>2, <1>3, <1>4, <1>5 DEF Entries
<1>7. LastEntry(d2, e.seat) = n + 1
  BY <1>6, LastOne
<1>8. ASSUME NEW t, t # e.seat PROVE SameOf(d, d2, t)
  <2>1. Entries(d2, t) = Entries(d, t) /\ Entries(d, t) \subseteq 1 .. n
    BY <1>2, <1>3, <1>4, <1>8 DEF Entries, ms
  <2>2. ASSUME Entries(d, t) # {} PROVE ValueOf(d2, t) = ValueOf(d, t)
    <3>1. LastEntry(d2, t) = LastEntry(d, t)
      BY <2>1 DEF LastEntry
    <3>2. LastEntry(d, t) \in 1 .. n
      BY <2>1, <2>2, LastOne
    <3> QED BY <3>1, <3>2, <1>3, <1>4 DEF ValueOf, ms
  <2> QED BY <2>1, <2>2 DEF SameOf
<1> QED BY <1>3, <1>4, <1>6, <1>7, <1>8 DEF ValueOf

LEMMA Replaced ==
    ASSUME NEW d \in Documents, NEW k \in DOMAIN d.council.members, NEW v \in Values,
           NEW d2 \in Documents, NEW ms,
           ms = [d.council.members EXCEPT ![k].value = v], d2.council.members = ms
    PROVE  /\ \A t : Entries(d2, t) = Entries(d, t)
           /\ \A t : Entries(d, t) # {} =>
                ValueOf(d2, t) = IF LastEntry(d, t) = k THEN v ELSE ValueOf(d, t)
<1> DEFINE old == d.council.members
<1>1. old \in Seq(Member) /\ k \in DOMAIN old /\ ms = [old EXCEPT ![k].value = v]
  BY DocumentParts
<1> HIDE DEF old
<1>2. DOMAIN ms = DOMAIN old
  BY <1>1
<1>3. \A i \in DOMAIN old : old[i] \in Member
  BY <1>1
<1>4. \A i \in DOMAIN old : ms[i].seat = old[i].seat
                           /\ ms[i].value = IF i = k THEN v ELSE old[i].value
  BY <1>1, <1>3 DEF Member
<1>5. \A t : Entries(d2, t) = Entries(d, t)
  BY <1>2, <1>4 DEF Entries, old
<1>6. ASSUME NEW t, Entries(d, t) # {}
      PROVE  ValueOf(d2, t) = IF LastEntry(d, t) = k THEN v ELSE ValueOf(d, t)
  <2>1. LastEntry(d2, t) = LastEntry(d, t)
    BY <1>5 DEF LastEntry
  <2>2. LastEntry(d, t) \in DOMAIN old
    BY <1>6, LastOne DEF Entries, old
  <2> QED BY <2>1, <2>2, <1>4 DEF ValueOf, old
<1> QED BY <1>5, <1>6

LEMMA Removed ==
    ASSUME NEW d \in Documents, NEW s, Entries(d, s) # {},
           NEW ms, ms = RemoveAt(d.council.members, LastEntry(d, s))
    PROVE  /\ ms \in Seq(Member)
           /\ \A d2 \in Documents : d2.council.members = ms =>
                /\ Entries(d, s) = {LastEntry(d, s)} => Entries(d2, s) = {}
                /\ \A t : t # s => SameOf(d, d2, t)
<1> DEFINE old == d.council.members
           n == Len(old)
           k == LastEntry(d, s)
           At(i) == IF i < k THEN i ELSE i + 1
<1>1. old \in Seq(Member) /\ n \in Nat /\ DOMAIN old = 1 .. n
  BY DocumentParts
<1>2. k \in 1 .. n /\ old[k].seat = s
  BY <1>1, LastOne DEF Entries
<1>3. ms = SubSeq(old, 1, k - 1) \o SubSeq(old, k + 1, n)
  BY DEF RemoveAt
<1> HIDE DEF old, n, k
<1>4. /\ SubSeq(old, 1, k - 1) \in Seq(Member) /\ Len(SubSeq(old, 1, k - 1)) = k - 1
      /\ \A i \in 1 .. k - 1 : SubSeq(old, 1, k - 1)[i] = old[i]
  BY <1>1, <1>2 DEF n
<1>5. /\ SubSeq(old, k + 1, n) \in Seq(Member) /\ Len(SubSeq(old, k + 1, n)) = n - k
      /\ \A i \in 1 .. n - k : SubSeq(old, k + 1, n)[i] = old[i + k]
  <2>1. \A i \in k + 1 .. n : i \in 1 .. Len(old)
    BY <1>1, <1>2 DEF n
  <2>2. \A i \in k + 1 .. n : old[i] \in Member
    BY <2>1, <1>1
  <2>3. SubSeq(old, k + 1, n) = [i \in 1 .. n - k |-> old[i + k]]
    BY <1>1, <1>2
  <2> DEFINE tail == [i \in 1 .. n - k |-> old[i + k]]
  <2>4. n - k \in Nat /\ \A i \in 1 .. n - k : i + k \in k + 1 .. n
    BY <1>1, <1>2
  <2>5. tail \in [1 .. n - k -> Member]
    BY <2>2, <2>4
  <2>6. tail \in Seq(Member) /\ Len(tail) = n - k
    BY <2>4, <2>5
  <2> QED BY <2>3, <2>6
<1>6. /\ ms \in Seq(Member) /\ DOMAIN ms = 1 .. n - 1
      /\ \A i \in 1 .. n - 1 : ms[i] = old[At(i)] /\ At(i) \in 1 .. n /\ At(i) # k
  BY <1>1, <1>2, <1>3, <1>4, <1>5
<1>7. SUFFICES ASSUME NEW d2 \in Documents, d2.council.members = ms
               PROVE  /\ Entries(d, s) = {k} => Entries(d2, s) = {}
                      /\ \A t : t # s => SameOf(d, d2, t)
  BY <1>6 DEF k
<1>8. \A t : Entries(d, t) = {i \in 1 .. n : old[i].seat = t}
  BY <1>1 DEF Entries, old
<1>9. \A t : Entries(d2, t) = {i \in 1 .. n - 1 : old[At(i)].seat = t}
  BY <1>6, <1>7 DEF Entries
<1>10. ASSUME Entries(d, s) = {k} PROVE Entries(d2, s) = {}
  <2> SUFFICES ASSUME NEW i \in Entries(d2, s) PROVE FALSE
    OBVIOUS
  <2>1. i \in 1 .. n - 1 /\ old[At(i)].seat = s
    BY <1>9
  <2>2. At(i) \in Entries(d, s) /\ At(i) # k
    BY <2>1, <1>6, <1>8
  <2> QED BY <2>2, <1>10
<1>11. ASSUME NEW t, t # s PROVE SameOf(d, d2, t)
  <2>1. ASSUME Entries(d2, t) # {} PROVE Entries(d, t) # {}
    BY <2>1, <1>6, <1>8, <1>9
  <2>2. ASSUME Entries(d, t) # {}
        PROVE  Entries(d2, t) # {} /\ ValueOf(d2, t) = ValueOf(d, t)
    <3> DEFINE m == LastEntry(d, t)
               m2 == IF m < k THEN m ELSE m - 1
    <3>1. m \in 1 .. n /\ old[m].seat = t /\ \A h \in Entries(d, t) : h <= m
      BY <2>2, <1>8, LastOne
    <3> HIDE DEF m
    <3>2. m # k
      BY <3>1, <1>2, <1>11
    <3>3. m2 \in 1 .. n - 1 /\ At(m2) = m
      BY <3>1, <3>2, <1>1, <1>2
    <3>4. m2 \in Entries(d2, t)
      BY <3>1, <3>3, <1>9
    <3>5. ASSUME NEW h \in Entries(d2, t) PROVE h <= m2
      <4>1. h \in 1 .. n - 1 /\ At(h) \in Entries(d, t)
        BY <1>6, <1>8, <1>9
      <4>2. At(h) <= m
        BY <4>1, <3>1
      <4> QED BY <4>1, <4>2, <3>1, <3>2, <1>1, <1>2
    <3>6. LastEntry(d2, t) = m2
      BY <3>4, <3>5, IsLast
    <3>7. ms[m2] = old[m]
      BY <3>3, <1>6
    <3> QED BY <3>4, <3>6, <3>7, <1>7 DEF ValueOf, m, old
  <2> QED BY <2>1, <2>2 DEF SameOf
<1> QED BY <1>10, <1>11

-----------------------------------------------------------------------------
(* What is written is read back. *)

LEMMA EmittedIs ==
    ASSUME NEW m \in Catalogue, NEW l \in Levels \cup {NoLevel}, NEW s
    PROVE  /\ Emitted(m, l) \in Values
           /\ Applied(s, Emitted(m, l)) =
                [model |-> m, thinking |-> IF l # NoLevel THEN l ELSE Frontmatter[s].thinking]
<1> DEFINE v == Emitted(m, l)
           ts == IF l = NoLevel THEN <<>> ELSE <<l>>
<1>1. m \in Texts /\ m # NoModel /\ l \in Texts /\ NoLevel \in Texts
  BY NamesAssumption DEF NoLevel, NoModel
<1>2. ts \in Seq(Texts) /\ (l # NoLevel => ts # <<>> /\ Last(ts) = l)
  BY <1>1 DEF Last
<1>3. v = [model |-> m, suffix |-> NoLevel, thinking |-> ts]
  BY DEF Emitted, Value
<1>4. v \in Values
  BY <1>1, <1>2, <1>3 DEF Values
<1>5. v.model = m /\ v.suffix = NoLevel /\ v.thinking = ts
  BY <1>3
<1> HIDE DEF v
<1>6. CASE l = NoLevel
  <2>1. v.thinking = <<>>
    BY <1>5, <1>6
  <2> HIDE DEF ts
  <2>2. ValidOverride(v)
    BY <2>1 DEF ValidOverride
  <2>3. Applied(s, v) = [model |-> m, thinking |-> Frontmatter[s].thinking]
    BY <1>1, <1>5, <2>1, <2>2 DEF Applied
  <2> QED BY <1>4, <1>6, <2>3 DEF v
<1>7. CASE l # NoLevel
  <2>1. v.thinking # <<>> /\ Last(v.thinking) = l /\ l \in Levels
    BY <1>2, <1>5, <1>7
  <2> HIDE DEF ts
  <2>2. ValidOverride(v)
    BY <2>1 DEF ValidOverride
  <2>3. Applied(s, v) = [model |-> m, thinking |-> l]
    BY <1>1, <1>5, <2>1, <2>2 DEF Applied
  <2> QED BY <1>4, <1>7, <2>3 DEF v
<1> QED BY <1>6, <1>7

LEMMA KeptType == \A v : KeptThinking(v) \in Levels \cup {NoLevel}
BY DEF KeptThinking

\* A value's thinking survives being written back.
LEMMA KeptIs ==
    ASSUME NEW v \in Values, NEW m \in Catalogue, NEW s, Applied(s, v) # Broken
    PROVE  Applied(s, Emitted(m, KeptThinking(v))).thinking = Applied(s, v).thinking
<1> DEFINE l == KeptThinking(v)
<1>1. l \in Levels \cup {NoLevel} /\ NoLevel \notin Levels
  BY KeptType, NamesAssumption
<1>2. Applied(s, Emitted(m, l)).thinking = IF l # NoLevel THEN l ELSE Frontmatter[s].thinking
  BY <1>1, EmittedIs
<1>3. /\ ValidOverride(v)
      /\ v.model = NoModel \/ v.suffix \in Levels \cup {NoLevel}
      /\ Applied(s, v).thinking = IF v.thinking # <<>> THEN Last(v.thinking)
                                  ELSE IF v.suffix # NoLevel THEN v.suffix
                                  ELSE Frontmatter[s].thinking
  BY DEF Applied
<1>4. v.model = NoModel => v.suffix = NoLevel
  BY DEF Values
<1>5. v.suffix \in Levels \cup {NoLevel}
  BY <1>3, <1>4
<1>6. l = IF v.thinking # <<>> THEN Last(v.thinking) ELSE v.suffix
  BY <1>1, <1>3, <1>5 DEF KeptThinking, ValidOverride
<1>7. v.thinking # <<>> => Last(v.thinking) \in Levels
  BY <1>3 DEF ValidOverride
<1> HIDE DEF l
<1> QED BY <1>1, <1>2, <1>3, <1>6, <1>7 DEF l

\* The writers' edits, as one new list of members.
LEMMA NewMembers ==
    ASSUME NEW d \in Documents, d.council.is = "object", NEW ms
    PROVE  [d EXCEPT !.council.members = ms] = Spliced(d, ms)
<1>1. d.council = [is |-> "object", members |-> d.council.members]
  BY DEF Documents, SectionsOf, NoSection, BadSection
<1>2. [d.council EXCEPT !.members = ms] = Object(ms)
  BY <1>1 DEF Object
<1>3. [d EXCEPT !.council.members = ms] = [d EXCEPT !.council = [d.council EXCEPT !.members = ms]]
  BY DEF Documents
<1> QED BY <1>2, <1>3 DEF Spliced

WithValue(d, k, v) == [d EXCEPT !.council.members[k].value = v]
Revalue(ms, k, v)  == [ms EXCEPT ![k].value = v]

LEMMA NewValue ==
    ASSUME NEW d \in Documents, d.council.is = "object", NEW k \in DOMAIN d.council.members, NEW v
    PROVE  WithValue(d, k, v) = Spliced(d, Revalue(d.council.members, k, v))
<1>1. d.council = [is |-> "object", members |-> d.council.members]
  BY DEF Documents, SectionsOf, NoSection, BadSection
<1>2. [d.council EXCEPT !.members[k].value = v] = Object(Revalue(d.council.members, k, v))
  BY <1>1 DEF Object, Revalue
<1>3. WithValue(d, k, v) = [d EXCEPT !.council = [d.council EXCEPT !.members[k].value = v]]
  BY DEF Documents, WithValue
<1> QED BY <1>2, <1>3 DEF Spliced

NewEntry(s, sel) == [seat |-> s, value |-> Emitted(sel.model, sel.thinking)]

\* A seat without an entry gets one.
LEMMA Inserted ==
    ASSUME NEW d \in Documents, NEW s \in Texts, NEW sel, Accepts(sel), Entries(d, s) = {},
           NEW d2, d2 = Spliced(d, Append(d.council.members, NewEntry(s, sel)))
    PROVE  /\ d2 \in Documents
           /\ OverrideOf(d2, s) =
                [model |-> sel.model,
                 thinking |-> IF sel.thinking # NoLevel THEN sel.thinking
                              ELSE Frontmatter[s].thinking]
           /\ \A t : t # s => OverrideOf(d2, t) = OverrideOf(d, t)
           /\ LoadTheme(d2) = LoadTheme(d) /\ LoadGate(d2) = LoadGate(d)
<1> DEFINE e == NewEntry(s, sel)
<1>1. e.value = Emitted(sel.model, sel.thinking) /\ e.seat = s
  BY DEF NewEntry
<1>2. sel.model \in Catalogue /\ sel.thinking \in Levels \cup {NoLevel}
  BY DEF Accepts
<1>3. /\ e \in Member
      /\ Applied(s, e.value) =
           [model |-> sel.model,
            thinking |-> IF sel.thinking # NoLevel THEN sel.thinking ELSE Frontmatter[s].thinking]
  BY <1>1, <1>2, EmittedIs DEF Member, NewEntry
<1> HIDE DEF e
<1>4. Append(d.council.members, e) \in Seq(Member)
  BY <1>1, <1>3, Appended
<1>5. /\ d2 \in Documents /\ d2.council.members = Append(d.council.members, e)
      /\ LoadTheme(d2) = LoadTheme(d) /\ LoadGate(d2) = LoadGate(d)
  BY <1>4, SplicedDocument DEF e
<1>6. /\ Entries(d2, s) # {} /\ ValueOf(d2, s) = e.value
      /\ \A t : t # s => SameOf(d, d2, t)
  BY <1>1, <1>3, <1>5, Appended
<1>7. OverrideOf(d2, s) = Applied(s, e.value)
  BY <1>5, <1>6, DocumentParts DEF OverrideOf
<1>8. \A t : t # s => OverrideOf(d2, t) = OverrideOf(d, t)
  BY <1>5, <1>6, SameResolves
<1> QED BY <1>3, <1>5, <1>7, <1>8

\* The seat's entry gets another value.
LEMMA Revalued ==
    ASSUME NEW d \in Documents, NEW s, Entries(d, s) # {}, NEW v \in Values,
           NEW d2, d2 = Spliced(d, Revalue(d.council.members, LastEntry(d, s), v))
    PROVE  /\ d2 \in Documents
           /\ OverrideOf(d2, s) = Applied(s, v)
           /\ \A t : t # s => OverrideOf(d2, t) = OverrideOf(d, t)
           /\ LoadTheme(d2) = LoadTheme(d) /\ LoadGate(d2) = LoadGate(d)
<1> DEFINE old == d.council.members
           k == LastEntry(d, s)
           ms == Revalue(old, k, v)
<1>1. old \in Seq(Member) /\ k \in DOMAIN old /\ old[k].seat = s
  BY DocumentParts, LastOne DEF Entries
<1>2. old[k] \in Member
  BY <1>1
<1>3. [old[k] EXCEPT !.value = v] \in Member
  BY <1>2 DEF Member
<1>4. ms = [old EXCEPT ![k] = [old[k] EXCEPT !.value = v]]
  BY <1>1 DEF Revalue
<1>5. ms \in Seq(Member)
  BY <1>1, <1>3, <1>4
<1> HIDE DEF ms
<1>6. /\ d2 \in Documents /\ d2.council.members = ms
      /\ LoadTheme(d2) = LoadTheme(d) /\ LoadGate(d2) = LoadGate(d)
  BY <1>5, SplicedDocument DEF ms
<1>7. /\ \A t : Entries(d2, t) = Entries(d, t)
      /\ \A t : Entries(d, t) # {} =>
           ValueOf(d2, t) = IF LastEntry(d, t) = k THEN v ELSE ValueOf(d, t)
  <2>1. k \in DOMAIN d.council.members
    BY <1>1
  <2>2. ms = [d.council.members EXCEPT ![k].value = v]
    BY DEF ms, Revalue
  <2> HIDE DEF k
  <2> QED BY <2>1, <2>2, <1>6, Replaced
<1>8. OverrideOf(d2, s) = Applied(s, v)
  BY <1>6, <1>7, DocumentParts DEF OverrideOf
<1>9. ASSUME NEW t, t # s PROVE SameOf(d, d2, t)
  <2>1. ASSUME Entries(d, t) # {} PROVE LastEntry(d, t) # k
    BY <1>1, <1>9, <2>1, LastOne DEF Entries
  <2> QED BY <2>1, <1>7 DEF SameOf
<1>10. \A t : t # s => OverrideOf(d2, t) = OverrideOf(d, t)
  BY <1>6, <1>9, SameResolves
<1> QED BY <1>6, <1>8, <1>10

LEMMA SeatWrittenIs ==
    ASSUME config \in Documents \cup {Absent, Malformed}, Spliceable(config),
           NEW s \in Texts, NEW sel, Accepts(sel), config' = SeatWritten(config, s, sel)
    PROVE  /\ config' \in Documents \cup {Absent, Malformed}
           /\ ~AtLineStart(config) => WrittenAs(s, sel)
<1> DEFINE e == NewEntry(s, sel)
<1>0. Spliceable(config) => config \in Documents \cup {Absent}
  BY DEF Spliceable, Readable, Malformed, Absent
<1>1. CASE config = Absent
  <2>1. \E d \in Documents : /\ d.council.members = <<>>
                             /\ config' = Spliced(d, Append(d.council.members, e))
    <3> DEFINE d == Document(NoSection, "off", "own", NoSection)
    <3>1. d \in Documents /\ d.council.members = <<>>
      BY DEF Document, Documents, SectionsOf, NoSection
    <3>2. Spliced(d, <<e>>) = Document(Object(<<e>>), "off", "own", NoSection)
      BY DEF Document, Spliced
    <3>3. config' = Spliced(d, <<e>>)
      BY <1>1, <3>2 DEF SeatWritten, NewEntry
    <3> HIDE DEF d
    <3>4. config' = Spliced(d, Append(d.council.members, e))
      BY <3>1, <3>3
    <3> QED BY <3>1, <3>4
  <2>2. PICK d \in Documents : /\ d.council.members = <<>>
                               /\ config' = Spliced(d, Append(d.council.members, e))
    BY <2>1
  <2>4. \A t : Entries(d, t) = {}
    BY <2>2 DEF Entries
  <2>6. /\ config' \in Documents
        /\ OverrideOf(config', s) =
             [model |-> sel.model,
              thinking |-> IF sel.thinking # NoLevel THEN sel.thinking
                           ELSE Frontmatter[s].thinking]
        /\ \A t : t # s => OverrideOf(config', t) = OverrideOf(d, t)
    <3>1. Entries(d, s) = {} /\ config' = Spliced(d, Append(d.council.members, NewEntry(s, sel)))
      BY <2>2, <2>4
    <3>2. d \in Documents
      BY <2>2
    <3> QED BY <3>1, <3>2, Inserted
  <2>7. \A t : OverrideOf(d, t) = OverrideOf(config, t)
    BY <1>1, <2>4 DEF OverrideOf
  <2> QED BY <1>1, <2>6, <2>7 DEF WrittenAs, Intended, OthersUntouched
<1>2. CASE config \in Documents /\ Entries(config, s) = {}
  <2>0. config # Absent
    BY <1>2, DocumentParts
  <2>1. config.council.is # "object" => config.council.members = <<>>
    BY <1>2, DocumentParts
  <2>2. CASE AtLineStart(config)
    <3>1. config' = Malformed
      BY <2>0, <2>2 DEF AtLineStart, SeatWritten
    <3> QED BY <3>1, <2>2
  <2>3. CASE ~AtLineStart(config)
    <3>1. config' = Spliced(config, Append(config.council.members, e))
      <4>1. CASE config.council.is = "absent"
        <5>1. Readable(config)
          BY <1>2, DocumentParts
        <5>2. config' = [config EXCEPT !.council = Object(<<e>>)]
          BY <2>0, <2>3, <4>1, <5>1 DEF AtLineStart, SeatWritten, NewEntry
        <5>3. config.council.members = <<>>
          BY <4>1, <2>1
        <5>4. Append(config.council.members, e) = <<e>>
          BY <5>3
        <5> QED BY <5>2, <5>4 DEF Spliced
      <4>2. CASE config.council.is # "absent"
        <5>1. config.council.is = "object"
          BY <1>2, <2>0, <4>2, DocumentParts DEF Spliceable
        <5>2. config' = [config EXCEPT !.council.members = Append(config.council.members, e)]
          BY <1>2, <2>0, <4>2 DEF SeatWritten, NewEntry
        <5> QED BY <1>2, <5>1, <5>2, NewMembers
      <4> QED BY <4>1, <4>2
    <3>2. /\ config' \in Documents
          /\ OverrideOf(config', s) =
               [model |-> sel.model,
                thinking |-> IF sel.thinking # NoLevel THEN sel.thinking
                             ELSE Frontmatter[s].thinking]
          /\ \A t : t # s => OverrideOf(config', t) = OverrideOf(config, t)
          /\ LoadTheme(config') = LoadTheme(config) /\ LoadGate(config') = LoadGate(config)
      BY <1>2, <3>1, Inserted
    <3> QED BY <1>2, <3>2 DEF WrittenAs, Intended, OthersUntouched
  <2> QED BY <2>2, <2>3
<1>3. CASE config \in Documents /\ Entries(config, s) # {}
  <2> DEFINE v == ValueOf(config, s)
             l == IF sel.thinking # NoLevel THEN sel.thinking ELSE KeptThinking(v)
             k == LastEntry(config, s)
  <2>0. config # Absent
    BY <1>3, DocumentParts
  <2>1. k \in DOMAIN config.council.members
    BY <1>3, LastOne DEF Entries
  <2>2. config.council.is = "object"
    <3>1. config.council.members # <<>>
      BY <2>1
    <3> QED BY <3>1, <1>3, DocumentParts
  <2>3. config' = [config EXCEPT !.council.members[k].value = Emitted(sel.model, l)]
    BY <1>3, <2>0, <2>2 DEF SeatWritten, SpliceTarget
  <2>4. sel.model \in Catalogue /\ l \in Levels \cup {NoLevel}
    BY KeptType DEF Accepts
  <2> HIDE DEF l
  <2>5. Emitted(sel.model, l) \in Values
    BY <2>4, EmittedIs
  <2>6. config' = Spliced(config, Revalue(config.council.members, k, Emitted(sel.model, l)))
    <3>1. config' = WithValue(config, k, Emitted(sel.model, l))
      BY <2>3 DEF WithValue
    <3> QED BY <1>3, <2>1, <2>2, <3>1, NewValue
  <2>7. /\ config' \in Documents
        /\ OverrideOf(config', s) = Applied(s, Emitted(sel.model, l))
        /\ \A t : t # s => OverrideOf(config', t) = OverrideOf(config, t)
        /\ LoadTheme(config') = LoadTheme(config) /\ LoadGate(config') = LoadGate(config)
    BY <1>3, <2>5, <2>6, Revalued
  <2>8. OthersUntouched(s)
    BY <2>7 DEF OthersUntouched
  <2>9. OverrideOf(config', s) = Intended(s, sel)
    <3>1. Applied(s, Emitted(sel.model, l)) =
            [model |-> sel.model, thinking |-> IF l # NoLevel THEN l ELSE Frontmatter[s].thinking]
      BY <2>4, EmittedIs
    <3>2. CASE sel.thinking # NoLevel
      BY <3>1, <3>2, <2>7 DEF Intended, l
    <3>3. CASE sel.thinking = NoLevel
      <4>1. l = KeptThinking(v)
        BY <3>3 DEF l
      <4>2. OverrideOf(config, s) = Applied(s, v)
        BY <1>3, <2>0 DEF OverrideOf
      <4>3. v \in Values
        BY <1>3, ValueType
      <4> HIDE DEF v
      <4>4. Applied(s, v) # Broken =>
              Applied(s, Emitted(sel.model, l)).thinking = Applied(s, v).thinking
        BY <4>1, <4>3, <2>4, KeptIs
      <4>5. Intended(s, sel) = [model |-> sel.model,
                                thinking |-> Applied(s, Emitted(sel.model, l)).thinking]
        BY <3>3, <4>1, <4>2, <4>4, <1>3, <2>0 DEF Intended, v
      <4> QED BY <4>5, <3>1, <2>7
    <3> QED BY <3>2, <3>3
  <2> QED BY <2>7, <2>8, <2>9 DEF WrittenAs
<1> QED BY <1>0, <1>1, <1>2, <1>3

-----------------------------------------------------------------------------
(* Clears and the gate. *)

LEMMA OnlyEntry ==
    ASSUME NEW d \in Documents, NEW s, Entries(d, s) # {}, Cardinality(Entries(d, s)) <= 1
    PROVE  Entries(d, s) = {LastEntry(d, s)}
<1> DEFINE E == Entries(d, s)
           k == LastEntry(d, s)
<1>1. k \in E
  BY LastOne
<1>2. Len(d.council.members) \in Nat /\ E \subseteq 1 .. Len(d.council.members)
  BY DocumentParts DEF Entries
<1>3. IsFiniteSet(1 .. Len(d.council.members))
  BY <1>2, FS_Interval
<1>4. IsFiniteSet(E)
  BY <1>2, <1>3, FS_Subset
<1> HIDE DEF E, k
<1>5. Cardinality(E) \in Nat /\ IsFiniteSet(E \ {k}) /\ Cardinality(E \ {k}) = Cardinality(E) - 1
  BY <1>1, <1>4, FS_RemoveElement, FS_CardinalityType
<1>6. Cardinality(E \ {k}) \in Nat /\ Cardinality(E) <= 1
  BY <1>5, FS_CardinalityType DEF E
<1>7. Cardinality(E \ {k}) = 0
  BY <1>5, <1>6
<1>8. E \ {k} = {}
  BY <1>5, <1>7, FS_EmptySet
<1> QED BY <1>1, <1>8 DEF E, k

LEMMA ClearedValue ==
    ASSUME NEW v \in Values, NEW s
    PROVE  /\ ThinkingCleared(v) \in Values
           /\ Len(v.thinking) <= 1 /\ Applied(s, ThinkingCleared(v)) # Broken
                => Applied(s, ThinkingCleared(v)).thinking = Frontmatter[s].thinking
<1> DEFINE w == ThinkingCleared(v)
<1>1. v \in [model : Texts, suffix : Texts, thinking : Seq(Texts)] /\ (v.model = NoModel => v.suffix = NoLevel)
  BY DEF Values
<1>2. NoLevel \in Texts /\ NoLevel \notin Levels
  BY NamesAssumption
<1>3. w = [model |-> v.model, suffix |-> IF v.suffix \in Levels THEN NoLevel ELSE v.suffix,
           thinking |-> IF v.thinking = <<>> THEN v.thinking ELSE Tail(v.thinking)]
  <2> DEFINE a == IF v.suffix \in Levels THEN NoLevel ELSE v.suffix
             b == IF v.thinking = <<>> THEN v.thinking ELSE Tail(v.thinking)
  <2>1. w = [v EXCEPT !.suffix = a, !.thinking = b]
    BY DEF ThinkingCleared
  <2> HIDE DEF a, b, w
  <2>2. w = [model |-> v.model, suffix |-> a, thinking |-> b]
    BY <1>1, <2>1
  <2> QED BY <2>2 DEF a, b
<1>4. v.thinking = <<>> \/ Tail(v.thinking) \in Seq(Texts)
  BY <1>1
<1>5. w \in Values
  BY <1>1, <1>2, <1>3, <1>4 DEF Values
<1>6. Len(v.thinking) <= 1 => w.thinking = <<>>
  BY <1>1, <1>3
<1>7. w.model = NoModel => w.suffix = NoLevel
  BY <1>1, <1>2, <1>3
<1>8. w.suffix \notin Levels
  BY <1>2, <1>3
<1> HIDE DEF w
<1>9. ASSUME Len(v.thinking) <= 1, Applied(s, w) # Broken
      PROVE  Applied(s, w).thinking = Frontmatter[s].thinking
  <2>1. w.thinking = <<>> /\ (w.model # NoModel => w.suffix \in Levels \cup {NoLevel})
    BY <1>6, <1>9 DEF Applied
  <2>2. w.suffix = NoLevel
    BY <2>1, <1>7, <1>8
  <2> QED BY <1>9, <2>1, <2>2 DEF Applied
<1> QED BY <1>5, <1>9 DEF w

LEMMA SeatClearedIs ==
    ASSUME config \in Documents \cup {Absent, Malformed}, Spliceable(config),
           NEW s \in Seats, NEW what \in {"thinking", "seat"},
           SeatCleared(config, s, what) # config, config' = SeatCleared(config, s, what)
    PROVE  /\ config' \in Documents
           /\ OthersUntouched(s)
           /\ Unique(config) /\ what = "seat" => OverrideOf(config', s) = Frontmatter[s]
           /\ Unique(config) /\ what = "thinking" /\ OverrideOf(config', s) # Broken =>
                OverrideOf(config', s).thinking = Frontmatter[s].thinking
<1> DEFINE k == LastEntry(config, s)
<1>1. config # Absent /\ config.council.is # "absent" /\ Entries(config, s) # {}
  BY DEF SeatCleared
<1>2. config \in Documents
  BY <1>1 DEF Spliceable, Readable, Malformed
<1>3. config.council.is = "object" /\ Readable(config)
  BY <1>1, <1>2, DocumentParts DEF Spliceable
<1>4. k \in DOMAIN config.council.members
  BY <1>1, <1>2, LastOne DEF Entries
<1>5. CASE what = "seat"
  <2> DEFINE ms == RemoveAt(config.council.members, k)
  <2>1. config' = [config EXCEPT !.council.members = ms]
    BY <1>1, <1>5 DEF SeatCleared
  <2>2. /\ ms \in Seq(Member)
        /\ \A d2 \in Documents : d2.council.members = ms =>
             /\ Entries(config, s) = {k} => Entries(d2, s) = {}
             /\ \A t : t # s => SameOf(config, d2, t)
    BY <1>1, <1>2, Removed
  <2> HIDE DEF ms
  <2>3. config' = Spliced(config, ms)
    BY <1>2, <1>3, <2>1, NewMembers
  <2>4. /\ config' \in Documents /\ config'.council.members = ms
        /\ LoadTheme(config') = LoadTheme(config) /\ LoadGate(config') = LoadGate(config)
    BY <1>2, <2>2, <2>3, SplicedDocument
  <2>5. \A t : t # s => OverrideOf(config', t) = OverrideOf(config, t)
    BY <1>2, <2>2, <2>4, SameResolves
  <2>6. ASSUME Unique(config) PROVE OverrideOf(config', s) = Frontmatter[s]
    <3>1. Cardinality(Entries(config, s)) <= 1
      BY <1>3, <2>6 DEF Unique
    <3>2. Entries(config, s) = {k}
      BY <1>1, <1>2, <3>1, OnlyEntry
    <3>3. Entries(config', s) = {}
      BY <2>2, <2>4, <3>2
    <3> QED BY <3>3 DEF OverrideOf
  <2> QED BY <1>5, <2>4, <2>5, <2>6 DEF OthersUntouched
<1>6. CASE what = "thinking"
  <2> DEFINE v == ValueOf(config, s)
  <2>1. config' = [config EXCEPT !.council.members[k].value = ThinkingCleared(@)]
    BY <1>1, <1>6 DEF SeatCleared
  <2>2. config' = WithValue(config, k, ThinkingCleared(v))
    BY <2>1 DEF WithValue, ValueOf
  <2>3. v \in Values
    BY <1>1, <1>2, ValueType
  <2>4. config' = Spliced(config, Revalue(config.council.members, k, ThinkingCleared(v)))
    BY <1>2, <1>3, <1>4, <2>2, NewValue
  <2> HIDE DEF v
  <2>5. ThinkingCleared(v) \in Values
    BY <2>3, ClearedValue
  <2>6. /\ config' \in Documents
        /\ OverrideOf(config', s) = Applied(s, ThinkingCleared(v))
        /\ \A t : t # s => OverrideOf(config', t) = OverrideOf(config, t)
        /\ LoadTheme(config') = LoadTheme(config) /\ LoadGate(config') = LoadGate(config)
    BY <1>1, <1>2, <2>4, <2>5, Revalued
  <2>7. Unique(config) => Len(v.thinking) <= 1
    BY <1>1, <1>3 DEF Unique, v
  <2> QED BY <1>6, <2>3, <2>6, <2>7, ClearedValue DEF OthersUntouched
<1> QED BY <1>5, <1>6

LEMMA Gates == ToSet(GateModes) = {"off", "advisory", "active"}
BY DEF ToSet, GateModes

LEMMA GateWrittenIs ==
    ASSUME config \in Documents \cup {Absent, Malformed}, NEW mode \in ToSet(GateModes),
           LoadGate(config) # "bad", LoadGate(config) # mode, config' = GateWritten(config, mode)
    PROVE  /\ config' \in Documents
           /\ LoadGate(config') = mode /\ LoadTheme(config') = LoadTheme(config)
           /\ \A s \in Seats : OverrideOf(config', s) = OverrideOf(config, s)
<1>0. mode \in Texts
  BY NamesAssumption
<1>1. ASSUME NEW d \in Documents, d.gate.members # <<>>, Last(d.gate.members) = mode
      PROVE  LoadGate(d) = mode
  <2>1. d.gate.is # "bad" /\ d # Absent /\ Readable(d)
    BY <1>1, DocumentParts
  <2> QED BY <1>1, <2>1 DEF LoadGate
<1>2. CASE config = Absent
  <2> DEFINE d2 == Document(NoSection, "off", "own", Object(<<mode>>))
  <2>1. config' = d2
    BY <1>2 DEF GateWritten
  <2>2. <<mode>> \in Seq(Texts) /\ <<mode>> # <<>> /\ Last(<<mode>>) = mode
    BY <1>0 DEF Last
  <2>3. Object(<<mode>>) \in SectionsOf(Texts)
    BY <2>2 DEF Object, SectionsOf
  <2>4. d2 \in Documents
    BY <2>3 DEF Document, Documents, SectionsOf, NoSection
  <2>5. d2.gate.members = <<mode>> /\ d2.council.members = <<>> /\ d2.theme = "off"
    BY DEF Document, Object, NoSection
  <2> HIDE DEF d2
  <2>6. LoadGate(d2) = mode
    BY <1>1, <2>2, <2>4, <2>5
  <2>7. \A s : Entries(d2, s) = {}
    BY <2>5 DEF Entries
  <2>8. \A s : OverrideOf(d2, s) = OverrideOf(config, s)
    BY <1>2, <2>7 DEF OverrideOf
  <2>9. LoadTheme(d2) = "off" /\ LoadTheme(config) = "off"
    BY <1>2, <2>4, <2>5, DocumentParts DEF LoadTheme
  <2> QED BY <2>1, <2>4, <2>6, <2>8, <2>9
<1>3. CASE config \in Documents
  <2> DEFINE old == config.gate.members
             ms == IF old = <<>> THEN <<mode>> ELSE Append(Front(old), mode)
  <2>0. config # Absent
    BY <1>3, DocumentParts
  <2>1. config' = [config EXCEPT !.gate = Object(ms)]
    BY <2>0 DEF GateWritten
  <2>2. old \in Seq(Texts)
    BY <1>3, DocumentParts
  <2> HIDE DEF old
  <2>3. old # <<>> => Front(old) \in Seq(Texts)
    BY <2>2 DEF Front
  <2>4. ms \in Seq(Texts) /\ ms # <<>> /\ Last(ms) = mode
    <3>1. <<mode>> \in Seq(Texts) /\ <<mode>> # <<>> /\ Last(<<mode>>) = mode
      BY <1>0 DEF Last
    <3>2. ASSUME NEW x \in Seq(Texts)
          PROVE  Append(x, mode) \in Seq(Texts) /\ Append(x, mode) # <<>> /\ Last(Append(x, mode)) = mode
      <4>1. Append(x, mode) \in Seq(Texts) /\ Len(Append(x, mode)) = Len(x) + 1 /\ Len(x) \in Nat
        BY <1>0
      <4>2. Append(x, mode)[Len(x) + 1] = mode
        BY <1>0
      <4>3. Append(x, mode) # <<>>
        BY <4>1
      <4> QED BY <4>1, <4>2, <4>3 DEF Last
    <3> QED BY <2>3, <3>1, <3>2
  <2> HIDE DEF ms
  <2>5. Object(ms) \in SectionsOf(Texts) /\ Object(ms).members = ms
    BY <2>4 DEF Object, SectionsOf
  <2>6. /\ config' \in Documents /\ config'.gate.members = ms
        /\ config'.council = config.council /\ config'.theme = config.theme
    BY <1>3, <2>1, <2>5 DEF Documents
  <2>7. LoadGate(config') = mode
    BY <1>1, <2>4, <2>6
  <2>8. \A s : SameOf(config, config', s)
    BY <2>6 DEF SameOf, ValueOf, LastEntry, Entries
  <2>9. \A s : OverrideOf(config', s) = OverrideOf(config, s)
    BY <1>3, <2>6, <2>8, SameResolves
  <2>10. LoadTheme(config') = LoadTheme(config)
    BY <1>3, <2>6, DocumentParts DEF LoadTheme
  <2> QED BY <2>6, <2>7, <2>9, <2>10
<1>4. config # Malformed
  BY DEF LoadGate, Malformed, Absent, Readable
<1> QED BY <1>2, <1>3, <1>4

-----------------------------------------------------------------------------
(* The picker: every cursor is on a row, or on the first of none. *)

Row == [model : Catalogue, level : Levels \cup {NoLevel}]
OnRows(i, n) == i <= n \/ i = 1

PickerInv ==
    /\ level \in 0 .. 3 /\ searching \in BOOLEAN /\ query \in Seq(Texts)
    /\ seatIndex \in Nat \ {0} /\ providerIndex \in Nat \ {0} /\ modelIndex \in Nat \ {0}
    /\ searching => level >= 2
    /\ ~searching => query = <<>>
    /\ level >= 1 => seatIndex \in DOMAIN SeatRows
    /\ level >= 2 => providerIndex \in DOMAIN Groups
    /\ OnRows(seatIndex, Len(SeatRows))
    /\ level = 1 => OnRows(providerIndex, Len(Groups))
    /\ level = 2 => OnRows(modelIndex, Len(ModelRows))
    /\ level = 3 => modelIndex \in DOMAIN ModelRows /\ picked = ModelRows[modelIndex]

ConfigInv == config \in Documents \cup {Absent, Malformed} /\ PickerInv

LEMMA FilteredIs ==
    ASSUME NEW offer \in Seq(Row), NEW q
    PROVE  /\ Filtered(offer, q) \in Seq(Row)
           /\ \A k \in DOMAIN Filtered(offer, q) :
                /\ \E i \in DOMAIN offer : Filtered(offer, q)[k] = offer[i]
                /\ Matches(Filtered(offer, q)[k], q)
           /\ (\A i \in DOMAIN offer : Matches(offer[i], q)) => Len(Filtered(offer, q)) = Len(offer)
<1> DEFINE S == {i \in DOMAIN offer : Matches(offer[i], q)}
           kept == Ascending(S)
           n == Cardinality(S)
<1>1. Len(offer) \in Nat /\ DOMAIN offer = 1 .. Len(offer)
  OBVIOUS
<1>2. IsFiniteSet(1 .. Len(offer)) /\ Cardinality(1 .. Len(offer)) = Len(offer)
  BY <1>1, FS_Interval
<1>3. S \subseteq 1 .. Len(offer) /\ S \subseteq Nat
  BY <1>1
<1>4. IsFiniteSet(S)
  BY <1>2, <1>3, FS_Subset
<1>5. \A i \in S : Matches(offer[i], q) /\ i \in DOMAIN offer /\ offer[i] \in Row
  OBVIOUS
<1>6. (\A i \in DOMAIN offer : Matches(offer[i], q)) => n = Len(offer)
  <2>1. (\A i \in DOMAIN offer : Matches(offer[i], q)) => S = 1 .. Len(offer)
    BY <1>1
  <2> QED BY <2>1, <1>2
<1>7. Filtered(offer, q) = [k \in DOMAIN kept |-> offer[kept[k]]]
  BY DEF Filtered
<1> HIDE DEF S
<1>8. n \in Nat /\ DOMAIN kept = 1 .. n /\ \A i \in 1 .. n : kept[i] \in S
  BY <1>3, <1>4, AscendingIs
<1> HIDE DEF n, kept
<1>9. Filtered(offer, q) \in [1 .. n -> Row]
  BY <1>5, <1>7, <1>8
<1>10. Filtered(offer, q) \in Seq(Row) /\ Len(Filtered(offer, q)) = n
  BY <1>8, <1>9
<1>11. \A k \in DOMAIN Filtered(offer, q) :
         /\ \E i \in DOMAIN offer : Filtered(offer, q)[k] = offer[i]
         /\ Matches(Filtered(offer, q)[k], q)
  BY <1>5, <1>7, <1>8
<1> QED BY <1>6, <1>10, <1>11

LEMMA EmptyMatches == \A row \in Row : Matches(row, <<>>)
<1> SUFFICES ASSUME NEW row \in Row PROVE Matches(row, <<>>)
  OBVIOUS
<1>1. Name[row.model] \in Seq(Texts)
  BY RowsAssumption DEF Row
<1>2. 0 \in 0 .. Len(Name[row.model]) - Len(<<>>)
  BY <1>1
<1>3. SubSeq(Name[row.model], 0 + 1, 0 + Len(<<>>)) = <<>>
  BY <1>1
<1> QED BY <1>2, <1>3 DEF Matches

\* The rows at the model level, in and out of the search.
LEMMA RowsFacts ==
    ASSUME providerIndex \in DOMAIN Groups, searching \in BOOLEAN, NEW q, ~searching => q = <<>>
    PROVE  /\ RowsFor(q) \in Seq(Row)
           /\ \A k \in DOMAIN RowsFor(q) :
                /\ \E i \in DOMAIN Groups[providerIndex] : RowsFor(q)[k] = Groups[providerIndex][i]
                /\ Matches(RowsFor(q)[k], q)
<1>1. Groups[providerIndex] \in Seq(Row)
  BY RowsAssumption DEF Row
<1>2. CASE searching
  <2>1. RowsFor(q) = Filtered(Groups[providerIndex], q)
    BY <1>2 DEF RowsFor
  <2> QED BY <1>1, <2>1, FilteredIs
<1>3. CASE ~searching
  <2>1. RowsFor(q) = Groups[providerIndex]
    BY <1>3 DEF RowsFor
  <2>2. \A k \in DOMAIN Groups[providerIndex] : Groups[providerIndex][k] \in Row
    BY <1>1
  <2> QED BY <1>1, <1>3, <2>1, <2>2, EmptyMatches
<1> QED BY <1>2, <1>3

LEMMA WithinIs ==
    ASSUME NEW v \in Int, NEW n \in Nat
    PROVE  Within(v, n) \in Nat \ {0} /\ OnRows(Within(v, n), n)
BY DEF Within, OnRows

LEMMA OnARow ==
    ASSUME NEW i \in Nat \ {0}, NEW n \in Nat, n > 0, OnRows(i, n)
    PROVE  i \in 1 .. n
BY DEF OnRows

LEMMA Offered == PickerInv => PickIsOffered
<1> SUFFICES ASSUME PickerInv, level = 3 PROVE PickIsOffered
  BY DEF PickIsOffered
<1>1. /\ providerIndex \in DOMAIN Groups /\ searching \in BOOLEAN
      /\ ~searching => query = <<>>
      /\ modelIndex \in DOMAIN ModelRows /\ picked = ModelRows[modelIndex]
  BY DEF PickerInv
<1> DEFINE offer == RowsFor(query)
<1>2. offer \in Seq(Row) /\ \A k \in DOMAIN offer :
        /\ \E i \in DOMAIN Groups[providerIndex] : offer[k] = Groups[providerIndex][i]
        /\ Matches(offer[k], query)
  BY <1>1, RowsFacts
<1>3. offer = ModelRows
  BY DEF ModelRows
<1> HIDE DEF offer
<1>4. /\ ModelRows \in Seq(Row)
      /\ \E i \in DOMAIN Groups[providerIndex] : picked = Groups[providerIndex][i]
      /\ Matches(picked, query)
  <2>1. modelIndex \in DOMAIN offer /\ picked = offer[modelIndex]
    BY <1>1, <1>3
  <2>2. /\ \E i \in DOMAIN Groups[providerIndex] : offer[modelIndex] = Groups[providerIndex][i]
        /\ Matches(offer[modelIndex], query)
    BY <1>2, <2>1
  <2>3. offer \in Seq(Row)
    BY <1>2
  <2>4. \E i \in DOMAIN Groups[providerIndex] : picked = Groups[providerIndex][i]
    BY <2>1, <2>2
  <2>5. Matches(picked, query)
    BY <2>1, <2>2, Zenon
  <2>6. ModelRows \in Seq(Row)
    BY <2>3, <1>3
  <2> QED BY <2>4, <2>5, <2>6, Zenon
<1>5. picked \in Row
  <2>1. Groups[providerIndex] \in Seq(Row)
    BY <1>1, RowsAssumption DEF Row
  <2> QED BY <1>4, <2>1
<1>6. Accepts(Selection)
  BY <1>5 DEF Accepts, Selection, Row
<1> QED BY <1>4, <1>6 DEF PickIsOffered

LEMMA SameRows ==
    UNCHANGED <<providerIndex, searching, query>> => ModelRows' = ModelRows
BY DEF ModelRows, RowsFor

LEMMA PickerFrame == PickerInv /\ UNCHANGED pickerVars => PickerInv'
BY SameRows DEF PickerInv, pickerVars

LEMMA TopLevel ==
    ASSUME level' = 0, seatIndex' = 1, providerIndex' = 1, modelIndex' = 1,
           searching' = FALSE, query' = <<>>
    PROVE  PickerInv'
<1>1. searching' \in BOOLEAN /\ ~searching'
  OBVIOUS
<1>2. query' \in Seq(Texts)
  OBVIOUS
<1> QED BY <1>1, <1>2 DEF PickerInv, OnRows

LEMMA StepMoveCursor ==
    ASSUME PickerInv, NEW dir \in {-1, 1}, MoveCursor(dir) PROVE PickerInv'
<1>1. Len(SeatRows) \in Nat /\ Len(Groups) \in Nat /\ DOMAIN SeatRows = 1 .. Len(SeatRows)
  BY RowsAssumption
<1>2. UNCHANGED <<level, picked, searching, query>> /\ level < 3
  BY DEF MoveCursor
<1>3. CASE level = 0
  <2>1. seatIndex' = Within(seatIndex + dir, Len(SeatRows)) /\ UNCHANGED <<providerIndex, modelIndex>>
    BY <1>3 DEF MoveCursor
  <2>2. seatIndex' \in Nat \ {0} /\ OnRows(seatIndex', Len(SeatRows))
    BY <1>1, <2>1, WithinIs DEF PickerInv
  <2> QED BY <1>2, <1>3, <2>1, <2>2 DEF PickerInv
<1>4. CASE level = 1
  <2>1. providerIndex' = Within(providerIndex + dir, Len(Groups)) /\ UNCHANGED <<seatIndex, modelIndex>>
    BY <1>4 DEF MoveCursor
  <2>2. providerIndex' \in Nat \ {0} /\ OnRows(providerIndex', Len(Groups))
    BY <1>1, <2>1, WithinIs DEF PickerInv
  <2> QED BY <1>2, <1>4, <2>1, <2>2 DEF PickerInv
<1>5. CASE level = 2
  <2>1. modelIndex' = Within(modelIndex + dir, Len(ModelRows)) /\ UNCHANGED <<seatIndex, providerIndex>>
    BY <1>5 DEF MoveCursor
  <2>2. Len(ModelRows) \in Nat
    BY <1>5, RowsFacts DEF PickerInv, ModelRows
  <2>3. modelIndex' \in Nat \ {0} /\ OnRows(modelIndex', Len(ModelRows))
    BY <2>1, <2>2, WithinIs DEF PickerInv
  <2>4. ModelRows' = ModelRows
    BY <1>2, <2>1, SameRows
  <2> QED BY <1>2, <1>5, <2>1, <2>3, <2>4 DEF PickerInv
<1> QED BY <1>2, <1>3, <1>4, <1>5 DEF PickerInv

LEMMA StepDescend == ASSUME PickerInv, Descend PROVE PickerInv'
<1>1. Len(SeatRows) \in Nat /\ Len(Groups) \in Nat
      /\ DOMAIN SeatRows = 1 .. Len(SeatRows) /\ DOMAIN Groups = 1 .. Len(Groups)
  BY RowsAssumption
<1>2. level < 3 /\ RowCount > 0 /\ level' = level + 1 /\ seatIndex' = seatIndex
  BY DEF Descend
<1>3. CASE level = 0
  <2>1. Len(SeatRows) > 0
    BY <1>2, <1>3 DEF RowCount
  <2>2. seatIndex \in DOMAIN SeatRows
    BY <1>1, <2>1, OnARow DEF PickerInv
  <2>3. providerIndex' = 1 /\ UNCHANGED <<modelIndex, query>>
    BY <1>3 DEF Descend
  <2>4. ~searching /\ query = <<>>
    BY <1>3 DEF PickerInv
  <2>5. searching' \in BOOLEAN /\ ~searching'
    BY <2>4, Zenon DEF Descend
  <2> QED BY <1>2, <1>3, <2>2, <2>3, <2>4, <2>5 DEF PickerInv, OnRows
<1>4. CASE level = 1
  <2>1. Len(Groups) > 0
    BY <1>2, <1>4 DEF RowCount
  <2>2. providerIndex \in DOMAIN Groups
    BY <1>1, <1>4, <2>1, OnARow DEF PickerInv
  <2>3. modelIndex' = 1 /\ query' = <<>> /\ providerIndex' = providerIndex
    BY <1>4 DEF Descend
  <2>4. searching' = (searching /\ level # 1)
    BY DEF Descend
  <2>5. searching' \in BOOLEAN /\ ~searching'
    BY <1>4, <2>4, Zenon
  <2>6. <<>> \in Seq(Texts) /\ level' = 2
    BY <1>2, <1>4
  <2> QED BY <1>2, <1>4, <2>2, <2>3, <2>5, <2>6 DEF PickerInv, OnRows
<1>5. CASE level = 2
  <2>1. Len(ModelRows) > 0
    BY <1>2, <1>5 DEF RowCount
  <2>2. ModelRows \in Seq(Row)
    BY <1>5, RowsFacts DEF PickerInv, ModelRows
  <2>3. modelIndex \in DOMAIN ModelRows
    BY <1>5, <2>1, <2>2, OnARow DEF PickerInv
  <2>4. UNCHANGED <<providerIndex, modelIndex, query>> /\ searching' = searching
    BY <1>5 DEF Descend, PickerInv
  <2>5. picked' = ModelRows[modelIndex] /\ ModelRows' = ModelRows
    BY <1>5, <2>3, <2>4, SameRows DEF Descend, RowUnderCursor
  <2> QED BY <1>2, <1>5, <2>3, <2>4, <2>5 DEF PickerInv
<1> QED BY <1>2, <1>3, <1>4, <1>5 DEF PickerInv

LEMMA StepSetQuery ==
    ASSUME PickerInv, Searching, NEW q \in Seq(Texts), NEW focus, SetQuery(q, focus) PROVE PickerInv'
<1>1. level = 2 /\ searching
  BY DEF Searching
<1>2. /\ query' = q /\ modelIndex' = Within(modelIndex, Len(RowsFor(q)))
      /\ UNCHANGED <<opened, level, seatIndex, providerIndex, picked, searching>>
  BY DEF SetQuery, cursorVars, Reclamped
<1>3. ModelRows' = RowsFor(q)
  BY <1>2 DEF ModelRows, RowsFor
<1>4. Len(RowsFor(q)) \in Nat
  BY <1>1, RowsFacts DEF PickerInv
<1>5. modelIndex' \in Nat \ {0} /\ OnRows(modelIndex', Len(ModelRows'))
  BY <1>2, <1>3, <1>4, WithinIs DEF PickerInv
<1> QED BY <1>1, <1>2, <1>5 DEF PickerInv

LEMMA StepAscend == ASSUME PickerInv, Ascend PROVE PickerInv'
<1>1. CASE Searching /\ inputFocused
  <2>1. SetQuery(<<>>, TRUE)
    BY <1>1, Zenon DEF Ascend
  <2>2. <<>> \in Seq(Texts)
    OBVIOUS
  <2> QED BY <1>1, <2>1, <2>2, StepSetQuery
<1>2. CASE ~(Searching /\ inputFocused) /\ level = 0
  BY <1>2, TopLevel DEF Ascend, Close
<1>3. CASE ~(Searching /\ inputFocused) /\ level # 0
  <2>1. /\ level' = level - 1 /\ seatIndex' = seatIndex
        /\ searching' = (searching /\ ~Searching)
        /\ query' = IF Searching THEN <<>> ELSE query
        /\ providerIndex' = IF level = 1 THEN 1 ELSE providerIndex
        /\ modelIndex' = IF level = 2 THEN 1 ELSE modelIndex
    BY <1>3 DEF Ascend
  <2>2. CASE level = 1
    BY <2>1, <2>2 DEF PickerInv, Searching
  <2>3. CASE level = 2
    <3>1. searching' = FALSE /\ query' = <<>>
      BY <2>1, <2>3 DEF PickerInv, Searching
    <3>2. OnRows(providerIndex, Len(Groups))
      BY <2>3, RowsAssumption DEF PickerInv, OnRows
    <3> QED BY <2>1, <2>3, <3>1, <3>2 DEF PickerInv
  <2>4. CASE level = 3
    <3>1. UNCHANGED <<searching, query, providerIndex, modelIndex>>
      BY <2>1, <2>4 DEF PickerInv, Searching
    <3>2. ModelRows' = ModelRows
      BY <3>1, SameRows
    <3>3. ModelRows \in Seq(Row)
      BY <2>4, RowsFacts DEF PickerInv, ModelRows
    <3>4. OnRows(modelIndex, Len(ModelRows))
      BY <2>4, <3>3 DEF PickerInv, OnRows
    <3> QED BY <2>1, <2>4, <3>1, <3>2, <3>4 DEF PickerInv
  <2> QED BY <1>3, <2>2, <2>3, <2>4 DEF PickerInv
<1> QED BY <1>1, <1>2, <1>3

LEMMA StepStartSearch == ASSUME PickerInv, StartSearch PROVE PickerInv'
<1>1. /\ level = 2 /\ ~searching /\ searching' = TRUE /\ query = <<>>
      /\ UNCHANGED <<level, seatIndex, providerIndex, picked, modelIndex, query>>
  BY DEF StartSearch, cursorVars, PickerInv
<1>2. providerIndex \in DOMAIN Groups /\ Groups[providerIndex] \in Seq(Row)
  BY <1>1, RowsAssumption DEF PickerInv, Row
<1>3. ModelRows = Groups[providerIndex] /\ ModelRows' = Filtered(Groups[providerIndex], <<>>)
  BY <1>1, <1>2 DEF ModelRows, RowsFor
<1>4. \A i \in DOMAIN Groups[providerIndex] : Groups[providerIndex][i] \in Row
  BY <1>2
<1>5. Len(ModelRows') = Len(ModelRows)
  BY <1>2, <1>3, <1>4, EmptyMatches, FilteredIs
<1> QED BY <1>1, <1>5 DEF PickerInv

LEMMA StepPickerKey == ASSUME PickerInv, PickerKey PROVE PickerInv'
<1>1. ASSUME NEW l \in Letters, Type(l) PROVE PickerInv'
  <2>1. l \in Texts
    BY RowsAssumption
  <2>2. Append(query, l) \in Seq(Texts)
    BY <2>1 DEF PickerInv
  <2> QED BY <1>1, <2>2, StepSetQuery DEF Type
<1>2. CASE Backspace
  <2>1. Front(query) \in Seq(Texts)
    BY <1>2 DEF Front, PickerInv, Backspace
  <2> QED BY <1>2, <2>1, StepSetQuery DEF Backspace
<1> QED BY <1>1, <1>2, StepMoveCursor, StepDescend, StepAscend, StepStartSearch DEF PickerKey

-----------------------------------------------------------------------------
(* The session. *)

\* What a write of ours does to the file.
LEMMA SelectionSeat == ASSUME PickerInv, level = 3 PROVE Selection.seat \in Texts
<1>1. seatIndex \in DOMAIN SeatRows
  BY DEF PickerInv
<1>2. SeatRows[seatIndex] \in Seats
  BY <1>1, RowsAssumption
<1> QED BY <1>2, NamesAssumption DEF Selection

LEMMA WriteSeatIs ==
    ASSUME ConfigInv, NEW s \in Texts, NEW sel, WriteSeat(s, sel)
    PROVE  /\ config' \in Documents \cup {Absent, Malformed}
           /\ ~AtLineStart(config) => WrittenAs(s, sel)
<1>1. Accepts(sel) /\ Spliceable(config) /\ config' = SeatWritten(config, s, sel)
  BY DEF WriteSeat, Writes, Lands
<1> QED BY <1>1, SeatWrittenIs DEF ConfigInv

LEMMA ClearIs ==
    ASSUME ConfigInv, NEW s \in Seats, NEW what \in {"thinking", "seat"}, Clear(s, what)
    PROVE  /\ config' \in Documents
           /\ OthersUntouched(s)
           /\ Unique(config) /\ what = "seat" => OverrideOf(config', s) = Frontmatter[s]
           /\ Unique(config) /\ what = "thinking" /\ OverrideOf(config', s) # Broken =>
                OverrideOf(config', s).thinking = Frontmatter[s].thinking
<1>1. /\ Spliceable(config) /\ SeatCleared(config, s, what) # config
      /\ config' = SeatCleared(config, s, what)
  BY DEF Clear, Writes, Lands
<1> QED BY <1>1, SeatClearedIs DEF ConfigInv

LEMMA GateIs ==
    ASSUME ConfigInv, NEW mode \in ToSet(GateModes), GateCommand(mode)
    PROVE  /\ config' \in Documents
           /\ LoadGate(config') = mode /\ LoadTheme(config') = LoadTheme(config)
           /\ \A s \in Seats : OverrideOf(config', s) = OverrideOf(config, s)
<1>1. /\ LoadGate(config) # "bad" /\ LoadGate(config) # mode
      /\ config' = GateWritten(config, mode)
  BY DEF GateCommand, Writes, Lands
<1> QED BY <1>1, GateWrittenIs DEF ConfigInv

LEMMA InitConfig == ConfigInit => ConfigInv
<1> SUFFICES ASSUME ConfigInit PROVE ConfigInv
  OBVIOUS
<1>1. config \in Documents
  BY DocsAssumption DEF ConfigInit
<1>2. /\ level = 0 /\ seatIndex = 1 /\ providerIndex = 1 /\ modelIndex = 1
      /\ searching = FALSE /\ query = <<>>
  BY DEF ConfigInit, PickerInit
<1>3. searching \in BOOLEAN /\ ~searching
  BY <1>2
<1>4. query \in Seq(Texts)
  BY <1>2
<1> QED BY <1>1, <1>2, <1>3, <1>4 DEF ConfigInv, PickerInv, OnRows

LEMMA NextConfig == ConfigInv /\ [ConfigNext]_sessionVars => ConfigInv'
<1> SUFFICES ASSUME ConfigInv, [ConfigNext]_sessionVars PROVE ConfigInv'
  OBVIOUS
<1> DEFINE Kept == UNCHANGED pickerVars => PickerInv'
<1>0. Kept /\ (UNCHANGED config => config' \in Documents \cup {Absent, Malformed})
  BY PickerFrame DEF ConfigInv
<1> HIDE DEF Kept
<1>1. CASE UserSaves
  <2>1. UNCHANGED pickerVars /\ config' \in Docs \cup {Absent, Malformed}
    BY <1>1 DEF UserSaves, Lands
  <2> QED BY <2>1, <1>0, DocsAssumption DEF ConfigInv, Kept
<1>2. CASE OpenPicker
  <2>1. PickerInv'
    BY <1>2, TopLevel DEF OpenPicker, Open
  <2>2. UNCHANGED config
    BY <1>2 DEF OpenPicker, configVars
  <2> QED BY <2>1, <2>2, <1>0 DEF ConfigInv
<1>3. CASE Confirm
  <2>1. PickerInv'
    BY <1>3, TopLevel DEF Confirm, Close
  <2>2. WriteSeat(Selection.seat, Selection) /\ level = 3
    BY <1>3 DEF Confirm
  <2>3. config' \in Documents \cup {Absent, Malformed}
    BY <2>2, SelectionSeat, WriteSeatIs DEF ConfigInv
  <2> QED BY <2>1, <2>3 DEF ConfigInv
<1>4. CASE ConfirmRefused
  <2>1. PickerInv'
    BY <1>4, TopLevel DEF ConfirmRefused, Close
  <2>2. UNCHANGED config
    BY <1>4 DEF ConfirmRefused, configVars
  <2> QED BY <2>1, <2>2, <1>0 DEF ConfigInv
<1>5. CASE PickerKey /\ UNCHANGED <<configVars, watchVars>>
  <2>1. UNCHANGED config
    BY <1>5 DEF configVars
  <2> QED BY <1>5, <2>1, <1>0, StepPickerKey DEF ConfigInv
<1>6. ASSUME NEW s \in Seats, NEW c \in Typed, Headless(s, c) PROVE ConfigInv'
  <2>1. UNCHANGED pickerVars /\ WriteSeat(s, c)
    BY <1>6 DEF Headless
  <2>2. s \in Texts
    BY NamesAssumption
  <2>3. config' \in Documents \cup {Absent, Malformed}
    BY <2>1, <2>2, WriteSeatIs
  <2> QED BY <2>1, <2>3, <1>0 DEF ConfigInv, Kept
<1>7. ASSUME NEW s \in Seats, NEW what \in {"thinking", "seat"}, Clear(s, what) PROVE ConfigInv'
  <2>1. UNCHANGED pickerVars
    BY <1>7 DEF Clear
  <2> QED BY <1>7, <2>1, <1>0, ClearIs DEF ConfigInv, Kept
<1>8. ASSUME NEW mode \in ToSet(GateModes), GateCommand(mode) PROVE ConfigInv'
  <2>1. UNCHANGED pickerVars
    BY <1>8 DEF GateCommand
  <2> QED BY <1>8, <2>1, <1>0, GateIs DEF ConfigInv, Kept
<1>9. ASSUME UNCHANGED <<pickerVars, configVars>> PROVE ConfigInv'
  BY <1>9, <1>0 DEF ConfigInv, Kept, configVars
<1>10. CASE \/ \E how \in {"rename", "change"} : Deliver(how)
            \/ Rearm \/ Reload \/ Activated
  BY <1>9, <1>10 DEF Deliver, Rearm, Reload, Activated, Watching
<1>11. CASE Shutdown
  BY <1>9, <1>11 DEF Shutdown
<1>12. CASE UNCHANGED sessionVars
  BY <1>9, <1>12 DEF sessionVars
<1> QED BY <1>1, <1>2, <1>3, <1>4, <1>5, <1>6, <1>7, <1>8, <1>10, <1>11, <1>12 DEF ConfigNext

(* Whatever is typed, searched and left, and whatever the user does to the
   file meanwhile, the picker hands the writer a row that the provider offers
   and the search lets through, with a model of the catalogue and a level the
   writer knows. *)
THEOREM PickOffered == ConfigSpec => []PickIsOffered
<1>1. ConfigInv => PickIsOffered
  BY Offered DEF ConfigInv
<1> QED BY <1>1, InitConfig, NextConfig, PTL DEF ConfigSpec

(* For every document, also with duplicated keys, unknown levels or sections
   of the wrong kind: what is written for a seat is what the loader resolves
   next, the thinking it had is kept when none was chosen, and no other seat,
   theme or gate reads differently.  (The insertion before the root's brace
   is excepted.) *)
THEOREM SeatWriteExact == ConfigSpec => SeatWriteIsExact
<1> DEFINE Exact == writes' # writes /\ ~AtLineStart(config) =>
         /\ Confirm => WrittenAs(Selection.seat, Selection)
         /\ \A s \in Seats, c \in Typed : Headless(s, c) => WrittenAs(s, c)
<1>1. ASSUME ConfigInv PROVE Exact
  <2> SUFFICES ASSUME ~AtLineStart(config)
               PROVE  /\ Confirm => WrittenAs(Selection.seat, Selection)
                      /\ \A s \in Seats, c \in Typed : Headless(s, c) => WrittenAs(s, c)
    OBVIOUS
  <2>1. ASSUME Confirm PROVE WrittenAs(Selection.seat, Selection)
    <3>1. WriteSeat(Selection.seat, Selection) /\ level = 3
      BY <2>1 DEF Confirm
    <3>2. Selection.seat \in Texts
      BY <1>1, <3>1, SelectionSeat DEF ConfigInv
    <3> QED BY <1>1, <3>1, <3>2, WriteSeatIs
  <2>2. ASSUME NEW s \in Seats, NEW c \in Typed, Headless(s, c) PROVE WrittenAs(s, c)
    <3>1. WriteSeat(s, c) /\ s \in Texts
      BY <2>2, NamesAssumption DEF Headless
    <3> QED BY <1>1, <3>1, WriteSeatIs
  <2> QED BY <2>1, <2>2
<1> QED BY <1>1, InitConfig, NextConfig, PTL DEF ConfigSpec, SeatWriteIsExact

(* In a file without duplicated keys what is cleared is gone for the loader; a
   gate mode set is the one read next; in any file neither changes what a
   loader makes of the rest. *)
THEOREM ClearAndGateExact == ConfigSpec => ClearAndGateAreExact
<1> DEFINE Exact == writes' # writes =>
       /\ \A s \in Seats : Unique(config) =>
            /\ Clear(s, "seat") => OverrideOf(config', s) = Frontmatter[s] /\ OthersUntouched(s)
            /\ Clear(s, "thinking") =>
                 /\ OthersUntouched(s)
                 /\ OverrideOf(config', s) # Broken =>
                      OverrideOf(config', s).thinking = Frontmatter[s].thinking
       /\ \A mode \in ToSet(GateModes) : GateCommand(mode) =>
            /\ LoadGate(config') = mode /\ LoadTheme(config') = LoadTheme(config)
            /\ \A s \in Seats : OverrideOf(config', s) = OverrideOf(config, s)
<1>1. ASSUME ConfigInv PROVE Exact
  <2>1. ASSUME NEW s \in Seats, Unique(config), Clear(s, "seat")
        PROVE  OverrideOf(config', s) = Frontmatter[s] /\ OthersUntouched(s)
    BY <1>1, <2>1, ClearIs
  <2>2. ASSUME NEW s \in Seats, Unique(config), Clear(s, "thinking")
        PROVE  /\ OthersUntouched(s)
               /\ OverrideOf(config', s) # Broken =>
                    OverrideOf(config', s).thinking = Frontmatter[s].thinking
    BY <1>1, <2>2, ClearIs
  <2>3. ASSUME NEW mode \in ToSet(GateModes), GateCommand(mode)
        PROVE  /\ LoadGate(config') = mode /\ LoadTheme(config') = LoadTheme(config)
               /\ \A s \in Seats : OverrideOf(config', s) = OverrideOf(config, s)
    BY <1>1, <2>3, GateIs
  <2> QED BY <2>1, <2>2, <2>3
<1> QED BY <1>1, InitConfig, NextConfig, PTL DEF ConfigSpec, ClearAndGateAreExact
===============================================================================
