------------------------------ MODULE MergePath ------------------------------
(***************************************************************************)
(* The way of a card from its dispatch to the merge check: the manifests   *)
(* the hubs of a run write (hub.ts, runs.ts), the execution mode read back *)
(* from them (readCardMode of gate-route.ts) and the criteria the mode     *)
(* asks for (merge-check.ts).                                              *)
(*                                                                         *)
(* An id is the path of its dispatches: the session numbers its own <<1>>, *)
(* <<2>>, a runner numbers what it dispatches <<1, 1>>, <<1, 2>>.  Every   *)
(* process counts for itself and from 1, so the second attempt of a runner *)
(* gives the ids of the first one again, and a manifest is named after the *)
(* id.  A manifest keeps what the read looks at; its state, its usage and  *)
(* its attempts are the subject of Hub.                                    *)
(***************************************************************************)
EXTENDS Integers, FiniteSets, Sequences

CONSTANTS
    Cards,
    Stray,          \* owner of the session's dispatches that belong to no card
    Generators,     \* principal, designer, consolidator
    OtherSeats,     \* the seats whose dispatch says nothing about the mode
    Runner,         \* council-runner
    None,
    MaxDispatches,  \* bound: dispatches of the run
    MaxRetries      \* bound: second attempts of runners

Modes == {"Deliberate", "Verify", "Direct"}
Seats == Generators \cup OtherSeats \cup {Runner}

ASSUME SeatsAssumption == Generators \cap (OtherSeats \cup {Runner}) = {}
ASSUME NoneAssumption == None \notin Modes
ASSUME StrayAssumption == Stray \notin Cards

VARIABLES
    manifest,   \* the manifests of the run directory, by id
    next,       \* the next number each process will give out, by path
    roots,      \* the ids of a card's runners, as the lead keeps them
    made,       \* history: every dispatch, and whom it was for
    retries

vars == <<manifest, next, roots, made, retries>>

Session == <<>>

Observation ==
    [gates : BOOLEAN, workflow : BOOLEAN, unopposed : BOOLEAN,
     goal : {"PASS", "REJECT", None}, settled : BOOLEAN]

Init ==
    /\ manifest = <<>> /\ next = [p \in {Session} |-> 1] /\ roots = [c \in Cards |-> {}]
    /\ made = {} /\ retries = 0

-----------------------------------------------------------------------------
(* readCardMode. *)

Rank == [Deliberate |-> 0, Verify |-> 1, Direct |-> 2]

AtLeast(a, b) == Rank[a] <= Rank[b]

\* Faulty: the weakest of the modes.
Weakest(S) == CHOOSE m \in S : \A n \in S : AtLeast(n, m)

Strongest(S) == CHOOSE m \in S : \A n \in S : AtLeast(m, n)

\* Faulty: every manifest of the run.
WholeRun(ms, ids) == DOMAIN ms

\* The manifests reached from the roots along parentJobId.
Subtree(ms, ids) ==
    {i \in DOMAIN ms : \A S \in SUBSET DOMAIN ms :
        (/\ ids \cap DOMAIN ms \subseteq S
         /\ \A k \in DOMAIN ms : ms[k].parent \in S => k \in S) => i \in S}

Generates(ms, ids) == \E i \in Subtree(ms, ids) : ms[i].seat \in Generators

RootModes(ms, ids) == {ms[i].mode : i \in ids \cap DOMAIN ms} \cap Modes

CardMode(ms, ids) ==
    IF ids \cap DOMAIN ms = {} THEN "no-root"
    ELSE IF Generates(ms, ids) THEN "Deliberate"
    ELSE IF RootModes(ms, ids) = {} THEN "no-recorded-mode"
    ELSE Strongest(RootModes(ms, ids))

Read(c) == CardMode(manifest, roots[c])

-----------------------------------------------------------------------------
(* Dispatches.  A process numbers its own; writeManifest replaces a file.  *)

Dispatch(path, seat, mode, for) ==
    LET id == Append(path, next[path])
        new == [parent |-> path, seat |-> seat, mode |-> mode]
    IN  /\ Cardinality(made) < MaxDispatches
        /\ manifest' = [i \in DOMAIN manifest \cup {id} |-> IF i = id THEN new ELSE manifest[i]]
        /\ next' = [p \in DOMAIN next \cup {id} |->
                       IF p = id THEN 1 ELSE IF p = path THEN next[p] + 1 ELSE next[p]]
        /\ made' = made \cup {[id |-> id, seat |-> seat, mode |-> mode, for |-> for]}
        /\ UNCHANGED retries

\* The lead dispatches the runner of a card, again after an escalation, with
\* the mode the routing named, or none.
DispatchRunner(c, mode) ==
    /\ Dispatch(Session, Runner, mode, c)
    /\ roots' = [roots EXCEPT ![c] = @ \cup {<<next[Session]>>}]

\* A dispatch of the session itself: an attended council, an evaluation.
DispatchStray(seat) ==
    /\ Dispatch(Session, seat, None, Stray)
    /\ UNCHANGED roots

\* A runner dispatches a seat; the mode is never inherited.
DispatchSeat(c, r, seat) ==
    /\ r \in roots[c]
    /\ Dispatch(r, seat, None, c)
    /\ UNCHANGED roots

\* The runner's next attempt is a new process: it counts from 1 again.  Its
\* own manifest is written with the seat and the mode it had.
Retry(c, r) ==
    /\ r \in roots[c] /\ retries < MaxRetries
    /\ retries' = retries + 1
    /\ next' = [next EXCEPT ![r] = 1]
    /\ UNCHANGED <<manifest, roots, made>>

Next ==
    \/ \E c \in Cards, mode \in Modes \cup {None} : DispatchRunner(c, mode)
    \/ \E seat \in Generators \cup OtherSeats : DispatchStray(seat)
    \/ \E c \in Cards : \E r \in roots[c], seat \in Generators \cup OtherSeats : DispatchSeat(c, r, seat)
    \/ \E c \in Cards : \E r \in roots[c] : Retry(c, r)

Spec == Init /\ [][Next]_vars

-----------------------------------------------------------------------------
(* evaluateMergeCheck. *)

\* Faulty: Verify drops the judge and the skeptic too.
CriteriaOfReduced(mode) == IF mode \in {"Verify", "Direct"} THEN {1, 2, 5} ELSE 1 .. 5

MergeCriteriaFor(mode) == IF mode = "Direct" THEN {1, 2, 5} ELSE 1 .. 5

Holds(obs) == <<obs.gates, obs.workflow, obs.unopposed, obs.goal = "PASS", obs.settled>>

Merges(mode, obs) ==
    /\ mode \in Modes
    /\ mode = "Direct" \/ obs.goal # None
    /\ \A n \in MergeCriteriaFor(mode) : Holds(obs)[n]

-----------------------------------------------------------------------------
\* The dispatch's manifest is still its own.
Kept(d) == manifest[d.id].seat = d.seat /\ manifest[d.id].mode = d.mode

DispatchesOf(c) == {d \in made : d.for = c}

\* The merge check lets a card through only with the gates, the workflow and
\* no open ruling; and with no passing judge, or over a skeptic's objection,
\* only a card that was routed Direct, by every runner that had a mode, and
\* for which nobody dispatched a generator, in whatever order all this came
\* (merge-check.ts, gate-route.ts).  Manifests a second attempt replaced do
\* not count.
MergedOnEvidence ==
    \A c \in Cards, obs \in Observation : Merges(Read(c), obs) =>
        /\ obs.gates /\ obs.workflow /\ obs.settled
        /\ obs.goal # "PASS" \/ ~obs.unopposed =>
               LET kept == {d \in DispatchesOf(c) : Kept(d)}
               IN  /\ \E d \in kept : d.mode = "Direct"
                   /\ \A d \in kept : d.seat \notin Generators /\ d.mode \in {"Direct", None}

\* Nothing is replaced.
Grows == \A i \in DOMAIN manifest : i \in DOMAIN manifest' /\ manifest'[i] = manifest[i]

\* Once the mode of a card can be read, a step that replaces no manifest
\* leaves it as strong as it was: escalation only, whichever runner, seat or
\* attempt wrote (readCardMode, over the runs of spawnJob).
ModeOnlyStrengthens ==
    [][Grows => \A c \in Cards : Read(c) \in Modes =>
           Read(c)' \in Modes /\ AtLeast(Read(c)', Read(c))]_vars

\* What a card reads depends on its own dispatches alone: a sibling's forest
\* and the session's own dispatches of the same run never change it.
ForestsApart ==
    \A c \in Cards :
        LET own == {d.id : d \in DispatchesOf(c)}
        IN  Read(c) = CardMode([i \in own |-> manifest[i]], roots[c])

\* "Deliberate iff the union contains >= 1 generator dispatch".
GeneratorIsSeen ==
    \A c \in Cards :
        (\E d \in DispatchesOf(c) : d.seat \in Generators) => Read(c) = "Deliberate"
=============================================================================
