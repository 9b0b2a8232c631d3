------------------------------- MODULE Dispatch -------------------------------
(***************************************************************************)
(* What council_dispatch promises about one job id, without processes,     *)
(* timers, signals and files: a dispatch makes one attempt at a time and   *)
(* at most MaxAttempts of them; between two attempts it waits; once it has *)
(* ended it stays ended; and the prompt directory every attempt reads is   *)
(* there exactly as long as an attempt runs or may still come.             *)
(***************************************************************************)
EXTENDS Integers

CONSTANTS Jobs, MaxAttempts

VARIABLES
    phase,   \* "idle", "live", "waiting" or "ended"
    made,    \* the attempts made so far
    prompt   \* the prompt directory exists

dispatchVars == <<phase, made, prompt>>

Init ==
    /\ phase = [j \in Jobs |-> "idle"]
    /\ made = [j \in Jobs |-> 0]
    /\ prompt = [j \in Jobs |-> FALSE]

Start(j) ==
    /\ phase[j] = "idle"
    /\ phase' = [phase EXCEPT ![j] = "live"]
    /\ made' = [made EXCEPT ![j] = 1]
    /\ prompt' = [prompt EXCEPT ![j] = TRUE]

Wait(j) ==
    /\ phase[j] = "live"
    /\ made[j] < MaxAttempts
    /\ phase' = [phase EXCEPT ![j] = "waiting"]
    /\ UNCHANGED <<made, prompt>>

Again(j) ==
    /\ phase[j] = "waiting"
    /\ phase' = [phase EXCEPT ![j] = "live"]
    /\ made' = [made EXCEPT ![j] = @ + 1]
    /\ UNCHANGED prompt

\* An attempt ends for good, or waiting dispatches are given up together.
End(S) ==
    /\ S # {}
    /\ \/ \E j \in S : S = {j} /\ phase[j] = "live"
       \/ \A j \in S : phase[j] = "waiting"
    /\ phase' = [j \in Jobs |-> IF j \in S THEN "ended" ELSE phase[j]]
    /\ prompt' = [j \in Jobs |-> prompt[j] /\ j \notin S]
    /\ UNCHANGED made

Next ==
    \/ \E j \in Jobs : Start(j) \/ Wait(j) \/ Again(j)
    \/ \E S \in SUBSET Jobs : End(S)

Spec == Init /\ [][Next]_dispatchVars
=============================================================================
