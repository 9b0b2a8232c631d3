------------------------------ MODULE EditorSlot ------------------------------
(***************************************************************************)
(* The host has one editor slot.  The inline job tree and the retry of the *)
(* session's turns both put an editor of their own into it, composed over  *)
(* the factory that was there (installTreeEditor of focus-nav.ts,          *)
(* installRetryEditor of parent-retry.ts), and each remembers in a module  *)
(* variable what it composed over.  An editor reads that variable when it  *)
(* is built, not when it is installed, so what is live depends on both     *)
(* variables at the last call of setEditorComponent.                       *)
(*                                                                         *)
(* A retry editor's factory is compared with the installed one only, so    *)
(* every older one is the single value "stale".                            *)
(***************************************************************************)
EXTENDS Naturals, Sequences

VARIABLES
    slot,              \* the factory in the host's slot
    treePrior,         \* installedPrior of focus-nav.ts
    retryInstalled,    \* installedRetryFactory is set
    retryPrior,        \* installedRetryPrior of parent-retry.ts
    live,              \* the layers of the editor that was built, outermost first
    endless            \* building an editor never ended (a RangeError)

slotVars == <<slot, treePrior, retryInstalled, retryPrior, live, endless>>

\* "default" is an undefined factory: the host's own editor.  "other" is the
\* editor of another extension.
Factories == {"default", "other", "tree", "retry", "stale"}

SlotTypeOK ==
    /\ slot \in Factories /\ treePrior \in Factories /\ retryPrior \in Factories
    /\ retryInstalled \in BOOLEAN /\ endless \in BOOLEAN
    /\ live \in Seq({"tree", "retry"}) /\ Len(live) <= 2

SlotInit ==
    /\ slot \in {"default", "other"} /\ treePrior = "default"
    /\ retryInstalled = FALSE /\ retryPrior = "default"
    /\ live = <<>> /\ endless = FALSE

Composes(f) == f \in {"tree", "retry", "stale"}
Layer(f) == IF f = "tree" THEN "tree" ELSE "retry"

\* What the constructor of f's editor builds inside it.
Under(f, tp, rp) == IF f = "tree" THEN tp ELSE rp

\* Building f with the two module variables at tp and rp ends when it meets a
\* factory that composes over nothing; there are two kinds of layer, so it
\* ends within two of them or never.
Built(f, tp, rp) ==
    LET g == Under(f, tp, rp)
        h == Under(g, tp, rp)
    IN  IF ~Composes(f) THEN [layers |-> <<>>, ends |-> TRUE]
        ELSE IF ~Composes(g) THEN [layers |-> <<Layer(f)>>, ends |-> TRUE]
        ELSE [layers |-> <<Layer(f), Layer(g)>>, ends |-> ~Composes(h)]

SetEditorComponent(f, tp, rp) ==
    LET b == Built(f, tp, rp)
    IN  /\ slot' = f
        /\ endless' = ~b.ends
        /\ live' = IF b.ends THEN b.layers ELSE live

(* installTreeEditor and restoreTreeEditor: unconditional. *)
InstallTree ==
    /\ treePrior' = slot
    /\ SetEditorComponent("tree", slot, retryPrior)
    /\ UNCHANGED <<retryInstalled, retryPrior>>

RestoreTree ==
    /\ SetEditorComponent(treePrior, treePrior, retryPrior)
    /\ treePrior' = "default"
    /\ UNCHANGED <<retryInstalled, retryPrior>>

(* installRetryEditor: idempotent while installed. *)
InstallRetry ==
    IF retryInstalled THEN UNCHANGED slotVars
    ELSE /\ retryPrior' = slot /\ retryInstalled' = TRUE
         /\ SetEditorComponent("retry", treePrior, slot)
         /\ UNCHANGED treePrior

Aged(f) == IF f = "retry" THEN "stale" ELSE f

(* restoreRetryEditor: the slot is given back only if it still holds the
   installed factory; the references are dropped in any case. *)
Unchecked == TRUE           \* Faulty: gives the slot back whatever it holds
StillOurs == slot = "retry"

RestoreRetry ==
    IF ~retryInstalled THEN UNCHANGED slotVars
    ELSE /\ IF StillOurs THEN SetEditorComponent(retryPrior, treePrior, retryPrior)
                         ELSE UNCHANGED <<slot, live, endless>>
         /\ treePrior' = Aged(treePrior)
         /\ retryInstalled' = FALSE /\ retryPrior' = "default"
=============================================================================
