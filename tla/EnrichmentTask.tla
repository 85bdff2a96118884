--------------------------- MODULE EnrichmentTask ---------------------------
(***************************************************************************)
(* What the enrichment outbox promises, without workers, leases, attempts  *)
(* or settings requests: every capture has one task that runs at most one  *)
(* at a time, is completed only after its work was done (or was not        *)
(* wanted), and never leaves a final stage, except that all the tasks      *)
(* skipped for lack of consent may be reopened together.                   *)
(***************************************************************************)
CONSTANT Captures

VARIABLES
  stage,     \* how far the task of each capture is
  consent,   \* the consent the task carries
  exempt,    \* the capture asked for no AI, whatever the consent
  worked     \* the work was done as a whole

vars == <<stage, consent, exempt, worked>>

Stages == {"absent", "waiting", "running", "done", "failed", "cancelled"}

Init ==
  /\ stage = [c \in Captures |-> "absent"]
  /\ consent = [c \in Captures |-> FALSE]
  /\ exempt = [c \in Captures |-> FALSE]
  /\ worked = [c \in Captures |-> FALSE]

Submit(c) ==
  /\ stage[c] = "absent"
  /\ stage' = [stage EXCEPT ![c] = "waiting"]
  /\ \E given, no \in BOOLEAN :
        /\ consent' = [consent EXCEPT ![c] = given]
        /\ exempt' = [exempt EXCEPT ![c] = no]
  /\ UNCHANGED worked

\* Several waiting tasks start together.
Start(S) ==
  /\ \A c \in S : stage[c] = "waiting"
  /\ stage' = [c \in Captures |-> IF c \in S THEN "running" ELSE stage[c]]
  /\ UNCHANGED <<consent, exempt, worked>>

Wanted(c) == consent[c] /\ ~exempt[c]

Work(c) ==
  /\ stage[c] = "running" /\ Wanted(c)
  /\ worked' = [worked EXCEPT ![c] = TRUE]
  /\ UNCHANGED <<stage, consent, exempt>>

\* A task is done when its work is, or when there was none to do.
Complete(c) ==
  /\ stage[c] = "running" /\ (Wanted(c) => worked[c])
  /\ stage' = [stage EXCEPT ![c] = "done"]
  /\ UNCHANGED <<consent, exempt, worked>>

\* An unsuccessful run waits for another one, or was the last.
GiveUp(c) ==
  /\ stage[c] = "running" /\ Wanted(c)
  /\ \E s \in {"waiting", "failed"} : stage' = [stage EXCEPT ![c] = s]
  /\ UNCHANGED <<consent, exempt, worked>>

CancelWaiting ==
  /\ stage' = [c \in Captures |-> IF stage[c] = "waiting" THEN "cancelled" ELSE stage[c]]
  /\ UNCHANGED <<consent, exempt, worked>>

ReopenSkipped ==
  LET skipped == {c \in Captures : stage[c] = "done" /\ ~consent[c]} IN
  /\ stage' = [c \in Captures |-> IF c \in skipped THEN "waiting" ELSE stage[c]]
  /\ consent' = [c \in Captures |-> c \in skipped \/ consent[c]]
  /\ UNCHANGED <<exempt, worked>>

Next ==
  \/ \E c \in Captures : Submit(c) \/ Work(c) \/ Complete(c) \/ GiveUp(c)
  \/ \E S \in SUBSET Captures : Start(S)
  \/ CancelWaiting \/ ReopenSkipped

Spec == Init /\ [][Next]_vars
=============================================================================
