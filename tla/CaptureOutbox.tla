--------------------------- MODULE CaptureOutbox ---------------------------
(***************************************************************************)
(* The enrichment outbox of WeaveBrain, for one user: captures are         *)
(* inserted together with one outbox event that carries a snapshot of the  *)
(* user's AI consent; polling workers claim due events in batches, enrich  *)
(* or skip each one and record the outcome; settings requests switch the   *)
(* consent and cancel, or re-enqueue, events.                              *)
(*                                                                         *)
(* Every action is one database statement, one pipeline call, or the       *)
(* passing of time: the code holds no transaction across two of them.      *)
(* Users do not interact (each statement filters on user_id), so one is    *)
(* modelled.                                                               *)
(*                                                                         *)
(* Time is abstract.  "due" says that next_run_at has passed, "stale" that *)
(* updated_at is older than the claim lease.  A worker's batch is a set:   *)
(* UPDATE ... RETURNING promises no order.                                 *)
(***************************************************************************)
EXTENDS Naturals, FiniteSets

CONSTANTS
  Captures,         \* capture ids, each with at most one outbox event
  Workers,          \* outbox workers, one per server process
  Requests,         \* settings / reorganize requests that run concurrently
  ClaimBatch,       \* OutboxWorkerConfig.ClaimBatch
  MaxAttempts,      \* OutboxWorkerConfig.MaxAttempts
  LeaseOutlastsWork,\* TRUE: a live worker finishes its batch within the lease
  MaxRevision,      \* bound: how often the settings are written
  MaxFaults         \* bound: crashes, failed statements and early lease expiries

ASSUME ClaimBatchAssumption == ClaimBatch \in Nat \ {0}
ASSUME MaxAttemptsAssumption == MaxAttempts \in Nat \ {0}
ASSUME LeaseAssumption == LeaseOutlastsWork \in BOOLEAN
ASSUME BoundsAssumption == MaxRevision \in Nat /\ MaxFaults \in Nat

VARIABLES
  settings,   \* the user's row of user_ai_settings
  capture,    \* is the capture row absent, live or soft-deleted
  event,      \* the capture's row of capture_outbox
  creating,   \* consent snapshots held by create requests not yet inserted
  request,    \* what each settings request is about to do
  batch,      \* claims a worker holds and has not begun
  job,        \* the claim a worker is processing, and its next step
  enriched,   \* history: how much of the pipeline has run on the capture
  faults      \* how many faults have happened

vars == <<settings, capture, event, creating, request, batch, job, enriched, faults>>

-----------------------------------------------------------------------------
Statuses == {"none", "queued", "processing", "retry_wait",
             "ready", "failed", "cancelled"}

Event == [status : Statuses, attempt : Nat, snapshot : BOOLEAN,
          private : BOOLEAN, due : BOOLEAN, stale : BOOLEAN]

NoEvent == [status |-> "none", attempt |-> 0, snapshot |-> FALSE,
            private |-> FALSE, due |-> FALSE, stale |-> FALSE]

\* The fields of a claimed row that processOne uses.
Claim == [capture : Captures, attempt : Nat, snapshot : BOOLEAN, private : BOOLEAN]

\* A worker between two items has no claim at hand.
NoJob == [step |-> "poll"]

Busy(w) == job[w].step # "poll"

JobSteps == {"enrich", "mark_ready", "mark_failed", "mark_retry"}
Job == [step : JobSteps, claim : Claim] \cup {NoJob}

Idle == [op |-> "idle"]
Request == {Idle}
  \cup [op : {"update"}, revision : Nat, was : BOOLEAN, want : BOOLEAN]
  \cup [op : {"cancel", "reorganize"}]

TypeOK ==
  /\ settings \in [enabled : BOOLEAN, revision : Nat]
  /\ capture \in [Captures -> {"absent", "live", "deleted"}]
  /\ event \in [Captures -> Event]
  /\ creating \in [Captures -> SUBSET BOOLEAN]
  /\ request \in [Requests -> Request]
  /\ batch \in [Workers -> SUBSET Claim]
  /\ job \in [Workers -> Job]
  /\ enriched \in [Captures -> {"none", "partly", "whole"}]
  /\ faults \in Nat

Init ==
  /\ settings = [enabled |-> FALSE, revision |-> 0]
  /\ capture = [c \in Captures |-> "absent"]
  /\ event = [c \in Captures |-> NoEvent]
  /\ creating = [c \in Captures |-> {}]
  /\ request = [r \in Requests |-> Idle]
  /\ batch = [w \in Workers |-> {}]
  /\ job = [w \in Workers |-> NoJob]
  /\ enriched = [c \in Captures |-> "none"]
  /\ faults = 0

-----------------------------------------------------------------------------
(* Creating a capture.                                                     *)

\* resolvePolicySnapshot: the consent is read before the insert, in a
\* statement of its own; a failed read falls back to "everything off".  A
\* request re-sent after the insert changes nothing and is left out.
ResolvePolicySnapshot(c) ==
  /\ capture[c] = "absent"
  /\ \E snapshot \in {settings.enabled, FALSE} :
        creating' = [creating EXCEPT ![c] = @ \cup {snapshot}]
  /\ UNCHANGED <<settings, capture, event, request, batch, job, enriched, faults>>

\* The single insert of capture, card, revision and outbox event.  Requests
\* for the same id that come later conflict on the key and insert nothing:
\* they are dropped here.
InsertCapture(c) ==
  /\ \E snapshot \in creating[c], private \in BOOLEAN :
        event' = [event EXCEPT ![c] =
          [status |-> "queued", attempt |-> 0, snapshot |-> snapshot,
           private |-> private, due |-> TRUE, stale |-> FALSE]]
  /\ capture' = [capture EXCEPT ![c] = "live"]
  /\ creating' = [creating EXCEPT ![c] = {}]
  /\ UNCHANGED <<settings, request, batch, job, enriched, faults>>

\* Moving a memory to the trash leaves its outbox event alone.
DeleteCapture(c) ==
  /\ capture[c] = "live"
  /\ capture' = [capture EXCEPT ![c] = "deleted"]
  /\ UNCHANGED <<settings, event, creating, request, batch, job, enriched, faults>>

-----------------------------------------------------------------------------
(* Settings requests.                                                      *)

\* Update reads the row, compares the client's revision and patches a copy.
UpdateRead(r) ==
  /\ request[r].op = "idle"
  /\ settings.revision < MaxRevision
  /\ \E want \in BOOLEAN :
        request' = [request EXCEPT ![r] =
          [op |-> "update", revision |-> settings.revision,
           was |-> settings.enabled, want |-> want]]
  /\ UNCHANGED <<settings, capture, event, creating, batch, job, enriched, faults>>

\* The compare-and-set write.  Switching the consent off leaves a second
\* statement to run.
UpdateWrite(r) ==
  /\ request[r].op = "update"
  /\ IF settings.revision = request[r].revision
       THEN /\ settings' = [enabled |-> request[r].want,
                            revision |-> settings.revision + 1]
            /\ request' = [request EXCEPT ![r] =
                 IF request[r].was /\ ~request[r].want THEN [op |-> "cancel"] ELSE Idle]
       ELSE /\ request' = [request EXCEPT ![r] = Idle]
            /\ UNCHANGED settings
  /\ UNCHANGED <<capture, event, creating, batch, job, enriched, faults>>

Waiting(e) == e.status \in {"queued", "retry_wait"}

\* Mutation: a status that the table's check constraint does not know.
CancelledMisspelt(e) == [e EXCEPT !.status = "canceled"]

Cancelled(e) == [e EXCEPT !.status = "cancelled"]

\* cancelQueuedIfDisabled: CancelByUser on everything not yet claimed.
CancelQueued(r) ==
  /\ request[r].op = "cancel"
  /\ event' = [c \in Captures |-> IF Waiting(event[c]) THEN Cancelled(event[c]) ELSE event[c]]
  /\ request' = [request EXCEPT ![r] = Idle]
  /\ UNCHANGED <<settings, capture, creating, batch, job, enriched, faults>>

\* Reorganize checks the consent first and re-enqueues in another statement.
ReorganizeRead(r) ==
  /\ request[r].op = "idle"
  /\ settings.enabled
  /\ request' = [request EXCEPT ![r] = [op |-> "reorganize"]]
  /\ UNCHANGED <<settings, capture, event, creating, batch, job, enriched, faults>>

\* Mutation: what was enriched already is taken up again.
ReorganizableAllReady(e) == e.status = "ready"

\* What ReorganizeByUser selects: handled while the consent was off.
Reorganizable(e) == e.status = "ready" /\ ~e.snapshot

Requeued(e) == [e EXCEPT !.status = "queued", !.snapshot = TRUE, !.attempt = 0, !.due = TRUE]

ReorganizeByUser(r) ==
  /\ request[r].op = "reorganize"
  /\ event' = [c \in Captures |->
        IF Reorganizable(event[c]) THEN Requeued(event[c]) ELSE event[c]]
  /\ request' = [request EXCEPT ![r] = Idle]
  /\ UNCHANGED <<settings, capture, creating, batch, job, enriched, faults>>

-----------------------------------------------------------------------------
(* The worker.                                                             *)

\* The claims a worker holds, begun or not.
Held(w) == batch[w] \cup (IF Busy(w) THEN {job[w].claim} ELSE {})

Holds(w, c) == \E k \in Held(w) : k.capture = c

\* Mutation: a claimed event is never taken back.
ClaimableOnce(e) == Waiting(e) /\ e.due

\* Mutation: the lease is not consulted.
ClaimableRegardless(e) == (Waiting(e) /\ e.due) \/ e.status = "processing"

Claimable(e) ==
  \/ Waiting(e) /\ e.due
  \/ e.status = "processing" /\ e.stale

Claimed(e) == [e EXCEPT !.status = "processing", !.stale = FALSE, !.attempt = @ + 1]

ClaimOf(c) == [capture |-> c, attempt |-> event[c].attempt + 1,
               snapshot |-> event[c].snapshot, private |-> event[c].private]

\* ClaimDue: all claimable events, or ClaimBatch of them, in one statement.
\* attempt_count grows with every claim, whatever became of the last one.
ClaimDue(w) ==
  /\ ~Busy(w) /\ batch[w] = {}
  /\ \E S \in SUBSET {c \in Captures : Claimable(event[c])} :
        /\ S # {}
        /\ \/ Cardinality(S) = ClaimBatch
           \/ /\ Cardinality(S) < ClaimBatch
              /\ S = {c \in Captures : Claimable(event[c])}
        /\ event' = [c \in Captures |-> IF c \in S THEN Claimed(event[c]) ELSE event[c]]
        /\ batch' = [batch EXCEPT ![w] = {ClaimOf(c) : c \in S}]
  /\ UNCHANGED <<settings, capture, creating, request, job, enriched, faults>>

\* MarkRetryWait moves next_run_at to the future, the others leave it.
Marked(e, outcome) ==
  [e EXCEPT !.status = outcome, !.due = outcome # "retry_wait", !.stale = FALSE]

\* MarkReady / MarkFailed / MarkRetryWait update the row only while it is in
\* processing; nothing ties the row to the worker that claimed it.
Mark(c, outcome) ==
  event' = IF event[c].status = "processing"
             THEN [event EXCEPT ![c] = Marked(@, outcome)]
             ELSE event

\* Mutation: the capture's privacy mode is forgotten.
SkipsWithoutConsent(k) == ~k.snapshot

\* processOne must not call the pipeline for these.
SkipsAI(k) == ~k.snapshot \/ k.private

\* processOne, consent off in the claimed snapshot or the capture is no_ai.
SkipItem(w) ==
  /\ ~Busy(w)
  /\ \E k \in batch[w] :
        /\ SkipsAI(k)
        /\ Mark(k.capture, "ready")
        /\ batch' = [batch EXCEPT ![w] = @ \ {k}]
  /\ UNCHANGED <<settings, capture, creating, request, job, enriched, faults>>

\* scheduleRetry decides by the attempt number of the claim, not of the row.
AfterError(k) == IF k.attempt >= MaxAttempts THEN "mark_failed" ELSE "mark_retry"

\* processOne loads the capture; a soft-deleted one is not found.  The load
\* itself may fail.
LoadCapture(w) ==
  /\ ~Busy(w)
  /\ \E k \in batch[w] :
        /\ ~SkipsAI(k)
        /\ \E step \in {IF capture[k.capture] = "live" THEN "enrich" ELSE "mark_failed",
                        AfterError(k)} :
             job' = [job EXCEPT ![w] = [step |-> step, claim |-> k]]
        /\ batch' = [batch EXCEPT ![w] = @ \ {k}]
  /\ UNCHANGED <<settings, capture, event, creating, request, enriched, faults>>

\* Organize, Embed, Relate, Recap in turn: all succeed, or one reports an
\* error, with or without the earlier ones' effects.
Enrich(w) ==
  /\ Busy(w) /\ job[w].step = "enrich"
  /\ LET k == job[w].claim IN
       \/ /\ enriched' = [enriched EXCEPT ![k.capture] = "whole"]
          /\ job' = [job EXCEPT ![w] = [step |-> "mark_ready", claim |-> k]]
       \/ /\ \/ UNCHANGED enriched
             \/ /\ enriched[k.capture] = "none"
                /\ enriched' = [enriched EXCEPT ![k.capture] = "partly"]
          /\ job' = [job EXCEPT ![w] = [step |-> AfterError(k), claim |-> k]]
  /\ UNCHANGED <<settings, capture, event, creating, request, batch, faults>>

Outcome(step) ==
  CASE step = "mark_ready"  -> "ready"
    [] step = "mark_failed" -> "failed"
    [] OTHER                -> "retry_wait"

MarkItem(w) ==
  /\ Busy(w) /\ job[w].step # "enrich"
  /\ Mark(job[w].claim.capture, Outcome(job[w].step))
  /\ job' = [job EXCEPT ![w] = NoJob]
  /\ UNCHANGED <<settings, capture, creating, request, batch, enriched, faults>>

WorkerStep(w) == SkipItem(w) \/ LoadCapture(w) \/ Enrich(w) \/ MarkItem(w)

-----------------------------------------------------------------------------
(* Time and faults.                                                        *)

\* next_run_at of a backed-off event passes.
BackoffElapses(c) ==
  /\ event[c].status = "retry_wait" /\ ~event[c].due
  /\ event' = [event EXCEPT ![c].due = TRUE]
  /\ UNCHANGED <<settings, capture, creating, request, batch, job, enriched, faults>>

\* The claim of an event no worker is working on any more grows stale.
LeaseExpires(c) ==
  /\ event[c].status = "processing" /\ ~event[c].stale
  /\ \A w \in Workers : ~Holds(w, c)
  /\ event' = [event EXCEPT ![c].stale = TRUE]
  /\ UNCHANGED <<settings, capture, creating, request, batch, job, enriched, faults>>

Fault == faults < MaxFaults /\ faults' = faults + 1

\* The lease is fixed when the batch is claimed and never renewed: a slow
\* batch outlives it.
LeaseExpiresEarly(c) ==
  /\ ~LeaseOutlastsWork
  /\ event[c].status = "processing" /\ ~event[c].stale
  /\ \E w \in Workers : Holds(w, c)
  /\ event' = [event EXCEPT ![c].stale = TRUE]
  /\ Fault
  /\ UNCHANGED <<settings, capture, creating, request, batch, job, enriched>>

\* The process stops or dies: what it claimed stays in processing.
WorkerStops(w) ==
  /\ Held(w) # {}
  /\ batch' = [batch EXCEPT ![w] = {}]
  /\ job' = [job EXCEPT ![w] = NoJob]
  /\ Fault
  /\ UNCHANGED <<settings, capture, event, creating, request, enriched>>

\* The statement that records an outcome fails: it is logged and forgotten.
MarkLost(w) ==
  /\ \/ /\ Busy(w) /\ job[w].step # "enrich"
        /\ job' = [job EXCEPT ![w] = NoJob]
        /\ UNCHANGED batch
     \/ /\ ~Busy(w)
        /\ \E k \in batch[w] :
             SkipsAI(k) /\ batch' = [batch EXCEPT ![w] = @ \ {k}]
        /\ UNCHANGED job
  /\ Fault
  /\ UNCHANGED <<settings, capture, event, creating, request, enriched>>

\* A settings request dies between two statements, or its last one fails.
RequestDies(r) ==
  /\ request[r].op # "idle"
  /\ request' = [request EXCEPT ![r] = Idle]
  /\ Fault
  /\ UNCHANGED <<settings, capture, event, creating, batch, job, enriched>>

-----------------------------------------------------------------------------
CaptureStep(c) ==
  \/ ResolvePolicySnapshot(c) \/ InsertCapture(c) \/ DeleteCapture(c)
  \/ BackoffElapses(c) \/ LeaseExpires(c) \/ LeaseExpiresEarly(c)

RequestStep(r) ==
  \/ UpdateRead(r) \/ UpdateWrite(r) \/ CancelQueued(r)
  \/ ReorganizeRead(r) \/ ReorganizeByUser(r) \/ RequestDies(r)

Next ==
  \/ \E c \in Captures : CaptureStep(c)
  \/ \E r \in Requests : RequestStep(r)
  \/ \E w \in Workers : ClaimDue(w) \/ WorkerStep(w) \/ WorkerStops(w) \/ MarkLost(w)

Spec == Init /\ [][Next]_vars

\* A running worker polls every second and works through its batch; clocks
\* advance.  Users and requests owe nothing.
Fairness ==
  /\ \A w \in Workers : WF_vars(ClaimDue(w)) /\ WF_vars(WorkerStep(w))
  /\ \A c \in Captures : WF_vars(BackoffElapses(c)) /\ WF_vars(LeaseExpires(c))

FairSpec == Spec /\ Fairness

-----------------------------------------------------------------------------
(* Properties that hold whatever the lease does.                           *)

\* The pipeline never ran, not even in part, on a capture whose event says
\* that its user had not consented or that is marked no_ai, however claims,
\* settings changes and reorganize requests interleave.
EnrichedOnlyWithConsent ==
  \A c \in Captures : enriched[c] # "none" => event[c].snapshot /\ ~event[c].private

\* A recorded outcome is never overwritten by a worker that comes late: failed
\* and cancelled are final, and ready is left only by a reorganize request for
\* an event that was skipped.
OutcomesAreFinal ==
  [][\A c \in Captures :
       /\ event[c].status \in {"failed", "cancelled"} => event'[c].status = event[c].status
       /\ event[c].status = "ready" /\ event'[c].status # "ready"
            => ~event[c].snapshot /\ event'[c].status = "queued"]_vars

\* Every event gets an outcome, in spite of worker crashes, lost updates and
\* failing attempts: no event stays queued, backed off or processing.
EventSettles ==
  \A c \in Captures :
    event[c].status \in {"queued", "processing", "retry_wait"}
      ~> event[c].status \in {"ready", "failed", "cancelled"}

-----------------------------------------------------------------------------
(* Properties that rest on every live worker finishing its batch within    *)
(* the claim lease.                                                        *)

\* No two workers are ever working on one event, nor one worker twice.
ExclusiveClaims ==
  \A w1, w2 \in Workers :
    \A k1 \in Held(w1), k2 \in Held(w2) :
      k1.capture = k2.capture => w1 = w2 /\ k1 = k2

\* An event that needed enrichment is ready only after the whole pipeline
\* succeeded on its capture.
ReadyMeansEnriched ==
  \A c \in Captures :
    event[c].status = "ready" /\ event[c].snapshot /\ ~event[c].private
      => enriched[c] = "whole"

\* An event waits for another attempt only while it has one left, and fails
\* early only if its capture is gone.
AttemptsRespected ==
  \A c \in Captures :
    /\ event[c].status = "retry_wait" => event[c].attempt < MaxAttempts
    /\ event[c].status = "failed" =>
         event[c].attempt >= MaxAttempts \/ capture[c] = "deleted"

\* The outbox implements one task per capture.
Stage(e) ==
  CASE e.status = "none"       -> "absent"
    [] Waiting(e)              -> "waiting"
    [] e.status = "processing" -> "running"
    [] e.status = "ready"      -> "done"
    [] OTHER                   -> e.status

Task == INSTANCE EnrichmentTask WITH
  stage   <- [c \in Captures |-> Stage(event[c])],
  consent <- [c \in Captures |-> event[c].snapshot],
  exempt  <- [c \in Captures |-> event[c].private],
  worked  <- [c \in Captures |-> enriched[c] = "whole"]

\* Through claims, retries, crashes and reclaimed leases, each capture's event
\* behaves as a task that is worked on only while it runs and is wanted, is
\* done only after its work, and never leaves its final stage by accident.
ImplementsTask == Task!Spec

-----------------------------------------------------------------------------
(* Inductive invariants, for the proofs.                                   *)

\* A capture has an outbox event as soon as it exists, and no create request
\* is still to be inserted then.
RowsInv ==
  \A c \in Captures :
    /\ capture[c] = "absent" <=> event[c].status = "none"
    /\ creating[c] # {} => capture[c] = "absent"
    /\ enriched[c] # "none" => capture[c] # "absent"

\* Claims never carry more consent than their event, whatever the lease does.
ConsentInv ==
  /\ RowsInv
  /\ EnrichedOnlyWithConsent
  /\ \A w \in Workers :
       /\ \A k \in Held(w) :
            /\ event[k.capture].status # "none"
            /\ k.private = event[k.capture].private
            /\ k.snapshot => event[k.capture].snapshot
       /\ Busy(w) => ~SkipsAI(job[w].claim)

\* A claim that mirrors its event, which stays in processing and fresh.
Mirrors(k, e) ==
  /\ e.status = "processing" /\ ~e.stale
  /\ k.attempt = e.attempt /\ k.snapshot = e.snapshot /\ k.private = e.private

\* The outcome a worker is about to record is the true one.
JobIsTrue(w) ==
  Busy(w) => LET k == job[w].claim IN
    /\ k \notin batch[w] /\ ~SkipsAI(k)
    /\ job[w].step = "mark_ready" => enriched[k.capture] = "whole"
    /\ job[w].step = "mark_retry" => k.attempt < MaxAttempts
    /\ job[w].step = "mark_failed" =>
         k.attempt >= MaxAttempts \/ capture[k.capture] = "deleted"

\* With a lease that outlasts the work.
LeaseInv ==
  /\ \A w \in Workers : \A k \in Held(w) : Mirrors(k, event[k.capture])
  /\ \A w \in Workers : JobIsTrue(w)
  /\ ExclusiveClaims
  /\ ReadyMeansEnriched
  /\ AttemptsRespected

=============================================================================
