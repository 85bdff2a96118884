------------------------- MODULE CaptureOutboxProofs -------------------------
(***************************************************************************)
(* Proofs about CaptureOutbox for every value of its constants, and that   *)
(* it implements EnrichmentTask.                                           *)
(***************************************************************************)
EXTENDS CaptureOutbox, TLAPS

-----------------------------------------------------------------------------
(* Type correctness.                                                       *)

LEMMA HeldType ==
  ASSUME TypeOK, NEW w \in Workers
  PROVE  /\ Held(w) \subseteq Claim
         /\ Busy(w) => job[w] \in [step : JobSteps, claim : Claim]
         /\ ~Busy(w) => job[w] = NoJob
BY DEF TypeOK, Held, Busy, Job, NoJob, JobSteps

LEMMA ClaimType ==
  ASSUME TypeOK, NEW c \in Captures
  PROVE  ClaimOf(c) \in Claim
BY DEF TypeOK, ClaimOf, Claim, Event

\* What each update of an event row does to its fields.
LEMMA ClaimedFields ==
  ASSUME NEW e \in Event
  PROVE  /\ Claimed(e) \in Event
         /\ Claimed(e).status = "processing" /\ Claimed(e).attempt = e.attempt + 1
         /\ Claimed(e).snapshot = e.snapshot /\ Claimed(e).private = e.private
         /\ Claimed(e).stale = FALSE
<1> DEFINE U(status, n) == [e EXCEPT !.status = status, !.stale = FALSE, !.attempt = n]
<1>1. \A status \in Statuses, n \in Nat : U(status, n) \in Event
  BY DEF Event
<1>2. "processing" \in Statuses /\ e.attempt + 1 \in Nat
  BY DEF Statuses, Event
<1>3. U("processing", e.attempt + 1) \in Event
  BY <1>1, <1>2
<1>4. Claimed(e) = U("processing", e.attempt + 1)
  BY DEF Claimed
<1> QED
  BY <1>3, <1>4 DEF Claimed, Event

LEMMA CancelledFields ==
  ASSUME NEW e \in Event
  PROVE  /\ Cancelled(e) \in Event
         /\ Cancelled(e).status = "cancelled" /\ Cancelled(e).attempt = e.attempt
         /\ Cancelled(e).snapshot = e.snapshot /\ Cancelled(e).private = e.private
         /\ Cancelled(e).stale = e.stale
BY DEF Cancelled, Event, Statuses

LEMMA RequeuedFields ==
  ASSUME NEW e \in Event
  PROVE  /\ Requeued(e) \in Event
         /\ Requeued(e).status = "queued" /\ Requeued(e).attempt = 0
         /\ Requeued(e).snapshot = TRUE /\ Requeued(e).private = e.private
         /\ Requeued(e).stale = e.stale
<1> DEFINE U(status) ==
      [e EXCEPT !.status = status, !.snapshot = TRUE, !.attempt = 0, !.due = TRUE]
<1>1. \A status \in Statuses : U(status) \in Event
  BY DEF Event
<1>2. "queued" \in Statuses
  BY DEF Statuses
<1> QED
  BY <1>1, <1>2 DEF Requeued, Event

LEMMA MarkedFields ==
  ASSUME NEW e \in Event, NEW outcome \in Statuses
  PROVE  /\ Marked(e, outcome) \in Event
         /\ Marked(e, outcome).status = outcome
         /\ Marked(e, outcome).attempt = e.attempt
         /\ Marked(e, outcome).snapshot = e.snapshot
         /\ Marked(e, outcome).private = e.private
         /\ Marked(e, outcome).stale = FALSE
<1> DEFINE U(due) == [e EXCEPT !.status = outcome, !.due = due, !.stale = FALSE]
<1>1. \A due \in BOOLEAN : U(due) \in Event
  BY DEF Event
<1>2. (outcome # "retry_wait") \in BOOLEAN
  OBVIOUS
<1>3. U(outcome # "retry_wait") \in Event
  BY <1>1, <1>2
<1> QED
  BY <1>3 DEF Marked, Event

LEMMA MarkType ==
  ASSUME TypeOK, NEW c \in Captures, NEW outcome \in Statuses, Mark(c, outcome)
  PROVE  event' \in [Captures -> Event]
BY MarkedFields DEF TypeOK, Mark

LEMMA InitType == Init => TypeOK
BY DEF Init, TypeOK, Event, NoEvent, Statuses, Request, Idle, Job, NoJob

LEMMA CaptureType == ASSUME TypeOK, NEW c \in Captures, CaptureStep(c) PROVE TypeOK'
<1>1. CASE ResolvePolicySnapshot(c)
  <2>1. settings.enabled \in BOOLEAN
    BY DEF TypeOK
  <2>2. \A s \in {settings.enabled, FALSE} : creating[c] \cup {s} \in SUBSET BOOLEAN
    BY <2>1 DEF TypeOK
  <2>3. creating' \in [Captures -> SUBSET BOOLEAN]
    BY <1>1, <2>2 DEF TypeOK, ResolvePolicySnapshot
  <2> QED
    BY <1>1, <2>3 DEF TypeOK, ResolvePolicySnapshot
<1>2. CASE InsertCapture(c)
  <2>1. PICK snapshot \in creating[c], private \in BOOLEAN :
          event' = [event EXCEPT ![c] =
            [status |-> "queued", attempt |-> 0, snapshot |-> snapshot,
             private |-> private, due |-> TRUE, stale |-> FALSE]]
    BY <1>2 DEF InsertCapture
  <2>2. snapshot \in BOOLEAN
    BY DEF TypeOK
  <2>3. [status |-> "queued", attempt |-> 0, snapshot |-> snapshot,
         private |-> private, due |-> TRUE, stale |-> FALSE] \in Event
    BY <2>2 DEF Event, Statuses
  <2>4. event' \in [Captures -> Event]
    BY <2>1, <2>3 DEF TypeOK
  <2> QED
    BY <1>2, <2>4 DEF TypeOK, InsertCapture
<1>3. CASE DeleteCapture(c)
  BY <1>3 DEF TypeOK, DeleteCapture
<1>4. CASE BackoffElapses(c)
  <2>1. event' \in [Captures -> Event]
    <3>1. event' = [event EXCEPT ![c].due = TRUE]
      BY <1>4 DEF BackoffElapses
    <3>2. event \in [Captures -> Event]
      BY DEF TypeOK
    <3> QED
      BY <3>1, <3>2 DEF Event
  <2> QED
    BY <1>4, <2>1 DEF TypeOK, BackoffElapses
<1>5. CASE LeaseExpires(c)
  <2>1. event' \in [Captures -> Event]
    <3>1. event' = [event EXCEPT ![c].stale = TRUE]
      BY <1>5 DEF LeaseExpires
    <3>2. event \in [Captures -> Event]
      BY DEF TypeOK
    <3> QED
      BY <3>1, <3>2 DEF Event
  <2> QED
    BY <1>5, <2>1 DEF TypeOK, LeaseExpires
<1>6. CASE LeaseExpiresEarly(c)
  <2>1. event' \in [Captures -> Event]
    <3>1. event' = [event EXCEPT ![c].stale = TRUE]
      BY <1>6 DEF LeaseExpiresEarly
    <3>2. event \in [Captures -> Event]
      BY DEF TypeOK
    <3> QED
      BY <3>1, <3>2 DEF Event
  <2>2. faults' \in Nat
    BY <1>6 DEF TypeOK, LeaseExpiresEarly, Fault
  <2> QED
    BY <1>6, <2>1, <2>2 DEF TypeOK, LeaseExpiresEarly
<1> QED
  BY <1>1, <1>2, <1>3, <1>4, <1>5, <1>6 DEF CaptureStep

LEMMA RequestType == ASSUME TypeOK, NEW r \in Requests, RequestStep(r) PROVE TypeOK'
<1>1. CASE UpdateRead(r)
  BY <1>1 DEF TypeOK, UpdateRead, Request
<1>2. CASE UpdateWrite(r)
  BY <1>2 DEF TypeOK, UpdateWrite, Request, Idle
<1>3. CASE CancelQueued(r)
  BY <1>3, CancelledFields DEF TypeOK, CancelQueued, Request, Idle
<1>4. CASE ReorganizeRead(r)
  BY <1>4 DEF TypeOK, ReorganizeRead, Request
<1>5. CASE ReorganizeByUser(r)
  BY <1>5, RequeuedFields DEF TypeOK, ReorganizeByUser, Request, Idle
<1>6. CASE RequestDies(r)
  BY <1>6 DEF TypeOK, RequestDies, Fault, Request, Idle
<1> QED
  BY <1>1, <1>2, <1>3, <1>4, <1>5, <1>6 DEF RequestStep

WorkerAction(w) == ClaimDue(w) \/ WorkerStep(w) \/ WorkerStops(w) \/ MarkLost(w)

LEMMA WorkerType == ASSUME TypeOK, NEW w \in Workers, WorkerAction(w) PROVE TypeOK'
<1>1. CASE ClaimDue(w)
  <2>1. PICK S \in SUBSET Captures :
           /\ event' = [c \in Captures |-> IF c \in S THEN Claimed(event[c]) ELSE event[c]]
           /\ batch' = [batch EXCEPT ![w] = {ClaimOf(c) : c \in S}]
    BY <1>1 DEF ClaimDue
  <2>2. event' \in [Captures -> Event]
    BY <2>1, ClaimedFields DEF TypeOK
  <2>3. {ClaimOf(c) : c \in S} \subseteq Claim
    BY ClaimType
  <2>4. batch' \in [Workers -> SUBSET Claim]
    BY <2>1, <2>3 DEF TypeOK
  <2> QED
    BY <1>1, <2>2, <2>4 DEF TypeOK, ClaimDue
<1>2. CASE SkipItem(w)
  <2>1. event' \in [Captures -> Event]
    BY <1>2, MarkType DEF SkipItem, TypeOK, Claim, Statuses
  <2> QED
    BY <1>2, <2>1 DEF TypeOK, SkipItem
<1>3. CASE LoadCapture(w)
  BY <1>3 DEF TypeOK, LoadCapture, Job, JobSteps, AfterError
<1>4. CASE Enrich(w)
  <2>1. job[w].claim \in Claim /\ job[w].claim.capture \in Captures
    BY <1>4, HeldType DEF Enrich, Claim
  <2> QED
    BY <1>4, <2>1 DEF TypeOK, Enrich, Job, JobSteps, AfterError
<1>5. CASE MarkItem(w)
  <2>1. event' \in [Captures -> Event]
    <3>1. job[w].claim.capture \in Captures
      BY <1>5, HeldType DEF MarkItem, Claim
    <3> QED
      BY <1>5, <3>1, MarkType DEF MarkItem, Outcome, Statuses
  <2> QED
    BY <1>5, <2>1 DEF TypeOK, MarkItem, Job, NoJob
<1>6. CASE WorkerStops(w)
  BY <1>6 DEF TypeOK, WorkerStops, Fault, Job, NoJob
<1>7. CASE MarkLost(w)
  BY <1>7 DEF TypeOK, MarkLost, Fault, Job, NoJob
<1> QED
  BY <1>1, <1>2, <1>3, <1>4, <1>5, <1>6, <1>7 DEF WorkerAction, WorkerStep

LEMMA StepType == TypeOK /\ [Next]_vars => TypeOK'
<1> SUFFICES ASSUME TypeOK, [Next]_vars PROVE TypeOK'
  OBVIOUS
<1>1. CASE UNCHANGED vars
  BY <1>1 DEF TypeOK, vars
<1> QED
  BY <1>1, CaptureType, RequestType, WorkerType DEF Next, WorkerAction

\* Every variable keeps its type in every reachable state.
THEOREM TypeCorrect == Spec => []TypeOK
BY InitType, StepType, PTL DEF Spec

-----------------------------------------------------------------------------
(* How the actions change events and claims.                               *)

\* What no action but InsertCapture does to an event: create it, change its
\* privacy mode or take its consent away.
SameRows ==
  \A c \in Captures :
    /\ event'[c].status = "none" <=> event[c].status = "none"
    /\ event'[c].private = event[c].private
    /\ event[c].snapshot => event'[c].snapshot

HeldShrinks == \A w \in Workers : Held(w)' \subseteq Held(w)

LEMMA HeldUnchanged ==
  ASSUME UNCHANGED <<batch, job>>
  PROVE  \A w \in Workers : Held(w)' = Held(w) /\ Busy(w)' = Busy(w)
BY DEF Held, Busy

LEMMA CancelEvents ==
  ASSUME TypeOK, NEW r \in Requests, CancelQueued(r), NEW c \in Captures
  PROVE  event'[c] = IF Waiting(event[c]) THEN Cancelled(event[c]) ELSE event[c]
BY DEF CancelQueued

LEMMA ReorganizeEvents ==
  ASSUME TypeOK, NEW r \in Requests, ReorganizeByUser(r), NEW c \in Captures
  PROVE  event'[c] = IF Reorganizable(event[c]) THEN Requeued(event[c]) ELSE event[c]
BY DEF ReorganizeByUser

LEMMA MarkEvents ==
  ASSUME TypeOK, NEW d \in Captures, NEW outcome, Mark(d, outcome), NEW c \in Captures
  PROVE  event'[c] = IF c = d /\ event[c].status = "processing"
                       THEN Marked(event[c], outcome) ELSE event[c]
BY DEF Mark, TypeOK

\* The events a worker claims, and the claims it then holds.
LEMMA ClaimEvents ==
  ASSUME TypeOK, NEW w \in Workers, ClaimDue(w)
  PROVE  \E S \in SUBSET Captures :
           /\ \A c \in S : Claimable(event[c])
           /\ \A c \in Captures :
                event'[c] = IF c \in S THEN Claimed(event[c]) ELSE event[c]
           /\ Held(w)' = {ClaimOf(c) : c \in S} /\ Held(w) = {}
           /\ ~Busy(w)'
           /\ \A v \in Workers \ {w} : Held(v)' = Held(v) /\ Busy(v)' = Busy(v)
<1>1. PICK S \in SUBSET {c \in Captures : Claimable(event[c])} :
         /\ event' = [c \in Captures |-> IF c \in S THEN Claimed(event[c]) ELSE event[c]]
         /\ batch' = [batch EXCEPT ![w] = {ClaimOf(c) : c \in S}]
         /\ ~Busy(w) /\ batch[w] = {} /\ UNCHANGED job
  BY DEF ClaimDue
<1>2. batch'[w] = {ClaimOf(c) : c \in S} /\ \A v \in Workers \ {w} : batch'[v] = batch[v]
  BY <1>1 DEF TypeOK
<1> WITNESS S \in SUBSET Captures
<1> QED
  BY <1>1, <1>2 DEF Held, Busy

LEMMA ClaimRows ==
  ASSUME TypeOK, NEW w \in Workers, ClaimDue(w)
  PROVE  SameRows
<1>1. \A c \in Captures : event'[c] \in {event[c], Claimed(event[c])}
                          /\ (event'[c] # event[c] => Claimable(event[c]))
  BY ClaimEvents
<1>2. \A c \in Captures : event[c] \in Event
  BY DEF TypeOK
<1> QED
  BY <1>1, <1>2, ClaimedFields DEF SameRows, Claimable, Waiting

LEMMA MarkRows ==
  ASSUME TypeOK, NEW d \in Captures, NEW outcome \in Statuses \ {"none"}, Mark(d, outcome)
  PROVE  SameRows
<1> SUFFICES ASSUME NEW c \in Captures
             PROVE  /\ event'[c].status = "none" <=> event[c].status = "none"
                    /\ event'[c].private = event[c].private
                    /\ event[c].snapshot => event'[c].snapshot
  BY DEF SameRows
<1>1. CASE c = d /\ event[c].status = "processing"
  <2>1. event'[c] = Marked(event[c], outcome) /\ event[c] \in Event
    BY <1>1, MarkEvents DEF TypeOK
  <2>2. outcome \in Statuses /\ outcome # "none"
    OBVIOUS
  <2>3. /\ event'[c].status = outcome
        /\ event'[c].private = event[c].private
        /\ event'[c].snapshot = event[c].snapshot
    <3>1. event[c] \in Event
      BY <2>1
    <3>2. /\ Marked(event[c], outcome).status = outcome
          /\ Marked(event[c], outcome).private = event[c].private
          /\ Marked(event[c], outcome).snapshot = event[c].snapshot
      BY <2>2, <3>1, MarkedFields
    <3> QED
      BY <2>1, <3>2
  <2> QED
    BY <1>1, <2>2, <2>3
<1>2. CASE ~(c = d /\ event[c].status = "processing")
  BY <1>2, MarkEvents
<1> QED
  BY <1>1, <1>2

\* Every step that works on a claim drops it or keeps it.
LEMMA WorkHeld ==
  ASSUME TypeOK, NEW w \in Workers,
         WorkerStep(w) \/ WorkerStops(w) \/ MarkLost(w)
  PROVE  HeldShrinks
<1>1. CASE SkipItem(w)
  BY <1>1 DEF SkipItem, HeldShrinks, Held, Busy, TypeOK
<1>2. CASE LoadCapture(w)
  BY <1>2 DEF LoadCapture, HeldShrinks, Held, Busy, TypeOK
<1>3. CASE Enrich(w)
  BY <1>3 DEF Enrich, HeldShrinks, Held, Busy, TypeOK
<1>4. CASE MarkItem(w)
  BY <1>4 DEF MarkItem, HeldShrinks, Held, Busy, TypeOK, NoJob
<1>5. CASE WorkerStops(w)
  BY <1>5 DEF WorkerStops, HeldShrinks, Held, Busy, TypeOK, NoJob
<1>6. CASE MarkLost(w)
  <2>1. \A v \in Workers : batch'[v] \subseteq batch[v]
    BY <1>6 DEF MarkLost, TypeOK
  <2>2. \A v \in Workers : job'[v] \in {job[v], NoJob}
    BY <1>6 DEF MarkLost, TypeOK
  <2> QED
    BY <2>1, <2>2 DEF HeldShrinks, Held, Busy, NoJob
<1> QED
  BY <1>1, <1>2, <1>3, <1>4, <1>5, <1>6 DEF WorkerStep

LEMMA OutcomeType ==
  ASSUME NEW step PROVE Outcome(step) \in {"ready", "failed", "retry_wait"}
BY DEF Outcome

LEMMA WorkRows ==
  ASSUME TypeOK, NEW w \in Workers,
         WorkerStep(w) \/ WorkerStops(w) \/ MarkLost(w)
  PROVE  SameRows
<1>1. CASE SkipItem(w)
  <2>1. PICK k \in batch[w] : Mark(k.capture, "ready")
    BY <1>1 DEF SkipItem
  <2>2. k.capture \in Captures
    BY <2>1 DEF TypeOK, Claim
  <2> QED
    BY <2>1, <2>2, MarkRows DEF Statuses
<1>2. CASE MarkItem(w)
  <2>1. job[w].claim.capture \in Captures
    BY <1>2, HeldType DEF MarkItem, Claim
  <2> QED
    BY <1>2, <2>1, MarkRows, OutcomeType DEF MarkItem, Statuses
<1>3. CASE UNCHANGED event
  BY <1>3 DEF SameRows
<1> QED
  BY <1>1, <1>2, <1>3 DEF WorkerStep, LoadCapture, Enrich, WorkerStops, MarkLost

-----------------------------------------------------------------------------
(* Enrichment needs consent, whatever the lease does.                      *)

\* The claims' part of ConsentInv survives when claims are dropped and rows
\* only gain consent.
LEMMA ClaimsKeepConsent ==
  ASSUME TypeOK, ConsentInv, SameRows, NEW w \in Workers, Held(w)' \subseteq Held(w)
  PROVE  \A k \in Held(w)' :
           /\ event'[k.capture].status # "none"
           /\ k.private = event'[k.capture].private
           /\ k.snapshot => event'[k.capture].snapshot
<1> SUFFICES ASSUME NEW k \in Held(w)'
             PROVE  /\ event'[k.capture].status # "none"
                    /\ k.private = event'[k.capture].private
                    /\ k.snapshot => event'[k.capture].snapshot
  OBVIOUS
<1>1. k \in Held(w) /\ k.capture \in Captures
  BY HeldType DEF Claim
<1> QED
  BY <1>1 DEF ConsentInv, SameRows

LEMMA RowsKept ==
  ASSUME RowsInv, SameRows, UNCHANGED <<creating, enriched>>,
         \A c \in Captures : capture'[c] = "absent" <=> capture[c] = "absent"
  PROVE  RowsInv'
BY DEF RowsInv, SameRows

LEMMA ConsentKept ==
  ASSUME EnrichedOnlyWithConsent, TypeOK, SameRows, UNCHANGED enriched
  PROVE  EnrichedOnlyWithConsent'
BY DEF EnrichedOnlyWithConsent, SameRows

LEMMA InitConsent == Init => ConsentInv
BY DEF Init, ConsentInv, RowsInv, EnrichedOnlyWithConsent, Held, Busy, NoJob, NoEvent

\* Steps that touch neither claims nor the pipeline.
LEMMA QuietConsent ==
  ASSUME TypeOK, ConsentInv, SameRows, UNCHANGED <<batch, job, creating, enriched>>,
         \A c \in Captures : capture'[c] = "absent" <=> capture[c] = "absent"
  PROVE  ConsentInv'
<1>1. RowsInv' /\ EnrichedOnlyWithConsent'
  BY RowsKept, ConsentKept DEF ConsentInv
<1>2. ASSUME NEW w \in Workers
      PROVE  Held(w)' \subseteq Held(w) /\ (Busy(w)' => ~SkipsAI(job'[w].claim))
  BY HeldUnchanged DEF ConsentInv
<1> QED
  BY <1>1, <1>2, ClaimsKeepConsent DEF ConsentInv

LEMMA CaptureConsent ==
  ASSUME TypeOK, ConsentInv, NEW c \in Captures, CaptureStep(c)
  PROVE  ConsentInv'
<1>1. CASE ResolvePolicySnapshot(c)
  <2>1. RowsInv'
    BY <1>1 DEF ResolvePolicySnapshot, ConsentInv, RowsInv, TypeOK
  <2> QED
    BY <1>1, <2>1, HeldUnchanged DEF ResolvePolicySnapshot, ConsentInv, EnrichedOnlyWithConsent
<1>2. CASE InsertCapture(c)
  <2>1. capture[c] = "absent" /\ event[c].status = "none" /\ enriched[c] = "none"
    BY <1>2 DEF InsertCapture, ConsentInv, RowsInv, TypeOK
  <2>2. event'[c].status = "queued" /\ \A d \in Captures \ {c} : event'[d] = event[d]
    BY <1>2 DEF InsertCapture, TypeOK
  <2>3. RowsInv'
    BY <1>2, <2>1, <2>2 DEF InsertCapture, ConsentInv, RowsInv, TypeOK
  <2>4. EnrichedOnlyWithConsent'
    BY <1>2, <2>1, <2>2 DEF InsertCapture, ConsentInv, EnrichedOnlyWithConsent
  <2>5. ASSUME NEW w \in Workers, NEW k \in Held(w)
        PROVE  k.capture \in Captures \ {c}
    BY <2>1, HeldType DEF ConsentInv, Claim
  <2> QED
    BY <1>2, <2>2, <2>3, <2>4, <2>5, HeldUnchanged DEF InsertCapture, ConsentInv
<1>3. CASE DeleteCapture(c)
  BY <1>3, QuietConsent DEF DeleteCapture, SameRows, TypeOK
<1>4. CASE BackoffElapses(c)
  <2>1. SameRows
    BY <1>4 DEF BackoffElapses, SameRows, TypeOK, Event
  <2> QED
    BY <1>4, <2>1, QuietConsent DEF BackoffElapses
<1>5. CASE LeaseExpires(c) \/ LeaseExpiresEarly(c)
  <2>1. event' = [event EXCEPT ![c].stale = TRUE]
        /\ UNCHANGED <<batch, job, creating, enriched, capture>>
    BY <1>5 DEF LeaseExpires, LeaseExpiresEarly
  <2>2. SameRows
    BY <2>1 DEF SameRows, TypeOK, Event
  <2> QED
    BY <2>1, <2>2, QuietConsent
<1> QED
  BY <1>1, <1>2, <1>3, <1>4, <1>5 DEF CaptureStep

LEMMA RequestConsent ==
  ASSUME TypeOK, ConsentInv, NEW r \in Requests, RequestStep(r)
  PROVE  ConsentInv'
<1>0. \A c \in Captures : event[c] \in Event
  BY DEF TypeOK
<1>1. CASE CancelQueued(r)
  <2>1. SameRows
    BY <1>0, <1>1, CancelEvents, CancelledFields DEF SameRows, Waiting
  <2> QED
    BY <1>1, <2>1, QuietConsent DEF CancelQueued
<1>2. CASE ReorganizeByUser(r)
  <2>1. SameRows
    BY <1>0, <1>2, ReorganizeEvents, RequeuedFields DEF SameRows, Reorganizable
  <2> QED
    BY <1>2, <2>1, QuietConsent DEF ReorganizeByUser
<1>3. CASE UpdateRead(r) \/ UpdateWrite(r) \/ ReorganizeRead(r) \/ RequestDies(r)
  <2>1. UNCHANGED <<event, batch, job, creating, enriched, capture>>
    BY <1>3 DEF UpdateRead, UpdateWrite, ReorganizeRead, RequestDies
  <2> QED
    BY <2>1, QuietConsent DEF SameRows
<1> QED
  BY <1>1, <1>2, <1>3 DEF RequestStep

LEMMA WorkerConsent ==
  ASSUME TypeOK, ConsentInv, NEW w \in Workers, WorkerAction(w)
  PROVE  ConsentInv'
<1>1. CASE ClaimDue(w)
  <2>1. RowsInv' /\ EnrichedOnlyWithConsent'
    BY <1>1, ClaimRows, RowsKept, ConsentKept DEF ClaimDue, ConsentInv
  <2>2. PICK S \in SUBSET Captures :
           /\ \A c \in S : Claimable(event[c])
           /\ \A c \in Captures :
                event'[c] = IF c \in S THEN Claimed(event[c]) ELSE event[c]
           /\ Held(w)' = {ClaimOf(c) : c \in S}
           /\ ~Busy(w)'
           /\ \A v \in Workers \ {w} : Held(v)' = Held(v) /\ Busy(v)' = Busy(v)
    BY <1>1, ClaimEvents
  <2>3. ASSUME NEW c \in S
        PROVE  LET k == ClaimOf(c) IN
               /\ event'[k.capture].status # "none"
               /\ k.private = event'[k.capture].private
               /\ k.snapshot => event'[k.capture].snapshot
    <3>1. event[c] \in Event /\ event'[c] = Claimed(event[c])
      BY <2>2 DEF TypeOK
    <3> QED
      BY <3>1, ClaimedFields DEF ClaimOf
  <2>4. ASSUME NEW v \in Workers \ {w}
        PROVE  /\ \A k \in Held(v)' :
                    /\ event'[k.capture].status # "none"
                    /\ k.private = event'[k.capture].private
                    /\ k.snapshot => event'[k.capture].snapshot
               /\ Busy(v)' => ~SkipsAI(job'[v].claim)
    BY <1>1, <2>2, ClaimRows, ClaimsKeepConsent DEF ConsentInv, ClaimDue
  <2> QED
    BY <2>1, <2>2, <2>3, <2>4 DEF ConsentInv
<1>2. CASE WorkerStep(w) \/ WorkerStops(w) \/ MarkLost(w)
  <2>1. SameRows /\ HeldShrinks
    BY <1>2, WorkRows, WorkHeld
  <2>2. \A v \in Workers : \A k \in Held(v)' :
           /\ event'[k.capture].status # "none"
           /\ k.private = event'[k.capture].private
           /\ k.snapshot => event'[k.capture].snapshot
    BY <2>1, ClaimsKeepConsent DEF HeldShrinks
  <2>3. \A v \in Workers : Busy(v)' => ~SkipsAI(job'[v].claim)
    <3>1. \A v \in Workers : job'[v] = job[v] \/ job'[v] = NoJob
                              \/ ~SkipsAI(job'[v].claim)
                              \/ (Busy(v) /\ job'[v].claim = job[v].claim)
      BY <1>2 DEF WorkerStep, SkipItem, LoadCapture, Enrich, MarkItem, WorkerStops, MarkLost, TypeOK
    <3> QED
      BY <3>1 DEF ConsentInv, Busy, NoJob
  <2>4. CASE Enrich(w)
    <3> DEFINE k == job[w].claim
    <3>1. k \in Held(w) /\ k.capture \in Captures /\ ~SkipsAI(k)
      BY <2>4, HeldType DEF Enrich, Held, ConsentInv, Claim
    <3>2. event[k.capture].snapshot /\ ~event[k.capture].private
          /\ event[k.capture].status # "none"
      BY <3>1 DEF ConsentInv, SkipsAI
    <3>3. \A c \in Captures : c # k.capture => enriched'[c] = enriched[c]
      BY <2>4 DEF Enrich, TypeOK
    <3>4. EnrichedOnlyWithConsent'
      BY <2>4, <3>2, <3>3 DEF Enrich, ConsentInv, EnrichedOnlyWithConsent
    <3>5. RowsInv'
      BY <2>4, <3>2, <3>3 DEF Enrich, ConsentInv, RowsInv
    <3> QED
      BY <2>2, <2>3, <3>4, <3>5 DEF ConsentInv
  <2>5. CASE UNCHANGED enriched
    <3>1. UNCHANGED <<capture, creating>>
      BY <1>2 DEF WorkerStep, SkipItem, LoadCapture, Enrich, MarkItem, WorkerStops, MarkLost
    <3>2. RowsInv' /\ EnrichedOnlyWithConsent'
      BY <2>1, <2>5, <3>1, RowsKept, ConsentKept DEF ConsentInv
    <3> QED
      BY <2>2, <2>3, <3>2 DEF ConsentInv
  <2> QED
    BY <1>2, <2>4, <2>5 DEF WorkerStep, SkipItem, LoadCapture, MarkItem, WorkerStops, MarkLost
<1> QED
  BY <1>1, <1>2 DEF WorkerAction

LEMMA StepConsent == TypeOK /\ ConsentInv /\ [Next]_vars => ConsentInv'
<1> SUFFICES ASSUME TypeOK, ConsentInv, [Next]_vars PROVE ConsentInv'
  OBVIOUS
<1>1. CASE UNCHANGED vars
  BY <1>1, QuietConsent DEF vars, SameRows
<1> QED
  BY <1>1, CaptureConsent, RequestConsent, WorkerConsent DEF Next, WorkerAction

\* No AI step ever runs on a capture without its user's consent, for any
\* number of captures, workers and requests and any lease.
THEOREM ConsentRespected == Spec => []EnrichedOnlyWithConsent
<1>1. ConsentInv => EnrichedOnlyWithConsent
  BY DEF ConsentInv
<1> QED
  BY <1>1, TypeCorrect, InitConsent, StepConsent, PTL DEF Spec

-----------------------------------------------------------------------------
(* What a lease that outlasts the work buys.                               *)

\* An event that has not changed keeps its part of the invariant.
EventIsTrue(c) ==
  /\ event[c].status = "ready" /\ event[c].snapshot /\ ~event[c].private
       => enriched[c] = "whole"
  /\ event[c].status = "retry_wait" => event[c].attempt < MaxAttempts
  /\ event[c].status = "failed" =>
       event[c].attempt >= MaxAttempts \/ capture[c] = "deleted"

LEMMA EventsTrue ==
  (\A c \in Captures : EventIsTrue(c)) <=> ReadyMeansEnriched /\ AttemptsRespected
BY DEF EventIsTrue, ReadyMeansEnriched, AttemptsRespected

DeletedStays == \A c \in Captures : capture[c] = "deleted" => capture'[c] = "deleted"

LEMMA EventKept ==
  ASSUME NEW c \in Captures, EventIsTrue(c), DeletedStays, event'[c] = event[c],
         enriched[c] = "whole" => enriched'[c] = "whole"
  PROVE  EventIsTrue(c)'
BY DEF EventIsTrue, DeletedStays

LEMMA InitLease == Init => LeaseInv
BY DEF Init, LeaseInv, Held, Busy, NoJob, NoEvent, JobIsTrue, ExclusiveClaims,
       ReadyMeansEnriched, AttemptsRespected

\* Steps that leave the workers and the events they hold alone.
LEMMA QuietLease ==
  ASSUME TypeOK, LeaseInv, DeletedStays, UNCHANGED <<batch, job, enriched>>,
         \A c \in Captures : event'[c] = event[c] \/ event[c].status # "processing",
         \A c \in Captures : event'[c] = event[c] \/ EventIsTrue(c)'
  PROVE  LeaseInv'
<1>1. ASSUME NEW w \in Workers, NEW k \in Held(w)
      PROVE  event'[k.capture] = event[k.capture]
  BY HeldType DEF LeaseInv, Mirrors, Claim
<1>2. \A w \in Workers : \A k \in Held(w)' : Mirrors(k, event[k.capture])'
  BY <1>1, HeldUnchanged DEF LeaseInv, Mirrors
<1>3. ASSUME NEW w \in Workers PROVE JobIsTrue(w)'
  <2>1. Busy(w) => job[w].claim.capture \in Captures
    BY HeldType DEF Claim
  <2> QED
    BY <2>1, HeldUnchanged DEF LeaseInv, JobIsTrue, DeletedStays
<1>4. ExclusiveClaims'
  BY HeldUnchanged DEF LeaseInv, ExclusiveClaims
<1>5. \A c \in Captures : EventIsTrue(c)'
  BY EventKept, EventsTrue DEF LeaseInv
<1> QED
  BY <1>2, <1>3, <1>4, <1>5, EventsTrue DEF LeaseInv, ReadyMeansEnriched, AttemptsRespected, EventIsTrue

LEMMA CaptureLease ==
  ASSUME LeaseOutlastsWork, TypeOK, ConsentInv, LeaseInv, NEW c \in Captures, CaptureStep(c)
  PROVE  LeaseInv'
<1>1. CASE ResolvePolicySnapshot(c)
  BY <1>1, QuietLease DEF ResolvePolicySnapshot, DeletedStays
<1>2. CASE InsertCapture(c)
  <2>1. capture[c] = "absent" /\ event[c].status = "none"
    BY <1>2 DEF InsertCapture, ConsentInv, RowsInv, TypeOK
  <2>2. event'[c].status = "queued" /\ \A d \in Captures \ {c} : event'[d] = event[d]
    BY <1>2 DEF InsertCapture, TypeOK
  <2>3. DeletedStays
    BY <1>2, <2>1 DEF InsertCapture, DeletedStays, TypeOK
  <2> QED
    BY <1>2, <2>1, <2>2, <2>3, QuietLease DEF InsertCapture, EventIsTrue
<1>3. CASE DeleteCapture(c)
  BY <1>3, QuietLease DEF DeleteCapture, DeletedStays, TypeOK
<1>4. CASE BackoffElapses(c)
  <2>1. /\ event'[c].status = event[c].status /\ event'[c].attempt = event[c].attempt
        /\ \A d \in Captures \ {c} : event'[d] = event[d]
    BY <1>4 DEF BackoffElapses, TypeOK, Event
  <2>2. EventIsTrue(c)'
    BY <1>4, <2>1, EventsTrue DEF EventIsTrue, BackoffElapses, LeaseInv
  <2> QED
    BY <1>4, <2>1, <2>2, QuietLease DEF BackoffElapses, DeletedStays
<1>5. CASE LeaseExpires(c)
  <2>1. \A w \in Workers : \A k \in Held(w) : k.capture # c
    BY <1>5 DEF LeaseExpires, Holds
  <2>2. event'[c].status = "processing" /\ \A d \in Captures \ {c} : event'[d] = event[d]
    BY <1>5 DEF LeaseExpires, TypeOK, Event
  <2>3. UNCHANGED <<batch, job, enriched, capture>>
    BY <1>5 DEF LeaseExpires
  <2>4. ASSUME NEW w \in Workers, NEW k \in Held(w)'
        PROVE  Mirrors(k, event[k.capture])'
    <3>1. k \in Held(w) /\ k.capture \in Captures \ {c}
      BY <2>1, <2>3, HeldUnchanged, HeldType DEF Claim
    <3> QED
      BY <2>2, <3>1 DEF LeaseInv, Mirrors
  <2>5. \A d \in Captures : EventIsTrue(d)'
    BY <2>2, <2>3, EventKept, EventsTrue DEF LeaseInv, EventIsTrue, DeletedStays
  <2>6. ExclusiveClaims' /\ \A w \in Workers : JobIsTrue(w)'
    BY <2>3, HeldUnchanged DEF LeaseInv, ExclusiveClaims, JobIsTrue
  <2> QED
    BY <2>4, <2>5, <2>6, EventsTrue
    DEF LeaseInv, ReadyMeansEnriched, AttemptsRespected, EventIsTrue
<1>6. CASE LeaseExpiresEarly(c)
  BY <1>6 DEF LeaseExpiresEarly
<1> QED
  BY <1>1, <1>2, <1>3, <1>4, <1>5, <1>6 DEF CaptureStep

LEMMA RequestLease ==
  ASSUME TypeOK, LeaseInv, NEW r \in Requests, RequestStep(r)
  PROVE  LeaseInv'
<1>0. \A c \in Captures : event[c] \in Event
  BY DEF TypeOK
<1>1. CASE CancelQueued(r)
  <2>1. ASSUME NEW c \in Captures
        PROVE  \/ event'[c] = event[c]
               \/ event[c].status # "processing" /\ event'[c].status = "cancelled"
    BY <1>0, <1>1, CancelEvents, CancelledFields DEF Waiting
  <2> QED
    BY <1>1, <2>1, QuietLease DEF CancelQueued, DeletedStays, EventIsTrue
<1>2. CASE ReorganizeByUser(r)
  <2>1. ASSUME NEW c \in Captures
        PROVE  \/ event'[c] = event[c]
               \/ event[c].status # "processing" /\ event'[c].status = "queued"
    <3>1. event'[c] = IF Reorganizable(event[c]) THEN Requeued(event[c]) ELSE event[c]
      BY <1>2, ReorganizeEvents
    <3>2. Requeued(event[c]).status = "queued"
      BY <1>0, RequeuedFields
    <3> QED
      BY <3>1, <3>2 DEF Reorganizable
  <2> QED
    BY <1>2, <2>1, QuietLease DEF ReorganizeByUser, DeletedStays, EventIsTrue
<1>3. CASE UpdateRead(r) \/ UpdateWrite(r) \/ ReorganizeRead(r) \/ RequestDies(r)
  <2>1. UNCHANGED <<event, batch, job, enriched, capture>>
    BY <1>3 DEF UpdateRead, UpdateWrite, ReorganizeRead, RequestDies
  <2> QED
    BY <2>1, QuietLease DEF DeletedStays
<1> QED
  BY <1>1, <1>2, <1>3 DEF RequestStep

\* Steps of worker w that drop claims and change no event another one holds.
LEMMA WorkLease ==
  ASSUME TypeOK, LeaseInv, NEW w \in Workers, HeldShrinks, UNCHANGED capture,
         \A v \in Workers \ {w} : job'[v] = job[v] /\ batch'[v] = batch[v],
         \A c \in Captures : enriched[c] = "whole" => enriched'[c] = "whole",
         \A v \in Workers : \A k \in Held(v)' : event'[k.capture] = event[k.capture],
         JobIsTrue(w)', \A c \in Captures : EventIsTrue(c)'
  PROVE  LeaseInv'
<1>1. ASSUME NEW v \in Workers, NEW k \in Held(v)'
      PROVE  Mirrors(k, event[k.capture])'
  BY DEF LeaseInv, HeldShrinks, Mirrors
<1>2. ExclusiveClaims'
  BY DEF LeaseInv, ExclusiveClaims, HeldShrinks
<1>3. ASSUME NEW v \in Workers \ {w} PROVE JobIsTrue(v)'
  <2>1. Busy(v) => job[v].claim.capture \in Captures
    BY HeldType DEF Claim
  <2> QED
    BY <2>1 DEF LeaseInv, JobIsTrue, Busy
<1> QED
  BY <1>1, <1>2, <1>3, EventsTrue DEF LeaseInv, ReadyMeansEnriched, AttemptsRespected, EventIsTrue

\* Recording the outcome of a claim that is dropped.
LEMMA MarkLease ==
  ASSUME TypeOK, LeaseInv, NEW w \in Workers, NEW k \in Held(w), NEW outcome \in Statuses,
         Mark(k.capture, outcome), k \notin Held(w)', HeldShrinks,
         UNCHANGED <<capture, enriched>>,
         \A v \in Workers \ {w} : job'[v] = job[v] /\ batch'[v] = batch[v],
         JobIsTrue(w)',
         outcome = "ready" => SkipsAI(k) \/ enriched[k.capture] = "whole",
         outcome = "retry_wait" => k.attempt < MaxAttempts,
         outcome = "failed" => k.attempt >= MaxAttempts \/ capture[k.capture] = "deleted"
  PROVE  LeaseInv'
<1> DEFINE c == k.capture
<1>1. k.capture \in Captures /\ event[k.capture] \in Event /\ Mirrors(k, event[k.capture])
  BY HeldType DEF Claim, TypeOK, LeaseInv
<1>2. event'[k.capture] = Marked(event[k.capture], outcome)
  BY <1>1, MarkEvents DEF Mirrors
<1>3. /\ event'[k.capture].status = outcome
      /\ event'[k.capture].attempt = k.attempt
      /\ event'[k.capture].snapshot = k.snapshot
      /\ event'[k.capture].private = k.private
  <2>1. /\ Marked(event[k.capture], outcome).status = outcome
        /\ Marked(event[k.capture], outcome).attempt = event[k.capture].attempt
        /\ Marked(event[k.capture], outcome).snapshot = event[k.capture].snapshot
        /\ Marked(event[k.capture], outcome).private = event[k.capture].private
    BY <1>1, MarkedFields
  <2> QED
    BY <1>1, <1>2, <2>1 DEF Mirrors
<1>4. \A d \in Captures : d # k.capture => event'[d] = event[d]
  BY <1>1, MarkEvents
<1>5. ASSUME NEW v \in Workers, NEW h \in Held(v)'
      PROVE  event'[h.capture] = event[h.capture]
  <2>1. h \in Held(v) /\ h.capture \in Captures
    BY HeldType DEF HeldShrinks, Claim
  <2>2. h.capture # k.capture
    BY <1>5, <2>1 DEF LeaseInv, ExclusiveClaims
  <2> QED
    BY <1>4, <2>1, <2>2
<1>6. EventIsTrue(k.capture)'
  BY <1>3 DEF EventIsTrue, SkipsAI
<1>7. \A d \in Captures : EventIsTrue(d)'
  BY <1>4, <1>6, EventKept, EventsTrue DEF LeaseInv, DeletedStays
<1> QED
  BY <1>5, <1>7, WorkLease

LEMMA WorkerLease ==
  ASSUME LeaseOutlastsWork, TypeOK, ConsentInv, LeaseInv, NEW w \in Workers, WorkerAction(w)
  PROVE  LeaseInv'
<1>1. CASE ClaimDue(w)
  <2>1. PICK S \in SUBSET Captures :
           /\ \A c \in S : Claimable(event[c])
           /\ \A c \in Captures :
                event'[c] = IF c \in S THEN Claimed(event[c]) ELSE event[c]
           /\ Held(w)' = {ClaimOf(c) : c \in S} /\ Held(w) = {}
           /\ ~Busy(w)'
           /\ \A v \in Workers \ {w} : Held(v)' = Held(v) /\ Busy(v)' = Busy(v)
    BY <1>1, ClaimEvents
  <2>2. ASSUME NEW v \in Workers, NEW k \in Held(v)
        PROVE  k.capture \in Captures \ S
    <3>1. k.capture \in Captures /\ Mirrors(k, event[k.capture])
      BY HeldType DEF LeaseInv, Claim
    <3> QED
      BY <2>1, <3>1 DEF Mirrors, Claimable, Waiting
  <2>3. ASSUME NEW c \in S
        PROVE  Mirrors(ClaimOf(c), event'[c]) /\ ClaimOf(c).capture = c
    <3>1. event[c] \in Event /\ event'[c] = Claimed(event[c])
      BY <2>1 DEF TypeOK
    <3> QED
      BY <3>1, ClaimedFields DEF ClaimOf, Mirrors
  <2>4. ASSUME NEW v \in Workers, NEW k \in Held(v)'
        PROVE  Mirrors(k, event[k.capture])'
    <3>1. CASE v = w
      BY <2>1, <2>3, <3>1 DEF Mirrors
    <3>2. CASE v # w
      <4>1. k \in Held(v)
        BY <2>1, <3>2
      <4>2. event'[k.capture] = event[k.capture]
        BY <2>1, <2>2, <4>1
      <4> QED
        BY <4>1, <4>2 DEF LeaseInv, Mirrors
    <3> QED
      BY <3>1, <3>2
  <2>5. ExclusiveClaims'
    BY <2>1, <2>2, <2>3 DEF LeaseInv, ExclusiveClaims
  <2>6. ASSUME NEW v \in Workers PROVE JobIsTrue(v)'
    <3>1. UNCHANGED <<job, enriched, capture>>
      BY <1>1 DEF ClaimDue
    <3>2. v # w => batch'[v] = batch[v]
      BY <1>1 DEF ClaimDue, TypeOK
    <3> QED
      BY <2>1, <3>1, <3>2 DEF LeaseInv, JobIsTrue, Busy
  <2>7. \A c \in S : event'[c].status = "processing"
    BY <2>3 DEF Mirrors
  <2>8. \A c \in Captures : EventIsTrue(c)'
    <3>1. UNCHANGED <<enriched, capture>>
      BY <1>1 DEF ClaimDue
    <3> QED
      BY <2>1, <2>7, <3>1, EventKept, EventsTrue DEF LeaseInv, EventIsTrue, DeletedStays
  <2> QED
    BY <2>4, <2>5, <2>6, <2>8, EventsTrue
    DEF LeaseInv, ReadyMeansEnriched, AttemptsRespected, EventIsTrue
<1>2. CASE SkipItem(w)
  <2>1. PICK k \in batch[w] :
          SkipsAI(k) /\ Mark(k.capture, "ready") /\ batch' = [batch EXCEPT ![w] = @ \ {k}]
    BY <1>2 DEF SkipItem
  <2>2. ~Busy(w) /\ UNCHANGED <<job, capture, enriched>>
    BY <1>2 DEF SkipItem
  <2>3. k \in Held(w) /\ k \notin Held(w)' /\ ~Busy(w)'
    BY <2>1, <2>2 DEF Held, Busy, TypeOK
  <2>4. \A v \in Workers \ {w} : job'[v] = job[v] /\ batch'[v] = batch[v]
    BY <2>1, <2>2 DEF TypeOK
  <2>5. "ready" \in Statuses
    BY DEF Statuses
  <2>6. HeldShrinks
    BY <1>2, WorkHeld DEF WorkerStep
  <2> QED
    BY <2>1, <2>2, <2>3, <2>4, <2>5, <2>6, MarkLease DEF JobIsTrue
<1>3. CASE LoadCapture(w)
  <2>0. PICK k \in batch[w] :
           /\ ~SkipsAI(k)
           /\ \E step \in {IF capture[k.capture] = "live" THEN "enrich" ELSE "mark_failed",
                           AfterError(k)} :
                job' = [job EXCEPT ![w] = [step |-> step, claim |-> k]]
           /\ batch' = [batch EXCEPT ![w] = @ \ {k}]
    BY <1>3 DEF LoadCapture
  <2>1. PICK step \in {IF capture[k.capture] = "live" THEN "enrich" ELSE "mark_failed",
                       AfterError(k)} :
           /\ ~SkipsAI(k)
           /\ job' = [job EXCEPT ![w] = [step |-> step, claim |-> k]]
           /\ batch' = [batch EXCEPT ![w] = @ \ {k}]
    BY <2>0
  <2>2. UNCHANGED <<event, enriched, capture>>
    BY <1>3 DEF LoadCapture
  <2>3. k \in Held(w) /\ k.capture \in Captures /\ k.attempt \in Nat
    BY <2>1, HeldType DEF Held, TypeOK, Claim
  <2>4. event[k.capture].status # "none"
    BY <2>3 DEF ConsentInv
  <2>5. capture[k.capture] \in {"live", "deleted"}
    BY <2>3, <2>4 DEF ConsentInv, RowsInv, TypeOK
  <2>6. job'[w] = [step |-> step, claim |-> k] /\ batch'[w] = batch[w] \ {k}
    BY <2>1 DEF TypeOK
  <2>7. JobIsTrue(w)'
    BY <2>1, <2>2, <2>3, <2>5, <2>6, MaxAttemptsAssumption DEF JobIsTrue, AfterError
  <2>8. \A v \in Workers \ {w} : job'[v] = job[v] /\ batch'[v] = batch[v]
    BY <2>1 DEF TypeOK
  <2>9. HeldShrinks
    BY <1>3, WorkHeld DEF WorkerStep
  <2>10. \A c \in Captures : EventIsTrue(c)'
    BY <2>2, EventsTrue DEF LeaseInv, EventIsTrue
  <2> QED
    BY <2>2, <2>7, <2>8, <2>9, <2>10, WorkLease
<1>4. CASE Enrich(w)
  <2> DEFINE k == job[w].claim
  <2>1. UNCHANGED <<event, batch, capture>>
    BY <1>4 DEF Enrich
  <2>2. Busy(w) /\ k \in Claim /\ k.capture \in Captures /\ k.attempt \in Nat
    BY <1>4, HeldType DEF Enrich, Claim
  <2>3. \A c \in Captures : enriched[c] = "whole" => enriched'[c] = "whole"
    BY <1>4, <2>2 DEF Enrich, TypeOK
  <2>4. \/ job'[w] = [step |-> "mark_ready", claim |-> k] /\ enriched'[k.capture] = "whole"
        \/ job'[w] = [step |-> AfterError(k), claim |-> k]
    BY <1>4, <2>2 DEF Enrich, TypeOK
  <2>5. JobIsTrue(w)'
    BY <2>1, <2>2, <2>4, MaxAttemptsAssumption DEF JobIsTrue, AfterError, LeaseInv
  <2>6. \A v \in Workers \ {w} : job'[v] = job[v] /\ batch'[v] = batch[v]
    BY <1>4 DEF Enrich, TypeOK
  <2>7. HeldShrinks
    BY <1>4, WorkHeld DEF WorkerStep
  <2>8. \A c \in Captures : EventIsTrue(c)'
    BY <2>1, <2>3, EventKept, EventsTrue DEF LeaseInv, DeletedStays
  <2> QED
    BY <2>1, <2>3, <2>5, <2>6, <2>7, <2>8, WorkLease
<1>5. CASE MarkItem(w)
  <2> DEFINE k == job[w].claim
  <2>1. /\ Busy(w) /\ Mark(k.capture, Outcome(job[w].step)) /\ job'[w] = NoJob
        /\ job[w].step \in JobSteps \ {"enrich"}
        /\ UNCHANGED <<batch, capture, enriched>>
    BY <1>5, HeldType DEF MarkItem, TypeOK
  <2>2. k \in Held(w) /\ k \notin Held(w)' /\ ~Busy(w)'
    BY <2>1 DEF Held, Busy, NoJob, LeaseInv, JobIsTrue
  <2>3. \A v \in Workers \ {w} : job'[v] = job[v] /\ batch'[v] = batch[v]
    BY <1>5 DEF MarkItem, TypeOK
  <2>4. HeldShrinks
    BY <1>5, WorkHeld DEF WorkerStep
  <2>5. /\ Outcome(job[w].step) \in Statuses
        /\ Outcome(job[w].step) = "ready" => enriched[k.capture] = "whole"
        /\ Outcome(job[w].step) = "retry_wait" => k.attempt < MaxAttempts
        /\ Outcome(job[w].step) = "failed" =>
             k.attempt >= MaxAttempts \/ capture[k.capture] = "deleted"
    BY <2>1 DEF Outcome, JobSteps, Statuses, LeaseInv, JobIsTrue
  <2> QED
    BY <2>1, <2>2, <2>3, <2>4, <2>5, MarkLease DEF JobIsTrue
<1>6. CASE WorkerStops(w) \/ MarkLost(w)
  <2>1. UNCHANGED <<event, enriched, capture>>
    BY <1>6 DEF WorkerStops, MarkLost
  <2>2. HeldShrinks
    BY <1>6, WorkHeld
  <2>3. \A v \in Workers \ {w} : job'[v] = job[v] /\ batch'[v] = batch[v]
    BY <1>6 DEF WorkerStops, MarkLost, TypeOK
  <2>4. ~Busy(w)'
    BY <1>6 DEF WorkerStops, MarkLost, TypeOK, Busy, NoJob
  <2>5. \A c \in Captures : EventIsTrue(c)'
    BY <2>1, EventsTrue DEF LeaseInv, EventIsTrue
  <2> QED
    BY <2>1, <2>2, <2>3, <2>4, <2>5, WorkLease DEF JobIsTrue
<1> QED
  BY <1>1, <1>2, <1>3, <1>4, <1>5, <1>6 DEF WorkerAction, WorkerStep

LEMMA StepLease ==
  LeaseOutlastsWork /\ TypeOK /\ ConsentInv /\ LeaseInv /\ [Next]_vars => LeaseInv'
<1> SUFFICES ASSUME LeaseOutlastsWork, TypeOK, ConsentInv, LeaseInv, [Next]_vars
             PROVE  LeaseInv'
  OBVIOUS
<1>1. CASE UNCHANGED vars
  BY <1>1, QuietLease DEF vars, DeletedStays
<1> QED
  BY <1>1, CaptureLease, RequestLease, WorkerLease DEF Next, WorkerAction

LEMMA LeaseInvariant == ASSUME LeaseOutlastsWork PROVE Spec => [](ConsentInv /\ LeaseInv)
BY TypeCorrect, InitConsent, StepConsent, InitLease, StepLease, PTL DEF Spec

\* No two workers are ever at work on the same event, if a worker that lives
\* finishes its batch within the lease.
THEOREM ClaimsAreExclusive == ASSUME LeaseOutlastsWork PROVE Spec => []ExclusiveClaims
<1>1. LeaseInv => ExclusiveClaims
  BY DEF LeaseInv
<1> QED
  BY <1>1, LeaseInvariant, PTL

\* Under the same assumption an event that needed enrichment is marked ready
\* only after the whole pipeline has succeeded.
THEOREM ReadyIsEnriched == ASSUME LeaseOutlastsWork PROVE Spec => []ReadyMeansEnriched
<1>1. LeaseInv => ReadyMeansEnriched
  BY DEF LeaseInv
<1> QED
  BY <1>1, LeaseInvariant, PTL

\* Under the same assumption no event is retried beyond MaxAttempts, and none
\* is given up earlier unless its capture was deleted.
THEOREM AttemptsAreRespected == ASSUME LeaseOutlastsWork PROVE Spec => []AttemptsRespected
<1>1. LeaseInv => AttemptsRespected
  BY DEF LeaseInv
<1> QED
  BY <1>1, LeaseInvariant, PTL

-----------------------------------------------------------------------------
(* Recorded outcomes, whatever the lease does.                             *)

\* What OutcomesAreFinal says of one event and one step.
StaysFinal(c) ==
  /\ event[c].status \in {"failed", "cancelled"} => event'[c].status = event[c].status
  /\ event[c].status = "ready" /\ event'[c].status # "ready"
       => ~event[c].snapshot /\ event'[c].status = "queued"

\* Most steps change only events without an outcome.
LEMMA OpenEvents ==
  ASSUME NEW c \in Captures,
         event'[c] = event[c] \/ event[c].status \notin {"ready", "failed", "cancelled"}
  PROVE  StaysFinal(c)
BY DEF StaysFinal

LEMMA StepFinal ==
  ASSUME TypeOK, ConsentInv, Next, NEW c \in Captures
  PROVE  StaysFinal(c)
<1>1. ASSUME NEW d \in Captures, CaptureStep(d) PROVE StaysFinal(c)
  <2>1. CASE InsertCapture(d)
    <3>1. event[d].status = "none"
      BY <2>1 DEF InsertCapture, ConsentInv, RowsInv, TypeOK
    <3>2. c # d => event'[c] = event[c]
      BY <2>1 DEF InsertCapture, TypeOK
    <3> QED
      BY <3>1, <3>2, OpenEvents
  <2>2. CASE ResolvePolicySnapshot(d) \/ DeleteCapture(d)
    BY <2>2, OpenEvents DEF ResolvePolicySnapshot, DeleteCapture
  <2>3. CASE BackoffElapses(d) \/ LeaseExpires(d) \/ LeaseExpiresEarly(d)
    <3>1. /\ event[d].status \in {"retry_wait", "processing"}
          /\ \E field \in {"due", "stale"} :
               event' = [event EXCEPT ![d] = [@ EXCEPT ![field] = TRUE]]
      BY <2>3 DEF BackoffElapses, LeaseExpires, LeaseExpiresEarly
    <3>2. c # d => event'[c] = event[c]
      BY <3>1 DEF TypeOK
    <3> QED
      BY <3>1, <3>2, OpenEvents
  <2> QED
    BY <1>1, <2>1, <2>2, <2>3 DEF CaptureStep
<1>2. ASSUME NEW r \in Requests, RequestStep(r) PROVE StaysFinal(c)
  <2>1. CASE CancelQueued(r)
    BY <2>1, CancelEvents, OpenEvents DEF Waiting
  <2>2. CASE ReorganizeByUser(r)
    <3>1. CASE Reorganizable(event[c])
      <4>1. event'[c].status = "queued"
        <5>1. event'[c] = Requeued(event[c]) /\ event[c] \in Event
          BY <2>2, <3>1, ReorganizeEvents DEF TypeOK
        <5> QED
          BY <5>1, RequeuedFields
      <4> QED
        BY <3>1, <4>1 DEF StaysFinal, Reorganizable
    <3>2. CASE ~Reorganizable(event[c])
      BY <2>2, <3>2, ReorganizeEvents, OpenEvents
    <3> QED
      BY <3>1, <3>2
  <2>3. CASE UpdateRead(r) \/ UpdateWrite(r) \/ ReorganizeRead(r) \/ RequestDies(r)
    BY <2>3, OpenEvents DEF UpdateRead, UpdateWrite, ReorganizeRead, RequestDies
  <2> QED
    BY <1>2, <2>1, <2>2, <2>3 DEF RequestStep
<1>3. ASSUME NEW w \in Workers, WorkerAction(w) PROVE StaysFinal(c)
  <2>1. CASE ClaimDue(w)
    BY <2>1, ClaimEvents, OpenEvents DEF Claimable, Waiting
  <2>2. CASE SkipItem(w)
    <3>1. PICK k \in batch[w] : Mark(k.capture, "ready")
      BY <2>2 DEF SkipItem
    <3>2. k.capture \in Captures
      BY <3>1 DEF TypeOK, Claim
    <3> QED
      BY <3>1, <3>2, MarkEvents, OpenEvents
  <2>3. CASE MarkItem(w)
    <3>1. job[w].claim.capture \in Captures
      BY <2>3, HeldType DEF MarkItem, Claim
    <3> QED
      BY <2>3, <3>1, MarkEvents, OpenEvents DEF MarkItem
  <2>4. CASE UNCHANGED event
    BY <2>4, OpenEvents
  <2> QED
    BY <1>3, <2>1, <2>2, <2>3, <2>4
    DEF WorkerAction, WorkerStep, LoadCapture, Enrich, WorkerStops, MarkLost
<1> QED
  BY <1>1, <1>2, <1>3 DEF Next, WorkerAction

\* No worker, however late, overwrites a recorded outcome: the guard on the
\* status in MarkReady, MarkFailed and MarkRetryWait is enough.
THEOREM OutcomesStay == Spec => OutcomesAreFinal
<1>1. TypeOK /\ ConsentInv /\ [Next]_vars =>
        [\A c \in Captures :
           /\ event[c].status \in {"failed", "cancelled"} => event'[c].status = event[c].status
           /\ event[c].status = "ready" /\ event'[c].status # "ready"
                => ~event[c].snapshot /\ event'[c].status = "queued"]_vars
  BY StepFinal DEF StaysFinal
<1> QED
  BY <1>1, TypeCorrect, InitConsent, StepConsent, PTL DEF Spec, OutcomesAreFinal

-----------------------------------------------------------------------------
(* The abstract task: with a lease that outlasts the work every step of the *)
(* outbox is a step of EnrichmentTask or leaves it unchanged                *)

\* The abstract state is a function of these fields alone.
LEMMA Stutter ==
  ASSUME \A c \in Captures :
           /\ Stage(event'[c]) = Stage(event[c])
           /\ event'[c].snapshot = event[c].snapshot
           /\ event'[c].private = event[c].private
           /\ enriched'[c] = "whole" <=> enriched[c] = "whole"
  PROVE  UNCHANGED Task!vars
<1>1. [c \in Captures |-> Stage(event[c])]' = [c \in Captures |-> Stage(event[c])]
  OBVIOUS
<1>2. [c \in Captures |-> event[c].snapshot]' = [c \in Captures |-> event[c].snapshot]
  OBVIOUS
<1>3. [c \in Captures |-> event[c].private]' = [c \in Captures |-> event[c].private]
  OBVIOUS
<1>4. [c \in Captures |-> enriched[c] = "whole"]' = [c \in Captures |-> enriched[c] = "whole"]
  OBVIOUS
<1> QED
  BY <1>1, <1>2, <1>3, <1>4 DEF Task!vars

LEMMA InitRefines == Init => Task!Init
<1> SUFFICES ASSUME Init PROVE Task!Init
  OBVIOUS
<1>1. \A c \in Captures : /\ event[c].status = "none" /\ event[c].snapshot = FALSE
                         /\ event[c].private = FALSE /\ enriched[c] = "none"
  BY DEF Init, NoEvent
<1>2. [c \in Captures |-> Stage(event[c])] = [c \in Captures |-> "absent"]
  BY <1>1 DEF Stage, Waiting
<1>3. [c \in Captures |-> event[c].snapshot] = [c \in Captures |-> FALSE]
  BY <1>1
<1>4. [c \in Captures |-> event[c].private] = [c \in Captures |-> FALSE]
  BY <1>1
<1>5. [c \in Captures |-> enriched[c] = "whole"] = [c \in Captures |-> FALSE]
  BY <1>1
<1> QED
  BY <1>2, <1>3, <1>4, <1>5 DEF Task!Init

LEMMA SubmitRefines ==
  ASSUME TypeOK, ConsentInv, NEW c \in Captures, InsertCapture(c)
  PROVE  Task!Submit(c)
<1>1. PICK snapshot \in creating[c], private \in BOOLEAN :
        event' = [event EXCEPT ![c] =
          [status |-> "queued", attempt |-> 0, snapshot |-> snapshot,
           private |-> private, due |-> TRUE, stale |-> FALSE]]
  BY DEF InsertCapture
<1>2. event[c].status = "none" /\ snapshot \in BOOLEAN /\ UNCHANGED enriched
  BY <1>1 DEF InsertCapture, ConsentInv, RowsInv, TypeOK
<1>3. /\ event'[c].status = "queued" /\ event'[c].snapshot = snapshot
      /\ event'[c].private = private
      /\ \A d \in Captures \ {c} : event'[d] = event[d]
  BY <1>1 DEF TypeOK
<1>4. [d \in Captures |-> Stage(event[d])]'
        = [[d \in Captures |-> Stage(event[d])] EXCEPT ![c] = "waiting"]
  BY <1>3 DEF Stage, Waiting
<1>5. [d \in Captures |-> event[d].snapshot]'
        = [[d \in Captures |-> event[d].snapshot] EXCEPT ![c] = snapshot]
  BY <1>3
<1>6. [d \in Captures |-> event[d].private]'
        = [[d \in Captures |-> event[d].private] EXCEPT ![c] = private]
  BY <1>3
<1>7. Stage(event[c]) = "absent"
  BY <1>2 DEF Stage, Waiting
<1>8. [d \in Captures |-> enriched[d] = "whole"]' = [d \in Captures |-> enriched[d] = "whole"]
  BY <1>2
<1>9. \E given, no \in BOOLEAN :
        /\ [d \in Captures |-> event[d].snapshot]'
             = [[d \in Captures |-> event[d].snapshot] EXCEPT ![c] = given]
        /\ [d \in Captures |-> event[d].private]'
             = [[d \in Captures |-> event[d].private] EXCEPT ![c] = no]
  BY <1>2, <1>5, <1>6
<1> QED
  BY <1>4, <1>7, <1>8, <1>9 DEF Task!Submit

LEMMA CancelRefines ==
  ASSUME TypeOK, NEW r \in Requests, CancelQueued(r)
  PROVE  Task!CancelWaiting
<1>1. ASSUME NEW c \in Captures
      PROVE  /\ Stage(event'[c]) = IF Stage(event[c]) = "waiting" THEN "cancelled"
                                                                 ELSE Stage(event[c])
             /\ event'[c].snapshot = event[c].snapshot
             /\ event'[c].private = event[c].private
  <2>1. event[c] \in Event
    BY DEF TypeOK
  <2>2. CASE Waiting(event[c])
    BY <2>1, <2>2, CancelEvents, CancelledFields DEF Stage, Waiting
  <2>3. CASE ~Waiting(event[c])
    <3>1. event'[c] = event[c]
      BY <2>3, CancelEvents
    <3>2. Stage(event[c]) # "waiting"
      BY <2>1, <2>3 DEF Stage, Event, Statuses, Waiting
    <3> QED
      BY <3>1, <3>2
  <2> QED
    BY <2>2, <2>3
<1>2. UNCHANGED enriched
  BY DEF CancelQueued
<1>3. [c \in Captures |-> Stage(event[c])]'
        = [c \in Captures |-> IF Stage(event[c]) = "waiting" THEN "cancelled"
                                                            ELSE Stage(event[c])]
  BY <1>1
<1>4. UNCHANGED <<[c \in Captures |-> event[c].snapshot], [c \in Captures |-> event[c].private],
                  [c \in Captures |-> enriched[c] = "whole"]>>
  BY <1>1, <1>2
<1> QED
  BY <1>3, <1>4 DEF Task!CancelWaiting

LEMMA ReopenRefines ==
  ASSUME TypeOK, NEW r \in Requests, ReorganizeByUser(r)
  PROVE  Task!ReopenSkipped
<1> DEFINE skipped == {c \in Captures : Stage(event[c]) = "done" /\ ~event[c].snapshot}
<1>1. ASSUME NEW c \in Captures
      PROVE  /\ Stage(event'[c]) = IF c \in skipped THEN "waiting" ELSE Stage(event[c])
             /\ event'[c].snapshot = (c \in skipped \/ event[c].snapshot)
             /\ event'[c].private = event[c].private
  <2>1. event[c] \in Event
    BY DEF TypeOK
  <2>2. Reorganizable(event[c]) <=> c \in skipped
    BY <2>1 DEF Reorganizable, Stage, Waiting, Event, Statuses
  <2>3. CASE Reorganizable(event[c])
    <3>1. event'[c] = Requeued(event[c])
      BY <2>3, ReorganizeEvents
    <3>2. /\ event'[c].status = "queued" /\ event'[c].snapshot = TRUE
          /\ event'[c].private = event[c].private
      BY <2>1, <3>1, RequeuedFields
    <3>3. Stage(event'[c]) = "waiting"
      BY <3>2 DEF Stage, Waiting
    <3> QED
      BY <2>2, <2>3, <3>2, <3>3
  <2>4. CASE ~Reorganizable(event[c])
    <3>1. event'[c] = event[c] /\ c \notin skipped
      BY <2>2, <2>4, ReorganizeEvents
    <3>2. event[c].snapshot \in BOOLEAN
      BY <2>1 DEF Event
    <3> HIDE DEF skipped
    <3> QED
      BY <3>1, <3>2
  <2> QED
    BY <2>3, <2>4
<1>2. UNCHANGED enriched
  BY DEF ReorganizeByUser
<1>3. [c \in Captures |-> Stage(event[c])]'
        = [c \in Captures |-> IF c \in skipped THEN "waiting" ELSE Stage(event[c])]
  BY <1>1
<1>4. [c \in Captures |-> event[c].snapshot]'
        = [c \in Captures |-> c \in skipped \/ event[c].snapshot]
  BY <1>1
<1>5. UNCHANGED <<[c \in Captures |-> event[c].private],
                  [c \in Captures |-> enriched[c] = "whole"]>>
  BY <1>1, <1>2
<1> QED
  BY <1>3, <1>4, <1>5 DEF Task!ReopenSkipped

LEMMA StartRefines ==
  ASSUME TypeOK, NEW w \in Workers, ClaimDue(w)
  PROVE  \E S \in SUBSET Captures : Task!Start(S)
<1>1. PICK C \in SUBSET Captures :
         /\ \A c \in C : Claimable(event[c])
         /\ \A c \in Captures : event'[c] = IF c \in C THEN Claimed(event[c]) ELSE event[c]
  BY ClaimEvents
<1> DEFINE S == {c \in C : Waiting(event[c])}
<1>2. ASSUME NEW c \in Captures
      PROVE  /\ Stage(event'[c]) = IF c \in S THEN "running" ELSE Stage(event[c])
             /\ c \in S => Stage(event[c]) = "waiting"
             /\ event'[c].snapshot = event[c].snapshot
             /\ event'[c].private = event[c].private
  <2>1. event[c] \in Event
    BY DEF TypeOK
  <2>2. CASE c \in C
    <3>1. event'[c] = Claimed(event[c])
      BY <1>1, <2>2
    <3>2. /\ event'[c].status = "processing"
          /\ event'[c].snapshot = event[c].snapshot /\ event'[c].private = event[c].private
      BY <2>1, <3>1, ClaimedFields
    <3>3. Waiting(event[c]) \/ event[c].status = "processing"
      BY <1>1, <2>2 DEF Claimable
    <3> QED
      BY <2>2, <3>2, <3>3 DEF Stage, Waiting
  <2>3. CASE c \notin C
    BY <1>1, <2>3
  <2> QED
    BY <2>2, <2>3
<1>3. UNCHANGED enriched
  BY DEF ClaimDue
<1>4. [c \in Captures |-> Stage(event[c])]'
        = [c \in Captures |-> IF c \in S THEN "running" ELSE Stage(event[c])]
  BY <1>2
<1>5. UNCHANGED <<[c \in Captures |-> event[c].snapshot], [c \in Captures |-> event[c].private],
                  [c \in Captures |-> enriched[c] = "whole"]>>
  BY <1>2, <1>3
<1>6. \A c \in S : Stage(event[c]) = "waiting"
  BY <1>2
<1> HIDE DEF S
<1>7. Task!Start(S)
  <2>1. S \subseteq Captures
    BY DEF S
  <2> QED
    BY <1>4, <1>5, <1>6, <2>1 DEF Task!Start
<1>8. S \in SUBSET Captures
  BY DEF S
<1> QED
  BY <1>7, <1>8

\* The pipeline's success is the task's work; a partial effect is invisible.
LEMMA EnrichRefines ==
  ASSUME TypeOK, LeaseInv, NEW w \in Workers, Enrich(w)
  PROVE  (\E c \in Captures : Task!Work(c)) \/ UNCHANGED Task!vars
<1> DEFINE k == job[w].claim
<1>1. Busy(w) /\ k \in Held(w) /\ k.capture \in Captures /\ UNCHANGED event
  BY HeldType DEF Enrich, Held, Claim
<1>2. Mirrors(k, event[k.capture]) /\ ~SkipsAI(k)
  BY <1>1 DEF LeaseInv, JobIsTrue
<1>3. CASE enriched' = [enriched EXCEPT ![k.capture] = "whole"]
  <2>1. [c \in Captures |-> enriched[c] = "whole"]'
          = [[c \in Captures |-> enriched[c] = "whole"] EXCEPT ![k.capture] = TRUE]
    BY <1>3 DEF TypeOK
  <2>2. Stage(event[k.capture]) = "running"
    BY <1>2 DEF Mirrors, Stage, Waiting
  <2>3. event[k.capture].snapshot /\ ~event[k.capture].private
    BY <1>2 DEF Mirrors, SkipsAI
  <2>4. UNCHANGED <<[c \in Captures |-> Stage(event[c])], [c \in Captures |-> event[c].snapshot],
                    [c \in Captures |-> event[c].private]>>
    BY <1>1
  <2>5. PICK c \in Captures : c = k.capture
    BY <1>1
  <2>6. Task!Wanted(c)
    BY <2>3, <2>5 DEF Task!Wanted
  <2>7. Task!Work(c)
    BY <2>1, <2>2, <2>4, <2>5, <2>6 DEF Task!Work
  <2> QED
    BY <2>7
<1>4. CASE enriched[k.capture] = "none" /\ enriched' = [enriched EXCEPT ![k.capture] = "partly"]
  <2>1. \A c \in Captures : enriched'[c] = "whole" <=> enriched[c] = "whole"
    BY <1>4 DEF TypeOK
  <2> QED
    BY <1>1, <2>1, Stutter
<1>5. CASE UNCHANGED enriched
  BY <1>1, <1>5, Stutter
<1> QED
  BY <1>3, <1>4, <1>5 DEF Enrich

\* Recording an outcome completes the task or gives it up.
LEMMA MarkRefines ==
  ASSUME TypeOK, LeaseInv, NEW w \in Workers, NEW k \in Held(w),
         NEW outcome \in {"ready", "failed", "retry_wait"}, Mark(k.capture, outcome),
         UNCHANGED enriched,
         outcome = "ready" => SkipsAI(k) \/ enriched[k.capture] = "whole",
         outcome # "ready" => ~SkipsAI(k)
  PROVE  \E c \in Captures : Task!Complete(c) \/ Task!GiveUp(c)
<1>1. k.capture \in Captures /\ event[k.capture] \in Event /\ Mirrors(k, event[k.capture])
  BY HeldType DEF Claim, TypeOK, LeaseInv
<1>2. outcome \in Statuses
  BY DEF Statuses
<1>3. /\ event'[k.capture] = Marked(event[k.capture], outcome)
      /\ \A d \in Captures : d # k.capture => event'[d] = event[d]
  BY <1>1, MarkEvents DEF Mirrors
<1>4. /\ event'[k.capture].status = outcome
      /\ event'[k.capture].snapshot = event[k.capture].snapshot
      /\ event'[k.capture].private = event[k.capture].private
  <2>1. /\ Marked(event[k.capture], outcome).status = outcome
        /\ Marked(event[k.capture], outcome).snapshot = event[k.capture].snapshot
        /\ Marked(event[k.capture], outcome).private = event[k.capture].private
    BY <1>1, <1>2, MarkedFields
  <2> QED
    BY <1>3, <2>1
<1> DEFINE next == IF outcome = "ready" THEN "done"
                   ELSE IF outcome = "failed" THEN "failed" ELSE "waiting"
<1>5. Stage(event'[k.capture]) = next
  BY <1>4 DEF Stage, Waiting
<1>6. [c \in Captures |-> Stage(event[c])]'
        = [[c \in Captures |-> Stage(event[c])] EXCEPT ![k.capture] = next]
  BY <1>1, <1>3, <1>5
<1>7. UNCHANGED <<[c \in Captures |-> event[c].snapshot], [c \in Captures |-> event[c].private],
                  [c \in Captures |-> enriched[c] = "whole"]>>
  <2>1. \A c \in Captures : event'[c].snapshot = event[c].snapshot
                            /\ event'[c].private = event[c].private
    BY <1>3, <1>4
  <2> QED
    BY <2>1
<1>8. Stage(event[k.capture]) = "running"
  BY <1>1 DEF Mirrors, Stage, Waiting
<1>9. SkipsAI(k) <=> ~(event[k.capture].snapshot /\ ~event[k.capture].private)
  BY <1>1 DEF Mirrors, SkipsAI
<1>10. CASE outcome = "ready"
  <2>1. Task!Complete(k.capture)
    BY <1>1, <1>6, <1>7, <1>8, <1>9, <1>10 DEF Task!Complete, Task!Wanted
  <2> QED
    BY <1>1, <2>1
<1>11. CASE outcome # "ready"
  <2>1. next \in {"waiting", "failed"}
    BY <1>11
  <2>2. event[k.capture].snapshot /\ ~event[k.capture].private
    BY <1>9, <1>11
  <2> HIDE DEF next
  <2>3. Task!GiveUp(k.capture)
    BY <1>1, <1>6, <1>7, <1>8, <2>1, <2>2 DEF Task!GiveUp, Task!Wanted
  <2> QED
    BY <1>1, <2>3
<1> QED
  BY <1>10, <1>11

LEMMA WorkerRefines ==
  ASSUME TypeOK, LeaseInv, NEW w \in Workers, WorkerAction(w)
  PROVE  [Task!Next]_(Task!vars)
<1>1. CASE ClaimDue(w)
  BY <1>1, StartRefines DEF Task!Next
<1>2. CASE SkipItem(w)
  <2>1. PICK k \in batch[w] : SkipsAI(k) /\ Mark(k.capture, "ready")
    BY <1>2 DEF SkipItem
  <2>2. k \in Held(w) /\ UNCHANGED enriched
    BY <1>2, <2>1 DEF SkipItem, Held
  <2>3. \E c \in Captures : Task!Complete(c) \/ Task!GiveUp(c)
    BY <2>1, <2>2, MarkRefines
  <2> QED
    BY <2>3 DEF Task!Next
<1>3. CASE Enrich(w)
  BY <1>3, EnrichRefines DEF Task!Next
<1>4. CASE MarkItem(w)
  <2> DEFINE k == job[w].claim
  <2>1. /\ Busy(w) /\ Mark(k.capture, Outcome(job[w].step)) /\ UNCHANGED enriched
        /\ job[w].step \in JobSteps \ {"enrich"} /\ k \in Held(w)
    BY <1>4, HeldType DEF MarkItem, Held
  <2>2. /\ Outcome(job[w].step) \in {"ready", "failed", "retry_wait"}
        /\ Outcome(job[w].step) = "ready" => enriched[k.capture] = "whole"
        /\ ~SkipsAI(k)
    BY <2>1 DEF Outcome, JobSteps, LeaseInv, JobIsTrue
  <2>3. \E c \in Captures : Task!Complete(c) \/ Task!GiveUp(c)
    BY <2>1, <2>2, MarkRefines
  <2> QED
    BY <2>3 DEF Task!Next
<1>5. CASE LoadCapture(w) \/ WorkerStops(w) \/ MarkLost(w)
  <2>1. UNCHANGED <<event, enriched>>
    BY <1>5 DEF LoadCapture, WorkerStops, MarkLost
  <2> QED
    BY <2>1, Stutter
<1> QED
  BY <1>1, <1>2, <1>3, <1>4, <1>5 DEF WorkerAction, WorkerStep

LEMMA CaptureRefines ==
  ASSUME TypeOK, ConsentInv, NEW c \in Captures, CaptureStep(c)
  PROVE  [Task!Next]_(Task!vars)
<1>1. CASE InsertCapture(c)
  BY <1>1, SubmitRefines DEF Task!Next
<1>2. CASE ResolvePolicySnapshot(c) \/ DeleteCapture(c)
  BY <1>2, Stutter DEF ResolvePolicySnapshot, DeleteCapture
<1>3. CASE BackoffElapses(c)
  <2>1. \A d \in Captures : /\ event'[d].status = event[d].status
                            /\ event'[d].snapshot = event[d].snapshot
                            /\ event'[d].private = event[d].private
    BY <1>3 DEF BackoffElapses, TypeOK, Event
  <2> QED
    BY <1>3, <2>1, Stutter DEF BackoffElapses, Stage, Waiting
<1>4. CASE LeaseExpires(c) \/ LeaseExpiresEarly(c)
  <2>0. event' = [event EXCEPT ![c].stale = TRUE] /\ UNCHANGED enriched
    BY <1>4 DEF LeaseExpires, LeaseExpiresEarly
  <2>1. \A d \in Captures : /\ event'[d].status = event[d].status
                            /\ event'[d].snapshot = event[d].snapshot
                            /\ event'[d].private = event[d].private
    BY <2>0 DEF TypeOK, Event
  <2> QED
    BY <2>0, <2>1, Stutter DEF Stage, Waiting
<1> QED
  BY <1>1, <1>2, <1>3, <1>4 DEF CaptureStep

LEMMA RequestRefines ==
  ASSUME TypeOK, NEW r \in Requests, RequestStep(r)
  PROVE  [Task!Next]_(Task!vars)
<1>1. CASE CancelQueued(r)
  BY <1>1, CancelRefines DEF Task!Next
<1>2. CASE ReorganizeByUser(r)
  BY <1>2, ReopenRefines DEF Task!Next
<1>3. CASE UpdateRead(r) \/ UpdateWrite(r) \/ ReorganizeRead(r) \/ RequestDies(r)
  BY <1>3, Stutter DEF UpdateRead, UpdateWrite, ReorganizeRead, RequestDies
<1> QED
  BY <1>1, <1>2, <1>3 DEF RequestStep

LEMMA StepRefines ==
  TypeOK /\ ConsentInv /\ LeaseInv /\ [Next]_vars => [Task!Next]_(Task!vars)
<1> SUFFICES ASSUME TypeOK, ConsentInv, LeaseInv, [Next]_vars
             PROVE  [Task!Next]_(Task!vars)
  OBVIOUS
<1>1. CASE UNCHANGED vars
  BY <1>1, Stutter DEF vars
<1> QED
  BY <1>1, CaptureRefines, RequestRefines, WorkerRefines DEF Next, WorkerAction

\* However many captures, workers and requests there are: with a lease that
\* outlasts the work, the outbox does for each capture what EnrichmentTask says.
THEOREM OutboxImplementsTask == ASSUME LeaseOutlastsWork PROVE Spec => ImplementsTask
BY InitRefines, StepRefines, TypeCorrect, LeaseInvariant, PTL
DEF Spec, ImplementsTask, Task!Spec
=============================================================================
