-------------------------- MODULE CaptureSyncProofs --------------------------
(***************************************************************************)
(* Proofs about CaptureSync for every value of its constants: any captures,*)
(* accounts, limits and number of faults.                                  *)
(***************************************************************************)
EXTENDS CaptureSync, FiniteSetTheorems, TLAPS

-----------------------------------------------------------------------------
(* Records.                                                                *)

States == Pending \cup Settled \cup {"absent"}

LEMMA StateFields ==
  ASSUME NEW e \in Entry, NEW s \in States
  PROVE  /\ [e EXCEPT !.state = s] \in Entry
         /\ [e EXCEPT !.state = s].state = s
         /\ [e EXCEPT !.state = s].owner = e.owner
BY DEF Entry, States

LEMMA OwnerFields ==
  ASSUME NEW e \in Entry, NEW u \in Account
  PROVE  /\ [e EXCEPT !.owner = u] \in Entry
         /\ [e EXCEPT !.owner = u].owner = u
         /\ [e EXCEPT !.owner = u].state = e.state
BY DEF Entry

\* A step that sets the state of one capture.
LEMMA StateSet ==
  ASSUME TypeOK, NEW c \in Captures, NEW s \in States,
         entry' = [entry EXCEPT ![c].state = s]
  PROVE  /\ entry' \in [Captures -> Entry]
         /\ \A d \in Captures : /\ entry'[d].owner = entry[d].owner
                                /\ entry'[d].state = IF d = c THEN s ELSE entry[d].state
<1>1. entry \in [Captures -> Entry]
  BY DEF TypeOK
<1>2. entry' = [entry EXCEPT ![c] = [entry[c] EXCEPT !.state = s]]
  OBVIOUS
<1> QED
  BY <1>1, <1>2, StateFields

\* What a pass carries at each step.
LEMMA PassTypes ==
  ASSUME pass \in Pass
  PROVE  /\ pass.step = "whoami" => pass.deferred \in BOOLEAN
         /\ pass.step = "list" => pass.deferred \in BOOLEAN /\ pass.user \in Users
         /\ pass.step = "next" => pass.user \in Users /\ pass.todo \in SUBSET Captures
         /\ pass.step \in {"mark", "post", "upload", "settle"} =>
              pass.user \in Users /\ pass.todo \in SUBSET Captures /\ pass.capture \in Captures
         /\ pass.step = "settle" => pass.outcome \in Settled \cup {"retryableError"}
         /\ pass.step = "arm" => pass.found \in BOOLEAN
BY DEF Pass, Inactive

LEMMA PassMakes ==
  ASSUME NEW u \in Users, NEW T \in SUBSET Captures, NEW c \in Captures
  PROVE  /\ [step |-> "next", user |-> u, todo |-> T] \in Pass
         /\ \A s \in {"mark", "post", "upload"} :
              [step |-> s, user |-> u, todo |-> T, capture |-> c] \in Pass
         /\ \A o \in Settled \cup {"retryableError"} :
              [step |-> "settle", user |-> u, todo |-> T, capture |-> c, outcome |-> o] \in Pass
BY DEF Pass

LEMMA PassEnds ==
  /\ [step |-> "idle"] \in Pass /\ [step |-> "failed"] \in Pass /\ [step |-> "schedule"] \in Pass
  /\ \A b \in BOOLEAN : /\ [step |-> "whoami", deferred |-> b] \in Pass
                        /\ [step |-> "arm", found |-> b] \in Pass
                        /\ \A u \in Users : [step |-> "list", deferred |-> b, user |-> u] \in Pass
BY DEF Pass, Inactive

LEMMA GoesOnTypes ==
  ASSUME TypeOK, pass.step \in {"mark", "post", "upload", "settle"}
  PROVE  /\ \A s \in {"mark", "post", "upload"} : GoesOn(s) \in Pass
         /\ \A o \in Settled \cup {"retryableError"} : Settling(o) \in Pass
BY PassTypes, PassMakes DEF TypeOK, GoesOn, Settling

LEMMA StartsType ==
  ASSUME TypeOK, NEW b \in BOOLEAN, Starts(b)
  PROVE  pass' \in Pass /\ timer' \in BOOLEAN
BY PassEnds DEF TypeOK, Starts

LEMMA FaultType ==
  ASSUME TypeOK, Fault PROVE faults' \in 0 .. MaxFaults
BY SyncBounds DEF TypeOK, Fault

LEMMA CurrentUserType ==
  ASSUME TypeOK PROVE CurrentUser \in Account
BY DEF TypeOK, CurrentUser, Account

-----------------------------------------------------------------------------
(* Type correctness.                                                       *)

LEMMA InitType == Init => TypeOK
<1> SUFFICES ASSUME Init PROVE TypeOK
  OBVIOUS
<1>1. [state |-> "absent", owner |-> None] \in Entry
  BY DEF Entry, Account
<1>2. entry \in [Captures -> Entry]
  BY <1>1 DEF Init
<1>3. auth \in Auth
  BY DEF Init, Auth
<1>4. faults \in 0 .. MaxFaults
  BY SyncBounds DEF Init
<1>5. pass \in Pass
  BY PassEnds DEF Init
<1> QED
  BY <1>2, <1>3, <1>4, <1>5 DEF Init, TypeOK, Account

LEMMA SavingType ==
  ASSUME TypeOK, NEW c \in Captures, SaveDraft(c) \/ SaverStep(c) \/ RetryDue(c)
  PROVE  TypeOK'
<1>1. CASE SaveDraft(c)
  <2>1. [state |-> "savedLocal", owner |-> screen] \in Entry
    BY DEF TypeOK, Entry, Pending
  <2> QED
    BY <1>1, <2>1 DEF TypeOK, SaveDraft, session, server
<1>2. CASE MarkPendingSync(c)
  <2>1. entry' \in [Captures -> Entry]
    BY <1>2, StateSet DEF MarkPendingSync, States, Pending
  <2> QED
    BY <1>2, <2>1 DEF TypeOK, MarkPendingSync, session, server
<1>3. CASE MarkPendingSyncFails(c)
  BY <1>3, FaultType DEF TypeOK, MarkPendingSyncFails, session, server
<1>4. CASE SyncAfterSave(c)
  BY <1>4, StartsType DEF TypeOK, SyncAfterSave, session, server
<1>5. CASE RetryDue(c)
  BY <1>5 DEF TypeOK, RetryDue, session, server
<1> QED
  BY <1>1, <1>2, <1>3, <1>4, <1>5 DEF SaverStep

AccountStep == (\E u \in Users : LoginToken(u)) \/ LogoutToken \/ AuthStep \/ ClearToken \/ ClearUser

LEMMA AccountType ==
  ASSUME TypeOK, AccountStep PROVE TypeOK'
<1>1. ASSUME NEW u \in Users, LoginToken(u) PROVE TypeOK'
  BY <1>1 DEF TypeOK, LoginToken, session, server, Auth, Account
<1>2. CASE LoginUser
  <2>1. auth.user \in Users
    BY <1>2 DEF TypeOK, LoginUser, Auth
  <2>2. auth' \in Auth /\ account' \in Account
    BY <1>2, <2>1 DEF LoginUser, Auth, Account
  <2> QED
    BY <1>2, <2>2 DEF TypeOK, LoginUser, session, server
<1>3. CASE LoginShow
  <2>1. auth.user \in Users
    BY <1>3 DEF TypeOK, LoginShow, Auth
  <2>2. auth' \in Auth /\ screen' \in Account
    BY <1>3, <2>1 DEF LoginShow, Auth, Account
  <2>3. pass' \in Pass /\ timer' \in BOOLEAN
    BY <1>3, StartsType DEF LoginShow
  <2> QED
    BY <1>3, <2>2, <2>3 DEF TypeOK, LoginShow, session, server
<1>4. CASE LogoutToken
  BY <1>4 DEF TypeOK, LogoutToken, session, server, Auth, Account
<1>5. CASE LogoutUser
  BY <1>5 DEF TypeOK, LogoutUser, session, server, Auth, Account
<1>6. CASE LogoutShow
  BY <1>6, StartsType DEF TypeOK, LogoutShow, session, server, Auth, Account
<1>7. CASE ClearToken
  BY <1>7 DEF TypeOK, ClearToken, session, server, Account
<1>8. CASE ClearUser
  BY <1>8 DEF TypeOK, ClearUser, session, server, Account
<1> QED
  BY <1>1, <1>2, <1>3, <1>4, <1>5, <1>6, <1>7, <1>8 DEF AccountStep, AuthStep

\* The steps of a pass around its captures.
LEMMA PassEndsType ==
  ASSUME TypeOK, WhoAmI \/ ListPending \/ PassFails \/ ScheduleList \/ ScheduleArm
  PROVE  TypeOK'
<1>0. pass \in Pass
  BY DEF TypeOK
<1>1. CASE WhoAmI
  BY <1>0, <1>1, PassTypes, PassEnds, CurrentUserType
  DEF TypeOK, WhoAmI, session, server, Account
<1>2. CASE ListPending
  <2>1. pass.user \in Users
    BY <1>0, <1>2, PassTypes DEF ListPending
  <2>2. \A T \in SUBSET Captures : [step |-> "next", user |-> pass.user, todo |-> T] \in Pass
    BY <2>1 DEF Pass
  <2>3. \A S \in Listings(pass.deferred) :
          ToSend(S, pass.user) \in SUBSET Captures
    BY DEF Listings, Mine, ToSend
  <2>4. pass' \in Pass
    BY <1>2, <2>2, <2>3, PassEnds DEF ListPending
  <2> QED
    BY <1>2, <2>4 DEF TypeOK, ListPending, session, server
<1>3. CASE PassFails
  BY <1>3, PassEnds, FaultType DEF TypeOK, PassFails, session, server
<1>4. CASE ScheduleList
  <2>1. pass' \in Pass
    BY <1>4, PassEnds DEF ScheduleList
  <2> QED
    BY <1>4, <2>1 DEF TypeOK, ScheduleList, session, server
<1>5. CASE ScheduleArm
  BY <1>0, <1>5, PassEnds, PassTypes DEF TypeOK, ScheduleArm, Armed, session, server
<1> QED
  BY <1>1, <1>2, <1>3, <1>4, <1>5

\* The steps of a pass with a capture.
LEMMA CaptureType ==
  ASSUME TypeOK, ClaimOwner \/ MarkSyncing \/ PostStored \/ PostFails \/ PostUnauthorized
                   \/ PostRefused \/ UploadAudio \/ UploadFails \/ Settle \/ ApplyFails
  PROVE  TypeOK'
<1>0. pass \in Pass
  BY DEF TypeOK
<1>1. CASE ClaimOwner
  <2>1. pass.user \in Users /\ pass.todo \in SUBSET Captures
    BY <1>0, <1>1, PassTypes DEF ClaimOwner
  <2>2. PICK c \in pass.todo :
          /\ entry' = [entry EXCEPT ![c].owner = pass.user]
          /\ pass' = [step |-> "mark", user |-> pass.user, todo |-> pass.todo \ {c}, capture |-> c]
    BY <1>1 DEF ClaimOwner, ClaimedBy
  <2>3. entry' = [entry EXCEPT ![c] = [entry[c] EXCEPT !.owner = pass.user]]
    BY <2>2
  <2>4. [entry[c] EXCEPT !.owner = pass.user] \in Entry
    BY <2>1, OwnerFields DEF TypeOK, Account
  <2>5. entry' \in [Captures -> Entry]
    BY <2>3, <2>4 DEF TypeOK
  <2>6. pass' \in Pass
    BY <2>1, <2>2, PassMakes
  <2> QED
    BY <1>1, <2>5, <2>6 DEF TypeOK, ClaimOwner, session, server
<1>2. CASE MarkSyncing
  <2>1. entry' \in [Captures -> Entry]
    BY <1>0, <1>2, PassTypes, StateSet DEF MarkSyncing, States, Pending
  <2>2. pass' \in Pass
    BY <1>2, GoesOnTypes DEF MarkSyncing
  <2> QED
    BY <1>2, <2>1, <2>2 DEF TypeOK, MarkSyncing, session, server
<1>3. CASE PostStored
  <2>1. stored' \subseteq Captures \X Users /\ uploaded' \subseteq stored'
    BY <1>0, <1>3, PassTypes DEF TypeOK, PostStored, Account
  <2>2. pass' \in Pass
    BY <1>3, GoesOnTypes DEF PostStored, Settled
  <2> QED
    BY <1>3, <2>1, <2>2 DEF TypeOK, PostStored, session
<1>4. CASE PostFails
  <2>1. stored' \subseteq Captures \X Users /\ uploaded' \subseteq stored'
    BY <1>0, <1>4, PassTypes DEF TypeOK, PostFails, Account
  <2>2. pass' \in Pass
    BY <1>4, GoesOnTypes DEF PostFails
  <2> QED
    BY <1>4, <2>1, <2>2, FaultType DEF TypeOK, PostFails, session
<1>5. CASE PostUnauthorized
  BY <1>5, GoesOnTypes DEF TypeOK, PostUnauthorized, server
<1>6. CASE PostRefused
  BY <1>6, GoesOnTypes DEF TypeOK, PostRefused, session, server, Settled
<1>7. CASE UploadAudio
  BY <1>7, GoesOnTypes DEF TypeOK, UploadAudio, session, Settled
<1>8. CASE UploadFails
  <2>1. pass' \in Pass
    BY <1>8, GoesOnTypes DEF UploadFails, AfterFailedUpload
  <2>2. faults' \in 0 .. MaxFaults
    BY <1>8, FaultType DEF UploadFails, TypeOK
  <2> QED
    BY <1>8, <2>1, <2>2 DEF TypeOK, UploadFails, session, server
<1>9. CASE Settle
  <2>1. /\ pass.capture \in Captures /\ pass.outcome \in Settled \cup {"retryableError"}
        /\ pass.user \in Users /\ pass.todo \in SUBSET Captures
    BY <1>0, <1>9, PassTypes DEF Settle
  <2>2. entry' \in [Captures -> Entry]
    BY <1>9, <2>1, StateSet DEF Settle, States, Pending
  <2>3. pass' \in Pass
    BY <1>9, <2>1, PassMakes, PassEnds DEF Settle
  <2>4. queue' \in [Captures -> {"none", "now", "later", "due"}]
    BY <1>9 DEF TypeOK, Settle, QueuedAfter
  <2> QED
    BY <1>9, <2>2, <2>3, <2>4 DEF TypeOK, Settle, session, server
<1>10. CASE ApplyFails
  BY <1>10, GoesOnTypes, FaultType DEF TypeOK, ApplyFails, session, server
<1> QED
  BY <1>1, <1>2, <1>3, <1>4, <1>5, <1>6, <1>7, <1>8, <1>9, <1>10

\* What a restart does to a record and its place in the queue.
LEMMA RestartEntries ==
  ASSUME TypeOK, Restart
  PROVE  /\ entry' \in [Captures -> Entry]
         /\ queue' \in [Captures -> {"none", "now", "later", "due"}]
         /\ \A c \in Captures :
              /\ entry'[c].owner = entry[c].owner
              /\ entry'[c].state = IF Interrupted(c) THEN "pendingSync" ELSE entry[c].state
              /\ queue'[c] = IF Interrupted(c) THEN "now" ELSE queue[c]
<1>1. \A c \in Captures : entry[c] \in Entry
  BY DEF TypeOK
<1>2. "pendingSync" \in States
  BY DEF States, Pending
<1> QED
  BY <1>1, <1>2, StateFields DEF Restart, TypeOK

LEMMA ClockType ==
  ASSUME TypeOK, TimerFires \/ Resume \/ Restart PROVE TypeOK'
<1>1. CASE TimerFires
  BY <1>1, StartsType DEF TypeOK, TimerFires, session, server
<1>2. CASE Resume
  BY <1>2, StartsType DEF TypeOK, Resume, session, server
<1>3. CASE Restart
  BY <1>3, RestartEntries, FaultType, CurrentUserType, PassEnds DEF TypeOK, Restart, server, Auth
<1> QED
  BY <1>1, <1>2, <1>3

LEMMA StepType == TypeOK /\ [Next]_vars => TypeOK'
<1> SUFFICES ASSUME TypeOK, [Next]_vars PROVE TypeOK'
  OBVIOUS
<1>1. CASE UNCHANGED vars
  BY <1>1 DEF TypeOK, vars, session, server
<1>2. CASE Next
  BY <1>2, SavingType, AccountType, PassEndsType, CaptureType, ClockType
  DEF Next, AccountStep, PassStep
<1> QED
  BY <1>1, <1>2

\* Whatever is saved, sent, lost, refused and restarted, and whoever signs in,
\* the records of the device and the state of the pass are well-typed.
THEOREM SyncTypes == Spec => []TypeOK
BY InitType, StepType, PTL DEF Spec

-----------------------------------------------------------------------------
(* The queue, the pass and the server.                                     *)

InPass == pass.step \in {"next", "mark", "post", "upload", "settle"}

\* The parts of SyncInv.
QueueInv ==
  \A c \in Captures :
    /\ queue[c] # "none" <=> entry[c].state \in Pending \ {"savedLocal"}
    /\ saver[c] = "saved" => entry[c].state = "savedLocal"
    /\ entry[c].state = "absent" => entry[c].owner = None

PassInv ==
  InPass =>
    /\ \A c \in pass.todo : queue[c] # "none" /\ entry[c].owner \in {None, pass.user}
    /\ pass.step # "next" =>
         /\ pass.capture \notin pass.todo
         /\ queue[pass.capture] # "none" /\ entry[pass.capture].owner = pass.user

Reached(c) == \E u \in Users : <<c, u>> \in IF c \in Audio THEN uploaded ELSE stored

SettlesTruly == pass.step = "settle" /\ pass.outcome = "synced" => Reached(pass.capture)

LEMMA SyncParts ==
  SyncInv <=> QueueInv /\ PassInv /\ SettlesTruly /\ SyncedReachedServer
BY DEF SyncInv, QueueInv, PassInv, SettlesTruly, Reached, InPass

LEMMA InitSync == Init => SyncInv
<1> SUFFICES ASSUME Init PROVE SyncInv
  OBVIOUS
<1>1. QueueInv
  BY DEF Init, QueueInv, Pending
<1>2. PassInv /\ SettlesTruly
  BY DEF Init, PassInv, InPass, SettlesTruly
<1>3. SyncedReachedServer
  BY DEF Init, SyncedReachedServer
<1> QED
  BY <1>1, <1>2, <1>3, SyncParts

\* A trigger starts no pass that has captures already.
LEMMA StartsQuietly ==
  ASSUME NEW b, Starts(b)
  PROVE  UNCHANGED pass \/ pass'.step = "whoami"
BY DEF Starts

\* Steps that leave the records alone and have no new captures in a pass.
LEMMA QuietSync ==
  ASSUME SyncInv, UNCHANGED <<entry, queue, stored, uploaded>>,
         \A c \in Captures : saver'[c] = "saved" => saver[c] = "saved",
         UNCHANGED pass \/ pass'.step \in {"idle", "failed", "whoami", "list", "schedule", "arm"}
  PROVE  SyncInv'
<1> USE SyncParts
<1>1. QueueInv'
  BY DEF QueueInv
<1>2. PassInv' /\ SettlesTruly'
  BY DEF PassInv, InPass, SettlesTruly, Reached
<1>3. SyncedReachedServer'
  BY DEF SyncedReachedServer
<1> QED
  BY <1>1, <1>2, <1>3 DEF SyncInv, QueueInv, PassInv, SettlesTruly, Reached, InPass

LEMMA SavingSync ==
  ASSUME TypeOK, SyncInv, NEW c \in Captures, SaveDraft(c) \/ SaverStep(c) \/ RetryDue(c)
  PROVE  SyncInv'
<1>0. QueueInv /\ PassInv /\ SettlesTruly /\ SyncedReachedServer
  BY SyncParts
<1>a. pass \in Pass /\ entry \in [Captures -> Entry]
  BY DEF TypeOK
<1>1. CASE SaveDraft(c)
  <2>0. entry' = [entry EXCEPT ![c] = [state |-> "savedLocal", owner |-> screen]]
    BY <1>1 DEF SaveDraft
  <2>a. \A d \in Captures : d # c => entry'[d] = entry[d]
    BY <1>a, <2>0
  <2>b. entry'[c].state = "savedLocal" /\ queue[c] = "none"
    BY <1>0, <1>1, <1>a, <2>0 DEF QueueInv, Pending, SaveDraft
  <2>1. QueueInv'
    BY <1>0, <1>1, <2>a, <2>b DEF QueueInv, SaveDraft, Pending, TypeOK
  <2>2. PassInv'
    BY <1>0, <1>1, <1>a, <2>a, <2>b, PassTypes DEF PassInv, InPass, SaveDraft
  <2>3. SettlesTruly'
    BY <1>0, <1>1 DEF SettlesTruly, Reached, SaveDraft, server
  <2>4. SyncedReachedServer'
    BY <1>0, <1>1, <2>a, <2>b DEF SyncedReachedServer, SaveDraft, server
  <2> QED
    BY <2>1, <2>2, <2>3, <2>4 DEF SyncInv, QueueInv, PassInv, SettlesTruly, Reached, InPass
<1>2. CASE MarkPendingSync(c)
  <2>a. \A d \in Captures :
          /\ entry'[d].owner = entry[d].owner
          /\ entry'[d].state = IF d = c THEN "pendingSync" ELSE entry[d].state
    BY <1>2, StateSet DEF MarkPendingSync, States, Pending
  <2>b. \A d \in Captures : queue'[d] = IF d = c THEN "now" ELSE queue[d]
    BY <1>2 DEF MarkPendingSync, TypeOK
  <2>1. QueueInv'
    BY <1>0, <1>2, <2>a, <2>b DEF QueueInv, MarkPendingSync, Pending, TypeOK
  <2>2. PassInv'
    BY <1>0, <1>2, <1>a, <2>a, <2>b, PassTypes DEF PassInv, InPass, MarkPendingSync
  <2>3. SettlesTruly'
    BY <1>0, <1>2 DEF SettlesTruly, Reached, MarkPendingSync, server
  <2>4. SyncedReachedServer'
    BY <1>0, <1>2, <2>a DEF SyncedReachedServer, MarkPendingSync, server
  <2> QED
    BY <2>1, <2>2, <2>3, <2>4 DEF SyncInv, QueueInv, PassInv, SettlesTruly, Reached, InPass
<1>3. CASE MarkPendingSyncFails(c)
  BY <1>3, QuietSync DEF MarkPendingSyncFails, TypeOK, server
<1>4. CASE SyncAfterSave(c)
  BY <1>4, QuietSync, StartsQuietly DEF SyncAfterSave, TypeOK, server
<1>5. CASE RetryDue(c)
  <2>a. \A d \in Captures : queue'[d] # "none" <=> queue[d] # "none"
    BY <1>5 DEF RetryDue, TypeOK
  <2>1. QueueInv'
    BY <1>0, <1>5, <2>a DEF QueueInv, RetryDue
  <2>2. PassInv'
    BY <1>0, <1>5, <1>a, <2>a, PassTypes DEF PassInv, InPass, RetryDue
  <2>3. SettlesTruly' /\ SyncedReachedServer'
    BY <1>0, <1>5 DEF SettlesTruly, Reached, SyncedReachedServer, RetryDue, server
  <2> QED
    BY <2>1, <2>2, <2>3 DEF SyncInv, QueueInv, PassInv, SettlesTruly, Reached, InPass
<1> QED
  BY <1>1, <1>2, <1>3, <1>4, <1>5 DEF SaverStep

LEMMA AccountSync == ASSUME SyncInv, AccountStep PROVE SyncInv'
BY QuietSync, StartsQuietly
DEF AccountStep, AuthStep, LoginToken, LoginUser, LoginShow, LogoutToken, LogoutUser, LogoutShow,
  ClearToken, ClearUser, server

\* The steps of a pass around its captures.
LEMMA PassEndsSync ==
  ASSUME TypeOK, SyncInv, WhoAmI \/ ListPending \/ PassFails \/ ScheduleList \/ ScheduleArm
  PROVE  SyncInv'
<1>0. QueueInv /\ PassInv /\ SettlesTruly /\ SyncedReachedServer
  BY SyncParts
<1>1. CASE WhoAmI
  BY <1>1, QuietSync DEF WhoAmI, server
<1>2. CASE ListPending
  <2>1. CASE pass'.step = "schedule"
    BY <1>2, <2>1, QuietSync DEF ListPending, server
  <2>2. CASE pass'.step # "schedule"
    <3>1. PICK S \in Listings(pass.deferred) :
            pass' = [step |-> "next", user |-> pass.user, todo |-> ToSend(S, pass.user)]
      BY <1>2, <2>2 DEF ListPending
    <3>2. \A c \in ToSend(S, pass.user) :
            queue[c] # "none" /\ entry[c].owner \in {None, pass.user}
      BY DEF Listings, ToSend, Mine
    <3>3. PassInv'
      BY <1>2, <3>1, <3>2 DEF PassInv, InPass, ListPending
    <3>4. QueueInv' /\ SyncedReachedServer'
      BY <1>0, <1>2 DEF QueueInv, SyncedReachedServer, ListPending, server
    <3>5. SettlesTruly'
      BY <3>1 DEF SettlesTruly
    <3> QED
      BY <3>3, <3>4, <3>5 DEF SyncInv, QueueInv, PassInv, SettlesTruly, Reached, InPass
  <2> QED
    BY <2>1, <2>2
<1>3. CASE PassFails
  BY <1>3, QuietSync DEF PassFails, server
<1>4. CASE ScheduleList
  <2>1. \/ pass' = [step |-> "idle"]
        \/ \E b : pass' = [step |-> "arm", found |-> b]
    BY <1>4, Zenon DEF ScheduleList
  <2> QED
    BY <1>4, <2>1, QuietSync DEF ScheduleList, server
<1>5. CASE ScheduleArm
  BY <1>5, QuietSync DEF ScheduleArm, server
<1> QED
  BY <1>1, <1>2, <1>3, <1>4, <1>5

\* The steps of a pass that go on with its capture and leave the records alone.
LEMMA SendingSync ==
  ASSUME TypeOK, SyncInv, PostStored \/ PostFails \/ PostUnauthorized \/ PostRefused
                            \/ UploadAudio \/ UploadFails \/ ApplyFails
  PROVE  SyncInv'
<1>0. QueueInv /\ PassInv /\ SettlesTruly /\ SyncedReachedServer
  BY SyncParts
<1>a. pass \in Pass
  BY DEF TypeOK
<1>1. InPass /\ pass.step # "next"
  BY DEF InPass, PostStored, PostFails, PostUnauthorized, PostRefused, UploadAudio, UploadFails,
    ApplyFails
<1>2. pass.capture \in Captures
  BY <1>a, <1>1, PassTypes DEF InPass
<1>3. UNCHANGED <<entry, queue, saver>>
  BY DEF PostStored, PostFails, PostUnauthorized, PostRefused, UploadAudio, UploadFails, ApplyFails
<1>4. \/ pass' = GoesOn("upload")
      \/ \E o \in {"refused", "retryableError"} : pass' = Settling(o)
      \/ /\ pass' = Settling("synced")
         /\ \E u \in Users :
              <<pass.capture, u>> \in IF pass.capture \in Audio THEN uploaded' ELSE stored'
  <2>1. CASE PostStored
    <3>1. token \in Users /\ <<pass.capture, token>> \in stored'
      BY <2>1 DEF PostStored, TypeOK, Account
    <3>2. CASE pass.capture \in Audio
      BY <2>1, <3>2 DEF PostStored
    <3>3. CASE pass.capture \notin Audio
      BY <2>1, <3>1, <3>3 DEF PostStored
    <3> QED
      BY <3>2, <3>3
  <2>2. CASE UploadAudio
    <3>1. token \in Users
      BY <2>2 DEF UploadAudio, TypeOK
    <3>2. <<pass.capture, token>> \in uploaded' /\ <<pass.capture, token>> \in stored'
      BY <2>2 DEF UploadAudio
    <3> QED
      BY <2>2, <3>1, <3>2 DEF UploadAudio
  <2> QED
    BY <2>1, <2>2 DEF PostFails, PostUnauthorized, PostRefused, UploadFails, AfterFailedUpload,
      ApplyFails
<1>5. /\ pass'.user = pass.user /\ pass'.todo = pass.todo /\ pass'.capture = pass.capture
      /\ pass'.step = "upload" \/ pass'.step = "settle"
      /\ pass'.step = "settle" /\ pass'.outcome = "synced" =>
           \E u \in Users :
             <<pass.capture, u>> \in IF pass.capture \in Audio THEN uploaded' ELSE stored'
  BY <1>4 DEF GoesOn, Settling
<1>6. PassInv'
  BY <1>0, <1>1, <1>3, <1>5 DEF PassInv, InPass
<1>b. SettlesTruly'
  BY <1>5 DEF SettlesTruly, Reached
<1>7. QueueInv'
  BY <1>0, <1>3 DEF QueueInv
<1>8. stored \subseteq stored' /\ uploaded \subseteq uploaded'
  BY DEF PostStored, PostFails, PostUnauthorized, PostRefused, UploadAudio, UploadFails, ApplyFails,
    server
<1>9. SyncedReachedServer'
  BY <1>0, <1>3, <1>8 DEF SyncedReachedServer
<1> QED
  BY <1>6, <1>7, <1>9, <1>b DEF SyncInv, QueueInv, PassInv, SettlesTruly, Reached, InPass

LEMMA ClaimSync ==
  ASSUME TypeOK, SyncInv, ClaimOwner PROVE SyncInv'
<1>0. QueueInv /\ PassInv /\ SettlesTruly /\ SyncedReachedServer
  BY SyncParts
<1>a. pass \in Pass /\ entry \in [Captures -> Entry]
  BY DEF TypeOK
<1>1. InPass /\ pass.step = "next" /\ pass.todo \in SUBSET Captures /\ pass.user \in Users
  BY <1>a, PassTypes DEF ClaimOwner, InPass
<1>2. PICK c \in pass.todo :
        /\ entry' = [entry EXCEPT ![c] = [entry[c] EXCEPT !.owner = pass.user]]
        /\ pass' = [step |-> "mark", user |-> pass.user, todo |-> pass.todo \ {c}, capture |-> c]
  BY DEF ClaimOwner, ClaimedBy
<1>3. \A d \in Captures : /\ entry'[d].state = entry[d].state
                          /\ entry'[d].owner = IF d = c THEN pass.user ELSE entry[d].owner
  BY <1>a, <1>1, <1>2, OwnerFields DEF Account
<1>4. queue[c] # "none" /\ UNCHANGED <<queue, saver, stored, uploaded>>
  BY <1>0, <1>1, <1>2 DEF PassInv, ClaimOwner, server
<1>5. QueueInv'
  BY <1>0, <1>1, <1>3, <1>4 DEF QueueInv, Pending
<1>6. PassInv'
  BY <1>0, <1>1, <1>2, <1>3, <1>4 DEF PassInv, InPass
<1>7. SettlesTruly' /\ SyncedReachedServer'
  BY <1>0, <1>2, <1>3, <1>4 DEF SettlesTruly, SyncedReachedServer
<1> QED
  BY <1>5, <1>6, <1>7 DEF SyncInv, QueueInv, PassInv, SettlesTruly, Reached, InPass

LEMMA MarkSync ==
  ASSUME TypeOK, SyncInv, MarkSyncing PROVE SyncInv'
<1>0. QueueInv /\ PassInv /\ SettlesTruly /\ SyncedReachedServer
  BY SyncParts
<1>a. pass \in Pass
  BY DEF TypeOK
<1>1. InPass /\ pass.step # "next" /\ pass.capture \in Captures /\ pass.todo \in SUBSET Captures
  BY <1>a, PassTypes DEF MarkSyncing, InPass
<1>2. \A d \in Captures :
        /\ entry'[d].owner = entry[d].owner
        /\ entry'[d].state = IF d = pass.capture THEN "syncing" ELSE entry[d].state
  BY <1>1, StateSet DEF MarkSyncing, States, Pending
<1>3. /\ UNCHANGED <<queue, saver, stored, uploaded>> /\ pass'.step = "post"
      /\ pass'.user = pass.user /\ pass'.todo = pass.todo /\ pass'.capture = pass.capture
  BY DEF MarkSyncing, GoesOn, server
<1>4. queue[pass.capture] # "none"
  BY <1>0, <1>1 DEF PassInv
<1>5. QueueInv'
  BY <1>0, <1>1, <1>2, <1>3, <1>4 DEF QueueInv, Pending
<1>6. PassInv'
  BY <1>0, <1>1, <1>2, <1>3 DEF PassInv, InPass
<1>7. SettlesTruly' /\ SyncedReachedServer'
  BY <1>0, <1>2, <1>3 DEF SettlesTruly, SyncedReachedServer
<1> QED
  BY <1>5, <1>6, <1>7 DEF SyncInv, QueueInv, PassInv, SettlesTruly, Reached, InPass

LEMMA SettleSync ==
  ASSUME TypeOK, SyncInv, Settle PROVE SyncInv'
<1>0. QueueInv /\ PassInv /\ SettlesTruly /\ SyncedReachedServer
  BY SyncParts
<1>a. pass \in Pass
  BY DEF TypeOK
<1>1. /\ InPass /\ pass.step = "settle" /\ pass.capture \in Captures
      /\ pass.todo \in SUBSET Captures /\ pass.outcome \in Settled \cup {"retryableError"}
  BY <1>a, PassTypes DEF Settle, InPass
<1>2. \A d \in Captures :
        /\ entry'[d].owner = entry[d].owner
        /\ entry'[d].state = IF d = pass.capture THEN pass.outcome ELSE entry[d].state
  <2>1. pass.outcome \in States
    BY <1>1 DEF States, Pending
  <2>2. entry' = [entry EXCEPT ![pass.capture].state = pass.outcome]
    BY DEF Settle
  <2> QED
    BY <1>1, <2>1, <2>2, StateSet
<1>3. \A d \in Captures :
        queue'[d] = IF d = pass.capture THEN QueuedAfter(pass.outcome) ELSE queue[d]
  BY DEF Settle, TypeOK
<1>4. /\ UNCHANGED <<saver, stored, uploaded>>
      /\ \/ pass'.step = "schedule"
         \/ pass'.step = "next" /\ pass'.user = pass.user /\ pass'.todo = pass.todo
  BY DEF Settle, server
<1>5. queue[pass.capture] # "none" /\ pass.capture \notin pass.todo
  BY <1>0, <1>1 DEF PassInv
<1>6. QueueInv'
  <2> SUFFICES ASSUME NEW d \in Captures
               PROVE  /\ queue'[d] # "none" <=> entry'[d].state \in Pending \ {"savedLocal"}
                      /\ saver[d] = "saved" => entry'[d].state = "savedLocal"
                      /\ entry'[d].state = "absent" => entry'[d].owner = None
    BY <1>4 DEF QueueInv
  <2>1. CASE d = pass.capture
    BY <1>0, <1>1, <1>2, <1>3, <1>5, <2>1 DEF QueueInv, QueuedAfter, Pending, Settled
  <2>2. CASE d # pass.capture
    BY <1>0, <1>2, <1>3, <2>2 DEF QueueInv
  <2> QED
    BY <2>1, <2>2
<1>7. PassInv'
  BY <1>0, <1>1, <1>2, <1>3, <1>4, <1>5 DEF PassInv, InPass
<1>8. SettlesTruly'
  BY <1>4 DEF SettlesTruly
<1>9. SyncedReachedServer'
  BY <1>0, <1>1, <1>2, <1>4 DEF SettlesTruly, Reached, SyncedReachedServer
<1> QED
  BY <1>6, <1>7, <1>8, <1>9 DEF SyncInv, QueueInv, PassInv, SettlesTruly, Reached, InPass

LEMMA ClockSync ==
  ASSUME TypeOK, SyncInv, TimerFires \/ Resume \/ Restart PROVE SyncInv'
<1>0. QueueInv /\ PassInv /\ SettlesTruly /\ SyncedReachedServer
  BY SyncParts
<1>1. CASE TimerFires
  BY <1>1, QuietSync, StartsQuietly DEF TimerFires, server
<1>2. CASE Resume
  BY <1>2, QuietSync, StartsQuietly DEF Resume, server
<1>3. CASE Restart
  <2>1. /\ UNCHANGED <<stored, uploaded>> /\ pass'.step = "whoami"
        /\ \A c \in Captures : saver'[c] = "none"
    BY <1>3 DEF Restart, server
  <2>2. QueueInv'
    BY <1>0, <1>3, <2>1, RestartEntries DEF QueueInv, Interrupted, Pending
  <2>3. PassInv' /\ SettlesTruly'
    BY <2>1 DEF PassInv, InPass, SettlesTruly
  <2>4. SyncedReachedServer'
    BY <1>0, <1>3, <2>1, RestartEntries DEF SyncedReachedServer
  <2> QED
    BY <2>2, <2>3, <2>4 DEF SyncInv, QueueInv, PassInv, SettlesTruly, Reached, InPass
<1> QED
  BY <1>1, <1>2, <1>3

LEMMA StepSync == TypeOK /\ SyncInv /\ [Next]_vars => SyncInv'
<1> SUFFICES ASSUME TypeOK, SyncInv, [Next]_vars PROVE SyncInv'
  OBVIOUS
<1>1. CASE UNCHANGED vars
  BY <1>1 DEF vars, server, SyncInv, SyncedReachedServer
<1>2. CASE Next
  BY <1>2, SavingSync, AccountSync, PassEndsSync, SendingSync, ClaimSync, MarkSync, SettleSync,
    ClockSync
  DEF Next, AccountStep, PassStep
<1> QED
  BY <1>1, <1>2

LEMMA SyncInvariant == Spec => [](TypeOK /\ SyncInv)
<1>1. Init => TypeOK /\ SyncInv
  BY InitType, InitSync
<1>2. TypeOK /\ SyncInv /\ [Next]_vars => (TypeOK /\ SyncInv)'
  BY StepType, StepSync
<1> QED
  BY <1>1, <1>2, PTL DEF Spec

\* Nothing that waits to be sent ever drops out of the queue, and nothing that
\* is settled stays in it.
THEOREM NothingIsLost == Spec => []UnsettledIsQueued
<1>1. TypeOK /\ SyncInv => UnsettledIsQueued
  BY SyncParts DEF QueueInv, UnsettledIsQueued, Pending, Settled
<1> QED
  BY <1>1, SyncInvariant, PTL

\* claimOwner never meets a capture of another account.
THEOREM ClaimsAgree == Spec => []ClaimsNeverConflict
<1>1. TypeOK /\ SyncInv => ClaimsNeverConflict
  BY SyncParts DEF PassInv, InPass, ClaimsNeverConflict
<1> QED
  BY <1>1, SyncInvariant, PTL

\* A capture shown as synced has reached the server, with its recording.
THEOREM SyncedIsOnServer == Spec => []SyncedReachedServer
<1>1. TypeOK /\ SyncInv => SyncedReachedServer
  BY SyncParts
<1> QED
  BY <1>1, SyncInvariant, PTL

-----------------------------------------------------------------------------
(* What no step changes.                                                   *)

\* The records that a step of the app rewrites, and what it writes there.
LEMMA RecordSteps ==
  ASSUME TypeOK, SyncInv, Next
  PROVE  \A c \in Captures :
           /\ entry[c].owner # None => entry'[c].owner = entry[c].owner
           /\ entry[c].state \in Settled => entry'[c].state = entry[c].state
<1> SUFFICES ASSUME NEW c \in Captures
             PROVE  /\ entry[c].owner # None => entry'[c].owner = entry[c].owner
                    /\ entry[c].state \in Settled => entry'[c].state = entry[c].state
  OBVIOUS
<1>0. QueueInv /\ PassInv
  BY SyncParts
<1>a. pass \in Pass /\ entry \in [Captures -> Entry]
  BY DEF TypeOK
<1>1. ASSUME NEW d \in Captures, SaveDraft(d)
      PROVE  /\ entry[c].owner # None => entry'[c].owner = entry[c].owner
             /\ entry[c].state \in Settled => entry'[c].state = entry[c].state
  BY <1>0, <1>a, <1>1 DEF SaveDraft, QueueInv, Settled
<1>2. ASSUME NEW d \in Captures, MarkPendingSync(d)
      PROVE  /\ entry'[c].owner = entry[c].owner
             /\ entry[c].state \in Settled => entry'[c].state = entry[c].state
  <2>1. /\ entry'[c].owner = entry[c].owner
        /\ c # d => entry'[c].state = entry[c].state
    BY <1>2, StateSet DEF MarkPendingSync, States, Pending
  <2>2. entry[d].state \notin Settled
    BY <1>0, <1>2 DEF MarkPendingSync, QueueInv, Settled
  <2> QED
    BY <2>1, <2>2
<1>3. ASSUME ClaimOwner
      PROVE  /\ entry[c].owner # None => entry'[c].owner = entry[c].owner
             /\ entry'[c].state = entry[c].state
  <2>1. pass.step = "next" /\ InPass /\ pass.user \in Users /\ pass.todo \in SUBSET Captures
    BY <1>3, <1>a, PassTypes DEF ClaimOwner, InPass
  <2>2. PICK d \in pass.todo :
          entry' = [entry EXCEPT ![d] = [entry[d] EXCEPT !.owner = pass.user]]
    BY <1>3 DEF ClaimOwner, ClaimedBy
  <2>3. entry[d].owner \in {None, pass.user}
    BY <1>0, <2>1 DEF PassInv
  <2> QED
    BY <1>a, <2>1, <2>2, <2>3, OwnerFields DEF Account
<1>4. ASSUME MarkSyncing \/ Settle
      PROVE  /\ entry'[c].owner = entry[c].owner
             /\ entry[c].state \in Settled => entry'[c].state = entry[c].state
  <2>1. InPass /\ pass.step # "next" /\ pass.capture \in Captures
    BY <1>4, <1>a, PassTypes DEF MarkSyncing, Settle, InPass
  <2>2. entry[pass.capture].state \notin Settled
    BY <1>0, <2>1 DEF PassInv, QueueInv, Pending, Settled
  <2>3. PICK s \in States : entry' = [entry EXCEPT ![pass.capture].state = s]
    <3>1. CASE MarkSyncing
      BY <3>1 DEF MarkSyncing, States, Pending
    <3>2. CASE Settle
      <4>1. pass.outcome \in States
        BY <1>a, <3>2, PassTypes DEF Settle, States, Pending
      <4> QED
        BY <3>2, <4>1 DEF Settle
    <3> QED
      BY <1>4, <3>1, <3>2
  <2>4. /\ entry'[c].owner = entry[c].owner
        /\ c # pass.capture => entry'[c].state = entry[c].state
    BY <2>1, <2>3, StateSet
  <2> QED
    BY <2>2, <2>4
<1>5. ASSUME Restart
      PROVE  /\ entry'[c].owner = entry[c].owner
             /\ entry[c].state \in Settled => entry'[c].state = entry[c].state
  BY <1>5, RestartEntries DEF Interrupted, Settled
<1>6. \/ \E d \in Captures : SaveDraft(d) \/ MarkPendingSync(d)
      \/ ClaimOwner \/ MarkSyncing \/ Settle \/ Restart
      \/ UNCHANGED entry
  BY DEF Next, PassStep, SaverStep, AuthStep, MarkPendingSyncFails, SyncAfterSave, RetryDue,
    LoginToken, LoginUser, LoginShow, LogoutToken, LogoutUser, LogoutShow, ClearToken, ClearUser,
    WhoAmI, ListPending, PostStored, PostFails, PostUnauthorized, PostRefused, UploadAudio,
    UploadFails, ApplyFails, PassFails, ScheduleList, ScheduleArm, TimerFires, Resume
<1> QED
  BY <1>1, <1>2, <1>3, <1>4, <1>5, <1>6

\* A capture that an account owns stays with it, through sign-ins, crashes and
\* passes of other accounts.
THEOREM OwnersStay == Spec => OwnerIsFinal
<1>1. TypeOK /\ SyncInv /\ [Next]_vars =>
        [\A c \in Captures : entry[c].owner # None => entry'[c].owner = entry[c].owner]_vars
  BY RecordSteps
<1> QED
  BY <1>1, SyncInvariant, PTL DEF Spec, OwnerIsFinal

\* A settled capture stays settled: no step of a pass, save or restart sends it
\* again.
THEOREM SettledStays == Spec => SettledIsFinal
<1>1. TypeOK /\ SyncInv /\ [Next]_vars =>
        [\A c \in Captures :
           entry[c].state \in Settled => entry'[c].state = entry[c].state]_vars
  BY RecordSteps
<1> QED
  BY <1>1, SyncInvariant, PTL DEF Spec, SettledIsFinal

-----------------------------------------------------------------------------
(* What the server has.                                                    *)

\* What a step adds to the server: the capture of the pass, for the token.
LEMMA StoredSteps ==
  ASSUME Next
  PROVE  \/ UNCHANGED stored
         \/ /\ pass.step = "post" /\ token # None
            /\ stored' = stored \cup {<<pass.capture, token>>}
BY DEF Next, PassStep, SaverStep, AuthStep, server,
  SaveDraft, MarkPendingSync, MarkPendingSyncFails, SyncAfterSave, RetryDue,
  LoginToken, LoginUser, LoginShow, LogoutToken, LogoutUser, LogoutShow, ClearToken, ClearUser,
  WhoAmI, ListPending, ClaimOwner, MarkSyncing, PostStored, PostFails, PostUnauthorized,
  PostRefused, UploadAudio, UploadFails, Settle, ApplyFails, PassFails, ScheduleList, ScheduleArm,
  TimerFires, Resume, Restart

\* Whatever accounts sign in and out, fails or crashes: what has reached the
\* server is owned on the device.  The pass has claimed a capture before it sends
\* it, and what is owned stays so.  Owned by whom is another matter: a request
\* takes the token of then.
THEOREM WhatIsSentIsClaimed == Spec => []SentIsClaimed
<1>1. Init => SentIsClaimed
  BY DEF Init, SentIsClaimed
<1>2. TypeOK /\ SyncInv /\ SentIsClaimed /\ [Next]_vars => SentIsClaimed'
  <2> SUFFICES ASSUME TypeOK, SyncInv, SentIsClaimed, [Next]_vars PROVE SentIsClaimed'
    OBVIOUS
  <2>1. CASE UNCHANGED vars
    BY <2>1 DEF vars, server, SentIsClaimed
  <2>2. CASE Next
    <3>1. \A p \in stored : p[1] \in Captures
      BY DEF TypeOK
    <3>2. \A p \in stored : entry'[p[1]].owner # None
      BY <2>2, <3>1, RecordSteps DEF SentIsClaimed
    <3>3. CASE UNCHANGED stored
      BY <3>2, <3>3 DEF SentIsClaimed
    <3>4. ASSUME pass.step = "post", token # None,
                 stored' = stored \cup {<<pass.capture, token>>}
          PROVE  SentIsClaimed'
      <4>1. pass.capture \in Captures /\ pass.user \in Users
        BY <3>4, PassTypes DEF TypeOK
      <4>2. entry[pass.capture].owner = pass.user
        BY <3>4, SyncParts DEF PassInv, InPass
      <4>3. entry'[pass.capture].owner # None
        BY <2>2, <4>1, <4>2, RecordSteps, UsersAssumption
      <4> QED
        BY <3>2, <3>4, <4>3 DEF SentIsClaimed
    <3> QED
      BY <2>2, <3>3, <3>4, StoredSteps
  <2> QED
    BY <2>1, <2>2
<1> QED
  BY <1>1, <1>2, SyncInvariant, PTL DEF Spec

-----------------------------------------------------------------------------
(* The retry timer of a device of one account.                             *)

OneAccount == \A u, v \in Users : u = v

ToRetry == {c \in Captures : entry[c].state = "retryableError"}

\* What is to be retried was to be retried before, and has the owner it had,
\* or a pass has just settled it for its account.
LEMMA RetrySteps ==
  ASSUME TypeOK, SyncInv, Next, \A c \in ToRetry : entry[c].owner # None, NEW c \in ToRetry'
  PROVE  /\ entry'[c].owner # None
         /\ \/ c \in ToRetry /\ entry'[c].owner = entry[c].owner
            \/ Settle
<1>0. c \in Captures /\ entry'[c].state = "retryableError" /\ entry \in [Captures -> Entry]
      /\ PassInv /\ QueueInv /\ pass \in Pass
  BY SyncParts DEF ToRetry, TypeOK
<1>1. entry[c].owner # None => entry'[c].owner = entry[c].owner
  BY <1>0, RecordSteps
<1>2. CASE Settle
  <2>1. pass.capture \in Captures /\ pass.user \in Users /\ pass.outcome \in States /\ InPass
    BY <1>0, <1>2, PassTypes DEF Settle, InPass, States, Pending
  <2>2. entry' = [entry EXCEPT ![pass.capture].state = pass.outcome]
    BY <1>2 DEF Settle
  <2>3. CASE c = pass.capture
    <3>1. entry[c].owner = pass.user
      BY <1>2, <2>1, <2>3, <1>0 DEF PassInv, Settle
    <3> QED
      BY <1>1, <1>2, <2>1, <3>1, UsersAssumption
  <2>4. CASE c # pass.capture
    <3>1. entry'[c].state = entry[c].state
      BY <1>0, <2>1, <2>2, <2>4, StateSet
    <3> QED
      BY <1>0, <1>1, <1>2, <3>1 DEF ToRetry
  <2> QED
    BY <2>3, <2>4
<1>3. CASE ~ Settle
  <2>1. \/ \E d \in Captures : SaveDraft(d) \/ MarkPendingSync(d)
        \/ ClaimOwner \/ MarkSyncing \/ Restart
        \/ UNCHANGED entry
    BY <1>3 DEF Next, PassStep, SaverStep, AuthStep, MarkPendingSyncFails, SyncAfterSave, RetryDue,
      LoginToken, LoginUser, LoginShow, LogoutToken, LogoutUser, LogoutShow, ClearToken,
      ClearUser, WhoAmI, ListPending, PostStored, PostFails, PostUnauthorized, PostRefused,
      UploadAudio, UploadFails, ApplyFails, PassFails, ScheduleList, ScheduleArm, TimerFires,
      Resume
  <2>2. c \in ToRetry
    <3>1. ASSUME NEW d \in Captures, SaveDraft(d) PROVE c \in ToRetry
      BY <1>0, <3>1 DEF SaveDraft, ToRetry
    <3>2. ASSUME NEW d \in Captures, MarkPendingSync(d) PROVE c \in ToRetry
      BY <1>0, <3>2, StateSet DEF MarkPendingSync, ToRetry, States, Pending
    <3>3. CASE ClaimOwner
      <4>1. pass.user \in Users /\ pass.todo \in SUBSET Captures
        BY <1>0, <3>3, PassTypes DEF ClaimOwner
      <4> QED
        BY <1>0, <3>3, <4>1, OwnerFields DEF ClaimOwner, ClaimedBy, ToRetry, Account
    <3>4. CASE MarkSyncing
      <4>1. pass.capture \in Captures
        BY <1>0, <3>4, PassTypes DEF MarkSyncing
      <4> QED
        BY <1>0, <3>4, <4>1, StateSet DEF MarkSyncing, ToRetry, States, Pending
    <3>5. CASE Restart
      BY <1>0, <3>5, RestartEntries DEF ToRetry
    <3>6. CASE UNCHANGED entry
      BY <1>0, <3>6 DEF ToRetry
    <3> QED
      BY <2>1, <3>1, <3>2, <3>3, <3>4, <3>5, <3>6
  <2> QED
    BY <1>1, <2>2
<1> QED
  BY <1>2, <1>3

\* What becomes of the pass and the timer.
LEMMA PassGoesOn ==
  ASSUME TypeOK, Next
  PROVE  \/ UNCHANGED <<pass, timer>>
         \/ pass'.step \notin {"idle", "arm"}
         \/ WhoAmI /\ CurrentUser = None
         \/ ScheduleList
         \/ ScheduleArm
<1>1. ASSUME NEW d, Starts(d)
      PROVE  UNCHANGED <<pass, timer>> \/ pass'.step \notin {"idle", "arm"}
  BY <1>1 DEF Starts
<1>2. CASE PassStep
  <2>1. CASE WhoAmI
    BY <2>1 DEF WhoAmI
  <2>2. CASE ListPending
    BY <2>2 DEF ListPending
  <2>3. CASE ClaimOwner \/ MarkSyncing
    BY <2>3 DEF ClaimOwner, MarkSyncing, GoesOn
  <2>4. CASE PostStored \/ PostFails \/ PostUnauthorized \/ PostRefused \/ UploadAudio
             \/ UploadFails \/ ApplyFails
    BY <2>4 DEF PostStored, PostFails, PostUnauthorized, PostRefused, UploadAudio, UploadFails,
      ApplyFails, GoesOn, Settling
  <2>5. CASE Settle
    BY <2>5 DEF Settle
  <2>6. CASE PassFails
    BY <2>6 DEF PassFails
  <2> QED
    BY <1>2, <2>1, <2>2, <2>3, <2>4, <2>5, <2>6 DEF PassStep
<1>3. CASE ~ PassStep
  <2>1. \/ UNCHANGED <<pass, timer>>
        \/ Starts(TRUE)
        \/ Starts(FALSE)
        \/ Restart
    BY <1>3 DEF Next, SaverStep, AuthStep, SaveDraft, MarkPendingSync, MarkPendingSyncFails,
      SyncAfterSave, RetryDue, LoginToken, LoginUser, LoginShow, LogoutToken, LogoutUser,
      LogoutShow, ClearToken, ClearUser, TimerFires, Resume
  <2>2. Restart => pass'.step = "whoami"
    BY DEF Restart
  <2> QED
    BY <1>1, <2>1, <2>2
<1> QED
  BY <1>2, <1>3

\* Nobody is shown as signed in without a pass: one starts, or is active.
LEMMA SignInStartsPass ==
  ASSUME TypeOK, Next, pass'.step = "idle", NEW u \in Users,
         SignedIn(u)', screen' = u, auth'.step = "idle"
  PROVE  SignedIn(u) /\ screen = u /\ auth.step = "idle"
<1>1. u # None
  BY UsersAssumption
<1>2. \/ UNCHANGED <<token, account, screen, auth>>
      \/ (\E v \in Users : LoginToken(v)) \/ LoginUser \/ LoginShow \/ LogoutToken \/ LogoutUser
      \/ LogoutShow \/ ClearToken \/ ClearUser \/ Restart
  BY DEF Next, PassStep, SaverStep, AuthStep, SaveDraft, MarkPendingSync, MarkPendingSyncFails,
    SyncAfterSave, RetryDue, WhoAmI, ListPending, ClaimOwner, MarkSyncing, PostStored, PostFails,
    PostUnauthorized, PostRefused, UploadAudio, UploadFails, Settle, ApplyFails, PassFails,
    ScheduleList, ScheduleArm, TimerFires, Resume, session
<1>3. ~ \E v \in Users : LoginToken(v)
  BY DEF LoginToken
<1>4. ~ LoginUser /\ ~ LogoutToken /\ ~ LogoutUser
  BY DEF LoginUser, LogoutToken, LogoutUser
<1>5. ~ LogoutShow /\ ~ ClearToken /\ ~ ClearUser
  BY <1>1 DEF LogoutShow, ClearToken, ClearUser, SignedIn
<1>6. ~ LoginShow
  <2>1. ASSUME Starts(TRUE) PROVE FALSE
    <3>1. pass \notin Inactive /\ pass.step = "idle"
      BY <2>1 DEF Starts
    <3> QED
      BY <3>1 DEF TypeOK, Pass, Inactive
  <2> QED
    BY <2>1 DEF LoginShow
<1>7. ~ Restart
  BY DEF Restart
<1> QED
  BY <1>2, <1>3, <1>4, <1>5, <1>6, <1>7 DEF SignedIn

\* What a pass finds when it looks for captures to be retried.
LEMMA ScheduleFinds ==
  ASSUME ScheduleList
  PROVE  \/ CurrentUser = None /\ pass'.step = "idle"
         \/ /\ CurrentUser # None /\ pass'.step = "arm"
            /\ \E S \in Listings(TRUE) : ToSend(S, CurrentUser) # {} => pass'.found
<1>1. CASE CurrentUser = None
  BY <1>1 DEF ScheduleList
<1>2. CASE CurrentUser # None
  <2>1. PICK S \in Listings(TRUE) : pass' = [step |-> "arm", found |-> ToSend(S, CurrentUser) # {}]
    BY <1>2, Zenon DEF ScheduleList
  <2>2. PICK b : b = (ToSend(S, CurrentUser) # {})
    OBVIOUS
  <2>3. pass' = [step |-> "arm", found |-> b]
    BY <2>1, <2>2, Zenon
  <2>4. pass'.step = "arm" /\ pass'.found = b
    BY <2>3
  <2>5. ToSend(S, CurrentUser) # {} => pass'.found
    BY <2>2, <2>4, Zenon
  <2> QED
    BY <1>2, <2>4, <2>5, Zenon
<1> QED
  BY <1>1, <1>2

\* With one account, a listing is empty only if nothing waits to be sent.
LEMMA ListingFinds ==
  ASSUME TypeOK, SyncInv, OneAccount, NEW u \in Users, NEW c \in ToRetry, NEW S \in Listings(TRUE)
  PROVE  ToSend(S, u) # {}
<1> DEFINE eligible == {d \in Captures : queue[d] \in {"now", "due"} \cup {"later"}}
<1>1. /\ S \subseteq eligible
      /\ \A d \in eligible \ S : Cardinality(S) = Limit
  BY DEF Listings
<1>2. c \in Captures /\ queue[c] \in {"now", "later", "due"}
  BY SyncParts DEF ToRetry, QueueInv, Pending, TypeOK
<1>3. S # {}
  <2>1. c \in eligible
    BY <1>2
  <2>2. Limit # 0
    BY SyncBounds
  <2> QED
    BY <1>1, <2>1, <2>2, FS_EmptySet
<1>4. \A d \in S : d \in Captures /\ entry[d].state \in Pending /\ entry[d].owner \in {None, u}
  <2> SUFFICES ASSUME NEW d \in S
               PROVE  d \in Captures /\ entry[d].state \in Pending /\ entry[d].owner \in {None, u}
    OBVIOUS
  <2>1. d \in Captures /\ queue[d] # "none"
    BY <1>1
  <2>2. entry[d].state \in Pending
    BY <2>1, SyncParts DEF QueueInv
  <2>3. entry[d].owner \in Users \cup {None}
    BY <2>1 DEF TypeOK, Entry, Account
  <2> QED
    BY <2>1, <2>2, <2>3 DEF OneAccount
<1> QED
  BY <1>3, <1>4 DEF ToSend, Mine

LEMMA StepArm ==
  ASSUME OneAccount, TypeOK, TypeOK', SyncInv, ArmInv, [Next]_vars
  PROVE  ArmInv'
<1>1. CASE UNCHANGED vars
  BY <1>1 DEF vars, session, ArmInv, RetryIsArmed, SignedIn
<1>2. CASE Next
  <2>0. pass \in Pass /\ \A c \in ToRetry : entry[c].owner # None /\ (pass.step = "arm" => pass.found)
    BY DEF ArmInv, ToRetry, TypeOK
  <2>1. \A c \in ToRetry' : entry'[c].owner # None
    BY <1>2, <2>0, RetrySteps
  <2>2. ASSUME NEW c \in ToRetry', pass'.step = "arm" PROVE pass'.found
    <3>1. ~ Settle /\ ~ WhoAmI /\ ~ ScheduleArm
      BY <2>2 DEF Settle, WhoAmI, ScheduleArm
    <3>2. c \in ToRetry
      BY <1>2, <2>0, <2>2, <3>1, RetrySteps
    <3>3. CASE UNCHANGED pass
      BY <2>0, <2>2, <3>2, <3>3
    <3>4. CASE ScheduleList
      <4>1. /\ CurrentUser # None
            /\ \E S \in Listings(TRUE) : ToSend(S, CurrentUser) # {} => pass'.found
        BY <2>2, <3>4, ScheduleFinds
      <4>2. CurrentUser \in Users
        BY <4>1, CurrentUserType DEF Account
      <4> QED
        BY <3>2, <4>1, <4>2, ListingFinds, Zenon
    <3> QED
      BY <1>2, <2>2, <3>1, <3>3, <3>4, PassGoesOn
  <2>3. ASSUME NEW c \in ToRetry', pass'.step = "idle", SignedIn(entry[c].owner)',
               screen' = entry'[c].owner, auth'.step = "idle"
        PROVE  timer'
    <3> DEFINE u == entry'[c].owner
    <3>1. ~ Settle
      BY <2>3 DEF Settle
    <3>2. c \in ToRetry /\ u = entry[c].owner /\ c \in Captures
      BY <1>2, <2>0, <2>3, <3>1, RetrySteps DEF ToRetry
    <3>3. u \in Users
      BY <2>1, <2>3, <3>2 DEF TypeOK, Entry, Account
    <3>4. SignedIn(u) /\ screen = u /\ auth.step = "idle"
      BY <1>2, <2>3, <3>2, <3>3, SignInStartsPass DEF SignedIn
    <3>5. CASE UNCHANGED <<pass, timer>>
      BY <2>3, <3>2, <3>4, <3>5 DEF ArmInv, RetryIsArmed, ToRetry
    <3>6. CASE ScheduleArm
      BY <2>0, <3>2, <3>6 DEF ScheduleArm, Armed
    <3>7. CurrentUser # None
      BY <3>3, <3>4, UsersAssumption DEF SignedIn, CurrentUser
    <3>8. ~ ScheduleList
      BY <2>3, <3>7, ScheduleFinds
    <3> QED
      BY <1>2, <2>3, <3>5, <3>6, <3>7, <3>8, PassGoesOn
  <2>4. RetryIsArmed'
    BY <2>3 DEF RetryIsArmed, ToRetry
  <2> QED
    BY <2>1, <2>2, <2>4 DEF ArmInv, ToRetry
<1> QED
  BY <1>1, <1>2

\* While only one account ever signs in, a capture that is to be retried has a
\* retry under way whenever its owner is signed in, unless the last pass ended
\* with an error of the database.
THEOREM RetryTimerIsArmed == ASSUME OneAccount PROVE Spec => []RetryIsArmed
<1>1. Init => ArmInv
  BY DEF Init, ArmInv, RetryIsArmed
<1>2. TypeOK /\ SyncInv /\ ArmInv /\ [Next]_vars => ArmInv'
  BY StepType, StepArm
<1>3. ArmInv => RetryIsArmed
  BY DEF ArmInv
<1> QED
  BY <1>1, <1>2, <1>3, SyncInvariant, PTL DEF Spec
=============================================================================
