---------------------------- MODULE CaptureSync ----------------------------
(***************************************************************************)
(* The local capture queue of the WeaveBrain app and its synchronisation   *)
(* with the server: drafts saved on the device, with or without an         *)
(* account, are queued and sent by one pass at a time, which every trigger *)
(* (start, sign-in, resume, network, retry button, save, timer) starts     *)
(* unless a pass is active.                                                *)
(*                                                                         *)
(* An action is what happens between two awaits: one transaction of the    *)
(* local database, one read or write of the secure storage, one request.   *)
(* The token and the account are two keys of the secure storage, written   *)
(* one after the other; a request takes the token that is stored when it   *)
(* is sent.  The app can be killed between any two actions; the database   *)
(* and the secure storage survive.                                         *)
(*                                                                         *)
(* Time is abstract: a retry is now, later, or later and due.  The server  *)
(* is known by its answers.  Faults of the network, the database and the   *)
(* app are bounded by MaxFaults.                                           *)
(***************************************************************************)
EXTENDS Naturals, FiniteSets

CONSTANTS
  Captures,   \* captures made on the device
  Audio,      \* those that are recordings
  Users,      \* accounts that sign in on the device
  None,       \* no account
  Limit,      \* how many queued captures a pass considers
  MaxFaults   \* bound: failures and crashes

ASSUME AudioAssumption == Audio \subseteq Captures
ASSUME UsersAssumption == None \notin Users
ASSUME SyncBounds == Limit \in Nat \ {0} /\ MaxFaults \in Nat

VARIABLES
  entry,     \* local record of each capture: its sync state and its owner
  queue,     \* its place in capture_sync_queue
  saver,     \* what remains to do after saving it
  pass,      \* the active sync pass
  timer,     \* the retry timer is armed
  token,     \* jwt_token in the secure storage
  account,   \* user_data in the secure storage
  screen,    \* the account that the app shows
  auth,      \* sign-in or sign-out under way
  clearing,  \* what a 401 has left to clear
  stored,    \* captures on the server, each with the account that has it
  uploaded,  \* recordings on the server, likewise
  faults     \* failures and crashes so far

session == <<token, account, screen, auth, clearing>>
server == <<stored, uploaded>>
vars == <<entry, queue, saver, pass, timer, session, server, faults>>

-----------------------------------------------------------------------------
Account == Users \cup {None}

\* Mutation: what a failed pass left in syncing is not pending.
PendingUntouched == {"savedLocal", "pendingSync", "retryableError"}

Pending == {"savedLocal", "pendingSync", "syncing", "retryableError"}

\* "refused" stands for conflict and rejected, which differ in name only.
Settled == {"synced", "refused"}
Entry == [state : Pending \cup Settled \cup {"absent"}, owner : Account]

Inactive == {[step |-> "idle"], [step |-> "failed"]}

\* "failed" is a pass that ended with an error.
Pass == Inactive
  \cup [step : {"whoami"}, deferred : BOOLEAN]
  \cup [step : {"list"}, deferred : BOOLEAN, user : Users]
  \cup [step : {"next"}, user : Users, todo : SUBSET Captures]
  \cup [step : {"mark", "post", "upload"}, user : Users, todo : SUBSET Captures,
        capture : Captures]
  \cup [step : {"settle"}, user : Users, todo : SUBSET Captures, capture : Captures,
        outcome : Settled \cup {"retryableError"}]
  \cup [step : {"schedule"}]
  \cup [step : {"arm"}, found : BOOLEAN]

Auth == {[step |-> "idle"], [step |-> "deleteUser"], [step |-> "hide"]}
          \cup [step : {"saveUser", "show"}, user : Users]

TypeOK ==
  /\ entry \in [Captures -> Entry]
  /\ queue \in [Captures -> {"none", "now", "later", "due"}]
  /\ saver \in [Captures -> {"none", "saved", "queued"}]
  /\ pass \in Pass
  /\ timer \in BOOLEAN
  /\ token \in Account /\ account \in Account /\ screen \in Account
  /\ auth \in Auth
  /\ clearing \in {"no", "token", "user"}
  /\ stored \subseteq Captures \X Users
  /\ uploaded \subseteq stored
  /\ faults \in 0 .. MaxFaults

\* A fresh installation: nothing saved, nobody signed in, the startup pass over.
Init ==
  /\ entry = [c \in Captures |-> [state |-> "absent", owner |-> None]]
  /\ queue = [c \in Captures |-> "none"]
  /\ saver = [c \in Captures |-> "none"]
  /\ pass = [step |-> "idle"] /\ timer = FALSE
  /\ token = None /\ account = None /\ screen = None
  /\ auth = [step |-> "idle"] /\ clearing = "no"
  /\ stored = {} /\ uploaded = {}
  /\ faults = 0

Fault == faults < MaxFaults /\ faults' = faults + 1

\* A trigger: it joins the active pass, or cancels the timer and starts one.
Starts(deferred) ==
  IF pass \in Inactive
  THEN /\ pass' = [step |-> "whoami", deferred |-> deferred]
       /\ timer' = FALSE
  ELSE UNCHANGED <<pass, timer>>

-----------------------------------------------------------------------------
(* Saving a capture.                                                       *)

\* A draft belongs to the account on the screen.
SaveDraft(c) ==
  /\ entry[c].state = "absent"
  /\ entry' = [entry EXCEPT ![c] = [state |-> "savedLocal", owner |-> screen]]
  /\ saver' = [saver EXCEPT ![c] = "saved"]
  /\ UNCHANGED <<queue, pass, timer, session, server, faults>>

MarkPendingSync(c) ==
  /\ saver[c] = "saved"
  /\ entry' = [entry EXCEPT ![c].state = "pendingSync"]
  /\ queue' = [queue EXCEPT ![c] = "now"]
  /\ saver' = [saver EXCEPT ![c] = "queued"]
  /\ UNCHANGED <<pass, timer, session, server, faults>>

\* The draft stays; a recording triggers a pass all the same.
MarkPendingSyncFails(c) ==
  /\ saver[c] = "saved" /\ Fault
  /\ saver' = [saver EXCEPT ![c] = IF c \in Audio THEN "queued" ELSE "none"]
  /\ UNCHANGED <<entry, queue, pass, timer, session, server>>

SyncAfterSave(c) ==
  /\ saver[c] = "queued"
  /\ saver' = [saver EXCEPT ![c] = "none"]
  /\ Starts(FALSE)
  /\ UNCHANGED <<entry, queue, session, server, faults>>

SaverStep(c) ==
  MarkPendingSync(c) \/ MarkPendingSyncFails(c) \/ SyncAfterSave(c)

-----------------------------------------------------------------------------
(* Accounts.                                                               *)

\* Sign-in, once the server has answered: the token, the user, the screen.
LoginToken(u) ==
  /\ screen = None /\ auth.step = "idle"
  /\ token' = u
  /\ auth' = [step |-> "saveUser", user |-> u]
  /\ UNCHANGED <<entry, queue, saver, pass, timer, account, screen, clearing, server, faults>>

LoginUser ==
  /\ auth.step = "saveUser"
  /\ account' = auth.user
  /\ auth' = [step |-> "show", user |-> auth.user]
  /\ UNCHANGED <<entry, queue, saver, pass, timer, token, screen, clearing, server, faults>>

\* A change of the shown account triggers a pass.
LoginShow ==
  /\ auth.step = "show"
  /\ screen' = auth.user
  /\ auth' = [step |-> "idle"]
  /\ Starts(TRUE)
  /\ UNCHANGED <<entry, queue, saver, token, account, clearing, server, faults>>

LogoutToken ==
  /\ screen # None /\ auth.step = "idle"
  /\ token' = None
  /\ auth' = [step |-> "deleteUser"]
  /\ UNCHANGED <<entry, queue, saver, pass, timer, account, screen, clearing, server, faults>>

LogoutUser ==
  /\ auth.step = "deleteUser"
  /\ account' = None
  /\ auth' = [step |-> "hide"]
  /\ UNCHANGED <<entry, queue, saver, pass, timer, token, screen, clearing, server, faults>>

LogoutShow ==
  /\ auth.step = "hide"
  /\ screen' = None
  /\ auth' = [step |-> "idle"]
  /\ Starts(TRUE)
  /\ UNCHANGED <<entry, queue, saver, token, account, clearing, server, faults>>

AuthStep == LoginUser \/ LoginShow \/ LogoutUser \/ LogoutShow

\* After a 401 nobody waits for the storage to be cleared, and the screen
\* keeps its account.
ClearToken ==
  /\ clearing = "token"
  /\ token' = None /\ clearing' = "user"
  /\ UNCHANGED <<entry, queue, saver, pass, timer, account, screen, auth, server, faults>>

ClearUser ==
  /\ clearing = "user"
  /\ account' = None /\ clearing' = "no"
  /\ UNCHANGED <<entry, queue, saver, pass, timer, token, screen, auth, server, faults>>

-----------------------------------------------------------------------------
(* A pass.                                                                 *)

\* currentUserId.  It reads two keys one after the other; what it returns is
\* always what it would return at one of the two reads.
CurrentUser == IF token = None THEN None ELSE account

WhoAmI ==
  /\ pass.step = "whoami"
  /\ pass' = IF CurrentUser = None THEN [step |-> "idle"]
             ELSE [step |-> "list", deferred |-> pass.deferred, user |-> CurrentUser]
  /\ UNCHANGED <<entry, queue, saver, timer, session, server, faults>>

Mine(S, user) == {c \in S : entry[c].owner \in {None, user}}

\* listPending: the first Limit of the eligible captures of the device, in
\* the order of their retry times.
Rank(c) == CASE queue[c] = "now" -> 0 [] queue[c] = "due" -> 1 [] OTHER -> 2

Listings(deferred) ==
  LET eligible == {c \in Captures :
                     queue[c] \in {"now", "due"} \cup IF deferred THEN {"later"} ELSE {}} IN
  {S \in SUBSET eligible :
     /\ Cardinality(S) <= Limit
     /\ \A c \in eligible \ S :
          Cardinality(S) = Limit /\ \A d \in S : Rank(d) <= Rank(c)}

\* The part of a listing that is pending and the user's own.
ToSend(S, user) == {c \in Mine(S, user) : entry[c].state \in Pending}

ListPending ==
  /\ pass.step = "list"
  /\ \E S \in Listings(pass.deferred) :
       pass' = IF ToSend(S, pass.user) = {} THEN [step |-> "schedule"]
               ELSE [step |-> "next", user |-> pass.user, todo |-> ToSend(S, pass.user)]
  /\ UNCHANGED <<entry, queue, saver, timer, session, server, faults>>

\* Mutation: a guest's capture is sent without being claimed.
UnclaimedBy(c, user) == entry

ClaimedBy(c, user) == [entry EXCEPT ![c].owner = user]

\* claimOwner for the next capture.  It refuses a capture of another account,
\* which ClaimsNeverConflict shows does not happen.
ClaimOwner ==
  /\ pass.step = "next"
  /\ \E c \in pass.todo :
       /\ entry' = ClaimedBy(c, pass.user)
       /\ pass' = [step |-> "mark", user |-> pass.user, todo |-> pass.todo \ {c}, capture |-> c]
  /\ UNCHANGED <<queue, saver, timer, session, server, faults>>

\* The pass goes on with its capture, or knows what became of it.
GoesOn(step) ==
  [step |-> step, user |-> pass.user, todo |-> pass.todo, capture |-> pass.capture]

Settling(outcome) ==
  [step |-> "settle", user |-> pass.user, todo |-> pass.todo, capture |-> pass.capture,
   outcome |-> outcome]

MarkSyncing ==
  /\ pass.step = "mark"
  /\ entry' = [entry EXCEPT ![pass.capture].state = "syncing"]
  /\ pass' = GoesOn("post")
  /\ UNCHANGED <<queue, saver, timer, session, server, faults>>

\* The server stores the capture for the account of the token, once however
\* often it is sent.
PostStored ==
  /\ pass.step = "post" /\ token # None
  /\ stored' = stored \cup {<<pass.capture, token>>}
  /\ pass' = IF pass.capture \in Audio THEN GoesOn("upload") ELSE Settling("synced")
  /\ UNCHANGED <<entry, queue, saver, timer, session, uploaded, faults>>

\* The answer, or the request, is lost, or the server fails.
PostFails ==
  /\ pass.step = "post" /\ Fault
  /\ \/ token # None /\ stored' = stored \cup {<<pass.capture, token>>}
     \/ UNCHANGED stored
  /\ pass' = Settling("retryableError")
  /\ UNCHANGED <<entry, queue, saver, timer, session, uploaded>>

\* 401: no token, or one the server no longer takes.
PostUnauthorized ==
  /\ pass.step \in {"post", "upload"}
  /\ clearing' = "token"
  /\ pass' = Settling("retryableError")
  /\ UNCHANGED <<entry, queue, saver, timer, token, account, screen, auth, server, faults>>

\* 409 or another permanent 4xx: never for a capture the account has already.
PostRefused ==
  /\ pass.step = "post" /\ token # None
  /\ <<pass.capture, token>> \notin stored
  /\ pass' = Settling("refused")
  /\ UNCHANGED <<entry, queue, saver, timer, session, server, faults>>

\* Mutation: the error code is stored as the state.
AfterFailedUploadCode == "AUDIO_UPLOAD_FAILED"

\* Mutation: a failed upload does not keep the capture from being synced.
AfterFailedUploadSynced == "synced"

AfterFailedUpload == "retryableError"

\* uploadAudio as a whole; the server takes a recording only for a capture that
\* the account of the token has.
UploadAudio ==
  /\ pass.step = "upload"
  /\ <<pass.capture, token>> \in stored
  /\ uploaded' = uploaded \cup {<<pass.capture, token>>}
  /\ pass' = Settling("synced")
  /\ UNCHANGED <<entry, queue, saver, timer, session, stored, faults>>

UploadFails ==
  /\ pass.step = "upload"
  /\ \/ token # None /\ <<pass.capture, token>> \notin stored /\ UNCHANGED faults
     \/ Fault
  /\ pass' = Settling(AfterFailedUpload)
  /\ UNCHANGED <<entry, queue, saver, timer, session, server>>

\* Mutation: whatever has been sent leaves the queue.
QueuedAfterNever(outcome) == "none"

QueuedAfter(outcome) == IF outcome = "retryableError" THEN "later" ELSE "none"

\* applyServerRevision, markRetryableError, markConflict or markRejected: the
\* record and the queue in one transaction.
Settle ==
  /\ pass.step = "settle"
  /\ entry' = [entry EXCEPT ![pass.capture].state = pass.outcome]
  /\ queue' = [queue EXCEPT ![pass.capture] = QueuedAfter(pass.outcome)]
  /\ pass' = IF pass.todo = {} THEN [step |-> "schedule"]
             ELSE [step |-> "next", user |-> pass.user, todo |-> pass.todo]
  /\ UNCHANGED <<saver, timer, session, server, faults>>

\* applyServerRevision fails inside the try: the capture is to be retried.
ApplyFails ==
  /\ pass.step = "settle" /\ pass.outcome = "synced" /\ Fault
  /\ pass' = Settling("retryableError")
  /\ UNCHANGED <<entry, queue, saver, timer, session, server>>

\* Any other failure of the local database ends the pass, and nothing is
\* scheduled.
PassFails ==
  /\ \/ pass.step \in {"list", "next", "mark", "schedule"}
     \/ pass.step = "settle" /\ pass.outcome # "synced"
  /\ Fault
  /\ pass' = [step |-> "failed"]
  /\ UNCHANGED <<entry, queue, saver, timer, session, server>>

\* _scheduleNextRetry: is anything left for who is signed in now?
ScheduleList ==
  /\ pass.step = "schedule"
  /\ \/ CurrentUser = None /\ pass' = [step |-> "idle"]
     \/ /\ CurrentUser # None
        /\ \E S \in Listings(TRUE) :
             pass' = [step |-> "arm", found |-> ToSend(S, CurrentUser) # {}]
  /\ UNCHANGED <<entry, queue, saver, timer, session, server, faults>>

\* Mutation: the timer is not set.
ArmedNever == FALSE

Armed == pass.found

ScheduleArm ==
  /\ pass.step = "arm"
  /\ timer' = Armed
  /\ pass' = [step |-> "idle"]
  /\ UNCHANGED <<entry, queue, saver, session, server, faults>>

PassStep ==
  \/ WhoAmI \/ ListPending \/ ClaimOwner \/ MarkSyncing
  \/ PostStored \/ PostFails \/ PostUnauthorized \/ PostRefused
  \/ UploadAudio \/ UploadFails \/ Settle \/ ApplyFails \/ PassFails
  \/ ScheduleList \/ ScheduleArm

-----------------------------------------------------------------------------
(* Time, foreground, crash.                                                *)

RetryDue(c) ==
  /\ queue[c] = "later"
  /\ queue' = [queue EXCEPT ![c] = "due"]
  /\ UNCHANGED <<entry, saver, pass, timer, session, server, faults>>

\* The timer was set for the earliest retry; it may be early here.
TimerFires ==
  /\ timer
  /\ Starts(FALSE)
  /\ UNCHANGED <<entry, queue, saver, session, server, faults>>

\* The app comes to the foreground, the network returns, the user asks.
Resume ==
  /\ pass \in Inactive
  /\ Starts(TRUE)
  /\ UNCHANGED <<entry, queue, saver, session, server, faults>>

Interrupted(c) == entry[c].state \in {"savedLocal", "syncing"}

\* The app is killed and started again: recoverInterruptedSync when the
\* database is opened, checkAuth, and a pass.
Restart ==
  /\ Fault
  /\ entry' = [c \in Captures |->
                 IF Interrupted(c) THEN [entry[c] EXCEPT !.state = "pendingSync"] ELSE entry[c]]
  /\ queue' = [c \in Captures |-> IF Interrupted(c) THEN "now" ELSE queue[c]]
  /\ saver' = [c \in Captures |-> "none"]
  /\ pass' = [step |-> "whoami", deferred |-> TRUE]
  /\ timer' = FALSE
  /\ screen' = CurrentUser
  /\ auth' = [step |-> "idle"] /\ clearing' = "no"
  /\ UNCHANGED <<token, account, server>>

Next ==
  \/ \E c \in Captures : SaveDraft(c) \/ SaverStep(c) \/ RetryDue(c)
  \/ \E u \in Users : LoginToken(u)
  \/ LogoutToken \/ AuthStep \/ ClearToken \/ ClearUser
  \/ PassStep \/ TimerFires \/ Resume \/ Restart

\* The app runs its own steps and fires its timer.  It comes back to the
\* foreground, or the network returns, again and again: without that a capture
\* queued just as a pass ends would wait for the next save.  Nobody has to save,
\* sign in or sign out, and nothing has to fail.
Fairness ==
  /\ WF_vars(PassStep) /\ WF_vars(TimerFires) /\ WF_vars(Resume)
  /\ WF_vars(AuthStep) /\ WF_vars(ClearToken) /\ WF_vars(ClearUser)
  /\ \A c \in Captures : WF_vars(SaverStep(c)) /\ WF_vars(RetryDue(c))

Spec == Init /\ [][Next]_vars /\ Fairness

-----------------------------------------------------------------------------
(* Properties that hold whoever signs in and out meanwhile.                *)

\* What waits to be sent is in the queue, whatever fails or crashes, and what
\* is settled is not.
UnsettledIsQueued ==
  \A c \in Captures :
    /\ entry[c].state \in Pending \ {"savedLocal"} => queue[c] # "none"
    /\ entry[c].state \in Settled => queue[c] = "none"

\* claimOwner never finds a capture of another account: nothing can claim a
\* capture between its listing and its turn.
ClaimsNeverConflict ==
  pass.step \in {"next", "mark", "post", "upload", "settle"} =>
    /\ \A c \in pass.todo : entry[c].owner \in {None, pass.user}
    /\ pass.step # "next" => entry[pass.capture].owner = pass.user

\* A capture never changes hands, and is not given back to guests.
OwnerIsFinal ==
  [][\A c \in Captures : entry[c].owner # None => entry'[c].owner = entry[c].owner]_vars

\* A capture that is synced, or refused for good, is never queued again, not
\* by a restart either.
SettledIsFinal ==
  [][\A c \in Captures : entry[c].state \in Settled => entry'[c].state = entry[c].state]_vars

\* The app shows a capture as synced only if the server has it, with its
\* recording if it is one.
SyncedReachedServer ==
  \A c \in Captures :
    entry[c].state = "synced" =>
      \E u \in Users : <<c, u>> \in IF c \in Audio THEN uploaded ELSE stored

\* What has reached the server, for whichever account, is owned on the device,
\* also if the answer was lost or the app was killed: a guest's capture is claimed
\* before it is sent, and who signs in next does not see or send it again.
SentIsClaimed == \A p \in stored : entry[p[1]].owner # None

\* What the contract promises of a device that several accounts use: the server
\* has a capture only for the account that owns it on the device, so account B
\* does not send what belongs to account A.  The code does not keep it: a pass
\* keeps the user it began with, and each request takes the token of then.
StoredForOwner == \A p \in stored : entry[p[1]].owner = p[2]

\* Inductive invariant, for the proofs.  The queue holds exactly what waits to
\* be sent; a pass goes through queued captures of its account, each once; and
\* it settles as synced only what the server has.
SyncInv ==
  /\ \A c \in Captures :
       /\ queue[c] # "none" <=> entry[c].state \in Pending \ {"savedLocal"}
       /\ saver[c] = "saved" => entry[c].state = "savedLocal"
       /\ entry[c].state = "absent" => entry[c].owner = None
  /\ pass.step \in {"next", "mark", "post", "upload", "settle"} =>
       /\ \A c \in pass.todo : queue[c] # "none" /\ entry[c].owner \in {None, pass.user}
       /\ pass.step # "next" =>
            /\ pass.capture \notin pass.todo
            /\ queue[pass.capture] # "none" /\ entry[pass.capture].owner = pass.user
  /\ pass.step = "settle" /\ pass.outcome = "synced" =>
       \E u \in Users :
         <<pass.capture, u>> \in IF pass.capture \in Audio THEN uploaded ELSE stored
  /\ SyncedReachedServer

-----------------------------------------------------------------------------
(* Properties of a device that one account uses.                           *)

SignedIn(u) == token = u /\ account = u

\* A capture to be retried has a retry under way whenever its owner is signed
\* in, unless the last pass ended with an error of the database.
RetryIsArmed ==
  \A c \in Captures :
    /\ entry[c].state = "retryableError" /\ pass.step = "idle"
    /\ SignedIn(entry[c].owner) /\ screen = entry[c].owner /\ auth.step = "idle"
    => timer

\* Inductive invariant of a device that one account uses: what is to be retried
\* was claimed, and a pass that is about to arm the timer has found it.
ArmInv ==
  /\ \A c \in Captures : entry[c].state = "retryableError" =>
       entry[c].owner # None /\ (pass.step = "arm" => pass.found)
  /\ RetryIsArmed

\* Once an account stays signed in, whatever is queued for it is settled, if a
\* pass can see the whole queue.
Drains ==
  \A u \in Users : <>[]SignedIn(u) =>
    \A c \in Captures :
      [](queue[c] # "none" /\ entry[c].owner \in {None, u} => <>(entry[c].state \in Settled))
=============================================================================
