-------------------------------- MODULE Echo --------------------------------
(***************************************************************************)
(* The echoes of one user: a memory that is shown again, a verdict on it,  *)
(* and the settings that say how often.  There is no scheduler: whoever    *)
(* asks for the current echo finds the open one, retires it when its time  *)
(* is over or its memory is gone, and creates the next when it is due.     *)
(*                                                                         *)
(* Each step of a request is one statement of the database.  The requests  *)
(* of several devices overlap and may die anywhere.  Time is counted in    *)
(* days; an echo's place in the sequence is its id and its age.            *)
(*                                                                         *)
(* Left out: which of the eligible memories is preferred (any may be       *)
(* picked), and the reason that is shown with it.                          *)
(***************************************************************************)
EXTENDS Integers, Sequences, FiniteSets

CONSTANTS
  Captures,         \* the user's memories
  NoCapture,        \* none of them
  Requests,         \* places for requests that are being served
  Cadences,         \* days between two echoes
  DefaultCadence,   \* the cadence of a user who has not chosen
  OtherDays,        \* a memory is not shown again for so many days
  NotRelevantDays,  \* nor for so many, if it was called not relevant
  OneReader,        \* the devices do not ask for the current echo at once
  MaxDay,           \* bound: days
  MaxRevision       \* bound: changes of the settings

ASSUME CapturesAssumption == NoCapture \notin Captures
ASSUME CadencesAssumption == Cadences \subseteq Nat \ {0} /\ DefaultCadence \in Cadences
ASSUME CooldownAssumption == OtherDays \in Nat /\ NotRelevantDays \in Nat
ASSUME OneReaderAssumption == OneReader \in BOOLEAN
ASSUME EchoBounds == MaxDay \in Nat /\ MaxRevision \in Nat

VARIABLES
  settings,  \* user_echo_settings; revision 0: there is no row
  echoes,    \* user_echoes, oldest first
  memory,    \* lifecycle_status of the captures
  today,     \* the day
  request    \* the requests that are being served

vars == <<settings, echoes, memory, today, request>>

-----------------------------------------------------------------------------
Verdicts == {"done", "later", "not_relevant"}
Statuses == Verdicts \cup {"open", "expired"}
Reading == {"latest", "fetch", "expire", "pick", "create"}
Places == Reading \cup {"idle", "verdict", "save"}

Settings == [enabled : BOOLEAN, cadence : Cadences, revision : 0 .. MaxRevision]
Defaults == [enabled |-> FALSE, cadence |-> DefaultCadence, revision |-> 0]

\* settings: as they are to be; cadence and day: as they were when the request
\* came; echo: the latest one, or the one that is judged; capture: the candidate.
Idle == [at |-> "idle", settings |-> Defaults, cadence |-> DefaultCadence, day |-> 0,
         echo |-> 0, verdict |-> "done", capture |-> NoCapture]

Init ==
  /\ settings = Defaults
  /\ echoes = <<>>
  /\ memory = [c \in Captures |-> "active"]
  /\ today = 0
  /\ request = [r \in Requests |-> Idle]

Answers(r) == request' = [request EXCEPT ![r] = Idle]
Goes(r, place) == request' = [request EXCEPT ![r].at = place]

-----------------------------------------------------------------------------
(* The current echo                                                        *)

\* A disabled user is answered at once.
CurrentEcho(r) ==
  /\ request[r].at = "idle"
  /\ OneReader => \A q \in Requests : request[q].at \notin Reading
  /\ settings.enabled
  /\ request' = [request EXCEPT ![r] = [Idle EXCEPT !.at = "latest", !.cadence = settings.cadence,
                                                 !.day = today]]
  /\ UNCHANGED <<settings, echoes, memory, today>>

Latest == Len(echoes)

\* The window of the latest echo is still open when the request comes.
Fresh(r) == request[r].day < echoes[Latest].day + request[r].cadence

\* The place after a look at the latest echo; "idle": it is not time yet.
AfterLatest(r) ==
  IF Latest > 0 /\ echoes[Latest].status = "open"
  THEN IF Fresh(r) THEN "fetch" ELSE "expire"
  ELSE IF Latest > 0 /\ Fresh(r) THEN "idle" ELSE "pick"

ReadLatest(r) ==
  /\ request[r].at = "latest"
  /\ IF AfterLatest(r) = "idle" THEN Answers(r)
     ELSE request' = [request EXCEPT ![r] = [Idle EXCEPT !.at = AfterLatest(r), !.echo = Latest,
                                                         !.day = request[r].day]]
  /\ UNCHANGED <<settings, echoes, memory, today>>

\* The echo's memory is shown again, unless it is in the trash.
FetchMemory(r) ==
  /\ request[r].at = "fetch"
  /\ IF memory[echoes[request[r].echo].capture] # "trashed" THEN Answers(r) ELSE Goes(r, "expire")
  /\ UNCHANGED <<settings, echoes, memory, today>>

\* Only an open echo changes; nobody is told otherwise.
UpdateStatus(e, status) ==
  IF echoes[e].status = "open" THEN echoes' = [echoes EXCEPT ![e].status = status]
  ELSE UNCHANGED echoes

\* Mutation: a stale echo is left open when the next one is created.
ExpireNothing(r) ==
  /\ request[r].at = "expire"
  /\ UNCHANGED echoes
  /\ Goes(r, "pick")
  /\ UNCHANGED <<settings, memory, today>>

Expire(r) ==
  /\ request[r].at = "expire"
  /\ UpdateStatus(request[r].echo, "expired")
  /\ Goes(r, "pick")
  /\ UNCHANGED <<settings, memory, today>>

EchoesOf(c) == {e \in DOMAIN echoes : echoes[e].capture = c}

\* Mutation: a verdict counts for the shorter time only.
CooledDownAlike(c, day) ==
  \A e \in EchoesOf(c) : echoes[e].day < day - OtherDays

CooledDown(c, day) ==
  \A e \in EchoesOf(c) :
    echoes[e].day < day - (IF echoes[e].status = "not_relevant" THEN NotRelevantDays ELSE OtherDays)

Eligible(c, day) == memory[c] = "active" /\ CooledDown(c, day)

PickCandidate(r, c) ==
  /\ request[r].at = "pick"
  /\ Eligible(c, request[r].day)
  /\ request' = [request EXCEPT ![r] = [Idle EXCEPT !.at = "create", !.capture = c]]
  /\ UNCHANGED <<settings, echoes, memory, today>>

\* Mutation: nobody looks whether there is a candidate.
NoCandidateUnchecked(r) ==
  /\ request[r].at = "pick"
  /\ request' = [request EXCEPT ![r] = [Idle EXCEPT !.at = "create"]]
  /\ UNCHANGED <<settings, echoes, memory, today>>

NoCandidate(r) ==
  /\ request[r].at = "pick"
  /\ \A c \in Captures : ~ Eligible(c, request[r].day)
  /\ Answers(r)
  /\ UNCHANGED <<settings, echoes, memory, today>>

Create(r) ==
  /\ request[r].at = "create"
  /\ echoes' = Append(echoes, [capture |-> request[r].capture, status |-> "open", day |-> today])
  /\ Answers(r)
  /\ UNCHANGED <<settings, memory, today>>

-----------------------------------------------------------------------------
(* Feedback and settings                                                   *)

Feedback(r, e, verdict) ==
  /\ request[r].at = "idle"
  /\ echoes[e].status = "open"
  /\ request' = [request EXCEPT ![r] = [Idle EXCEPT !.at = "verdict", !.echo = e, !.verdict = verdict]]
  /\ UNCHANGED <<settings, echoes, memory, today>>

RecordVerdict(r) ==
  /\ request[r].at = "verdict"
  /\ UpdateStatus(request[r].echo, request[r].verdict)
  /\ Answers(r)
  /\ UNCHANGED <<settings, memory, today>>

\* A patch of one switch, from a client that has seen the settings as they are.
UpdateSettings(r, patched) ==
  /\ request[r].at = "idle"
  /\ settings.revision < MaxRevision
  /\ request' = [request EXCEPT ![r] = [Idle EXCEPT !.at = "save", !.settings = patched]]
  /\ UNCHANGED <<settings, echoes, memory, today>>

\* A row is inserted only if there is none, and updated only if its revision is
\* the one that was read; otherwise the client is told of a conflict.
SaveSettings(r) ==
  /\ request[r].at = "save"
  /\ settings' = IF settings.revision = request[r].settings.revision
                 THEN [request[r].settings EXCEPT !.revision = settings.revision + 1]
                 ELSE settings
  /\ Answers(r)
  /\ UNCHANGED <<echoes, memory, today>>

Patches == {[settings EXCEPT !.enabled = b] : b \in BOOLEAN}
             \cup {[settings EXCEPT !.cadence = n] : n \in Cadences}

-----------------------------------------------------------------------------
(* Around the echoes                                                       *)

Abort(r) ==
  /\ request[r].at # "idle"
  /\ Answers(r)
  /\ UNCHANGED <<settings, echoes, memory, today>>

\* What is in the trash stays there.
SetLifecycle(c, status) ==
  /\ memory[c] \notin {"trashed", status}
  /\ memory' = [memory EXCEPT ![c] = status]
  /\ UNCHANGED <<settings, echoes, today, request>>

NextDay ==
  /\ today < MaxDay
  /\ today' = today + 1
  /\ UNCHANGED <<settings, echoes, memory, request>>

Next ==
  \/ \E r \in Requests :
       \/ CurrentEcho(r) \/ ReadLatest(r) \/ FetchMemory(r) \/ Expire(r)
       \/ NoCandidate(r) \/ Create(r) \/ RecordVerdict(r) \/ SaveSettings(r) \/ Abort(r)
       \/ \E c \in Captures : PickCandidate(r, c)
       \/ \E e \in DOMAIN echoes, verdict \in Verdicts : Feedback(r, e, verdict)
       \/ \E patched \in Patches : UpdateSettings(r, patched)
  \/ \E c \in Captures, status \in {"active", "archived", "trashed"} : SetLifecycle(c, status)
  \/ NextDay

Spec == Init /\ [][Next]_vars

-----------------------------------------------------------------------------
(* Properties                                                              *)

EchoType == [capture : Captures, status : Statuses, day : 0 .. MaxDay]

\* Type invariant: the two tables, and what a request has in hand.
TypeOK ==
  /\ settings \in Settings
  /\ echoes \in Seq(EchoType)
  /\ memory \in [Captures -> {"active", "archived", "trashed"}]
  /\ today \in 0 .. MaxDay
  /\ request \in [Requests -> [at : Places, settings : Settings, cadence : Cadences,
                               day : 0 .. MaxDay, echo : Nat, verdict : Verdicts,
                               capture : Captures \cup {NoCapture}]]
  /\ \A r \in Requests : request[r].echo \in 0 .. Len(echoes)

\* A user has one echo at a time, which is the newest: an echo is created only
\* after the one before was judged or retired, though requests die between the
\* two and verdicts come in meanwhile.
OneOpenEcho == \A e \in DOMAIN echoes : echoes[e].status = "open" => e = Len(echoes)

\* The same memory comes back only after its time, and after the longer time if
\* it was called not relevant, even if that verdict came in while the next echo
\* was being chosen.
EchoesKeepTheirDistance ==
  \A e, f \in DOMAIN echoes :
    e < f /\ echoes[e].capture = echoes[f].capture =>
      echoes[f].day - echoes[e].day >
        IF echoes[e].status = "not_relevant" THEN NotRelevantDays ELSE OtherDays

\* What an echo has come to is not changed any more: of a verdict, another one
\* and an expiry that overlap, the first counts.
EchoIsFinal ==
  [][\A e \in DOMAIN echoes : echoes[e].status # "open" => echoes'[e] = echoes[e]]_vars

\* Changes of the settings are made one on top of the other: each is of one
\* switch, and none takes back what another device has saved in the meantime.
PatchKeepsTheRest ==
  [][settings' # settings =>
       /\ settings'.revision = settings.revision + 1
       /\ settings'.enabled = settings.enabled \/ settings'.cadence = settings.cadence]_vars
=============================================================================
