------------------------------ MODULE EchoProofs ------------------------------
(***************************************************************************)
(* Proofs about Echo, for any memories, requests, cadences and cooldowns.  *)
(* Types, the finality of verdicts and the settings hold whatever          *)
(* overlaps; that one echo is open and that echoes keep their distance     *)
(* hold when the devices do not ask for the current echo at once.          *)
(***************************************************************************)
EXTENDS Echo, TLAPS

Request == [at : Places, settings : Settings, cadence : Cadences, day : 0 .. MaxDay, echo : Nat,
            verdict : Verdicts, capture : Captures \cup {NoCapture}]

\* What a request has in hand is there; a patch changes one switch of the
\* settings that it was made of.
InHand(q) ==
  /\ q.echo \in 0 .. Len(echoes)
  /\ q.at = "create" => q.capture \in Captures
  /\ q.at \in {"fetch", "expire", "verdict"} => q.echo \in 1 .. Len(echoes)
  /\ q.at = "save" =>
       /\ q.settings.revision < MaxRevision
       /\ q.settings.revision <= settings.revision
       /\ q.settings.revision = settings.revision =>
            q.settings.enabled = settings.enabled \/ q.settings.cadence = settings.cadence

HandInv == TypeOK /\ \A r \in Requests : InHand(request[r])

-----------------------------------------------------------------------------
(* Types                                                                   *)

LEMMA DefaultsType == Defaults \in Settings /\ Defaults.revision = 0
BY CadencesAssumption, EchoBounds DEF Defaults, Settings

LEMMA IdleType ==
  /\ Idle \in Request
  /\ Idle.at = "idle" /\ Idle.echo = 0 /\ Idle.day = 0
BY DefaultsType, CadencesAssumption, EchoBounds DEF Idle, Request, Places, Verdicts

LEMMA EchoesType ==
  ASSUME HandInv
  PROVE  /\ echoes \in Seq(EchoType)
         /\ DOMAIN echoes = 1 .. Len(echoes) /\ Len(echoes) \in Nat
         /\ \A e \in 1 .. Len(echoes) : echoes[e] \in EchoType
<1>1. echoes \in Seq(EchoType)
  BY DEF HandInv, TypeOK
<1>2. QED
  BY <1>1

LEMMA IdleInHand == ASSUME TypeOK PROVE InHand(Idle)
BY IdleType DEF InHand, TypeOK

\* A step of a request that changes nothing else.
LEMMA RequestStep ==
  ASSUME HandInv, NEW r \in Requests, NEW x \in Request, request' = [request EXCEPT ![r] = x],
         UNCHANGED <<settings, echoes, memory, today>>, InHand(x)
  PROVE  HandInv'
<1>1. \A q \in Requests : request'[q] = IF q = r THEN x ELSE request[q]
  BY DEF HandInv, TypeOK
<1>2. \A q \in Requests : InHand(request'[q])
  BY <1>1 DEF HandInv
<1>3. (\A q \in Requests : InHand(request[q]))'
  BY <1>2 DEF InHand
<1>4. request' \in [Requests -> Request]
  BY DEF HandInv, TypeOK, Request
<1>5. TypeOK'
  BY <1>2, <1>4 DEF HandInv, TypeOK, Request, InHand
<1>6. QED
  BY <1>3, <1>5 DEF HandInv

LEMMA AnswersStep ==
  ASSUME HandInv, NEW r \in Requests, Answers(r), UNCHANGED <<settings, echoes, memory, today>>
  PROVE  HandInv'
BY RequestStep, IdleType, IdleInHand DEF Answers, HandInv

\* A request goes on to a place where it needs nothing new.
LEMMA GoesStep ==
  ASSUME HandInv, NEW r \in Requests, NEW place \in {"expire", "pick"}, Goes(r, place),
         request[r].echo \in 1 .. Len(echoes), UNCHANGED <<settings, echoes, memory, today>>
  PROVE  HandInv'
<1> DEFINE x == [request[r] EXCEPT !.at = place]
<1>1. request[r] \in Request
  BY DEF HandInv, TypeOK, Request
<1>2. x \in Request /\ x.at = place /\ x.echo = request[r].echo
  BY <1>1 DEF Request, Places, Reading
<1>3. InHand(x)
  BY <1>2 DEF InHand, HandInv, TypeOK
<1>4. request' = [request EXCEPT ![r] = x]
  BY DEF Goes
<1> HIDE DEF x
<1>5. QED
  BY <1>2, <1>3, <1>4, RequestStep

LEMMA CurrentEchoStep ==
  ASSUME HandInv, NEW r \in Requests, CurrentEcho(r)
  PROVE  HandInv'
<1> DEFINE x == [Idle EXCEPT !.at = "latest", !.cadence = settings.cadence, !.day = today]
<1>1. x \in Request /\ x.at = "latest" /\ x.echo = 0
  BY IdleType DEF Request, Places, Reading, HandInv, TypeOK, Settings
<1>2. InHand(x)
  BY <1>1 DEF InHand, HandInv, TypeOK
<1>3. request' = [request EXCEPT ![r] = x] /\ UNCHANGED <<settings, echoes, memory, today>>
  BY DEF CurrentEcho
<1> HIDE DEF x
<1>4. QED
  BY <1>1, <1>2, <1>3, RequestStep

LEMMA AfterLatestPlace ==
  ASSUME NEW r \in Requests, AfterLatest(r) # "idle"
  PROVE  /\ AfterLatest(r) \in {"fetch", "expire", "pick"}
         /\ AfterLatest(r) \in {"fetch", "expire"} => Latest > 0
BY DEF AfterLatest

LEMMA ReadLatestStep ==
  ASSUME HandInv, NEW r \in Requests, ReadLatest(r)
  PROVE  HandInv'
<1>1. CASE AfterLatest(r) = "idle"
  BY <1>1, AnswersStep DEF ReadLatest
<1>2. CASE AfterLatest(r) # "idle"
  <2> DEFINE x == [Idle EXCEPT !.at = AfterLatest(r), !.echo = Latest, !.day = request[r].day]
  <2>1. request[r] \in Request /\ Latest \in Nat
    BY DEF HandInv, TypeOK, Request, Latest
  <2>2. x \in Request /\ x.at = AfterLatest(r) /\ x.echo = Latest
    BY <1>2, <2>1, AfterLatestPlace, IdleType DEF Request, Places, Reading
  <2>3. InHand(x)
    BY <1>2, <2>1, <2>2, AfterLatestPlace DEF InHand, Latest
  <2>4. request' = [request EXCEPT ![r] = x] /\ UNCHANGED <<settings, echoes, memory, today>>
    BY <1>2 DEF ReadLatest
  <2> HIDE DEF x
  <2>5. QED
    BY <2>2, <2>3, <2>4, RequestStep
<1>3. QED
  BY <1>1, <1>2

LEMMA FetchMemoryStep ==
  ASSUME HandInv, NEW r \in Requests, FetchMemory(r)
  PROVE  HandInv'
<1>1. request[r].echo \in 1 .. Len(echoes) /\ UNCHANGED <<settings, echoes, memory, today>>
  BY DEF FetchMemory, HandInv, InHand
<1>2. Answers(r) \/ Goes(r, "expire")
  BY DEF FetchMemory
<1>3. QED
  BY <1>1, <1>2, AnswersStep, GoesStep

LEMMA PickCandidateStep ==
  ASSUME HandInv, NEW r \in Requests, NEW c \in Captures, PickCandidate(r, c)
  PROVE  HandInv'
<1> DEFINE x == [Idle EXCEPT !.at = "create", !.capture = c]
<1>1. x \in Request /\ x.at = "create" /\ x.echo = 0 /\ x.capture = c
  BY IdleType DEF Request, Places, Reading
<1>2. InHand(x)
  BY <1>1 DEF InHand, HandInv, TypeOK
<1>3. request' = [request EXCEPT ![r] = x] /\ UNCHANGED <<settings, echoes, memory, today>>
  BY DEF PickCandidate
<1> HIDE DEF x
<1>4. QED
  BY <1>1, <1>2, <1>3, RequestStep

LEMMA FeedbackStep ==
  ASSUME HandInv, NEW r \in Requests, NEW e \in DOMAIN echoes, NEW verdict \in Verdicts,
         Feedback(r, e, verdict)
  PROVE  HandInv'
<1> DEFINE x == [Idle EXCEPT !.at = "verdict", !.echo = e, !.verdict = verdict]
<1>1. e \in 1 .. Len(echoes) /\ e \in Nat
  BY EchoesType
<1>2. "verdict" \in Places
  BY DEF Places
<1>3. x \in Request /\ x.at = "verdict" /\ x.echo = e
  BY <1>1, <1>2, IdleType DEF Request
<1>4. InHand(x)
  BY <1>1, <1>3 DEF InHand
<1>5. request' = [request EXCEPT ![r] = x] /\ UNCHANGED <<settings, echoes, memory, today>>
  BY DEF Feedback
<1> HIDE DEF x
<1>6. QED
  BY <1>3, <1>4, <1>5, RequestStep

LEMMA PatchedSettings ==
  ASSUME TypeOK, NEW patched \in Patches
  PROVE  /\ patched \in Settings /\ patched.revision = settings.revision
         /\ patched.enabled = settings.enabled \/ patched.cadence = settings.cadence
<1>1. settings \in Settings
  BY DEF TypeOK
<1>2. CASE \E b \in BOOLEAN : patched = [settings EXCEPT !.enabled = b]
  BY <1>1, <1>2 DEF Settings
<1>3. CASE \E n \in Cadences : patched = [settings EXCEPT !.cadence = n]
  BY <1>1, <1>3 DEF Settings
<1>4. QED
  BY <1>2, <1>3 DEF Patches

LEMMA UpdateSettingsStep ==
  ASSUME HandInv, NEW r \in Requests, NEW patched \in Patches, UpdateSettings(r, patched)
  PROVE  HandInv'
<1> DEFINE x == [Idle EXCEPT !.at = "save", !.settings = patched]
<1>1. /\ patched \in Settings /\ patched.revision = settings.revision
      /\ patched.enabled = settings.enabled \/ patched.cadence = settings.cadence
  BY PatchedSettings DEF HandInv
<1>2. x \in Request /\ x.at = "save" /\ x.echo = 0 /\ x.settings = patched
  BY <1>1, IdleType DEF Request, Places
<1>3. InHand(x)
  BY <1>1, <1>2 DEF InHand, UpdateSettings, HandInv, TypeOK, Settings
<1>4. request' = [request EXCEPT ![r] = x] /\ UNCHANGED <<settings, echoes, memory, today>>
  BY DEF UpdateSettings
<1> HIDE DEF x
<1>5. QED
  BY <1>2, <1>3, <1>4, RequestStep

\* What a new status does to the echoes.
LEMMA UpdateStatusEffect ==
  ASSUME HandInv, NEW e \in 1 .. Len(echoes), NEW status \in Statuses, UpdateStatus(e, status)
  PROVE  /\ echoes' \in Seq(EchoType) /\ Len(echoes') = Len(echoes)
         /\ \A d \in 1 .. Len(echoes) :
              /\ echoes'[d].capture = echoes[d].capture /\ echoes'[d].day = echoes[d].day
              /\ echoes[d].status # "open" => echoes'[d] = echoes[d]
              /\ d # e => echoes'[d] = echoes[d]
              /\ d = e /\ echoes[d].status = "open" => echoes'[d].status = status
<1>1. /\ echoes \in Seq(EchoType) /\ Len(echoes) \in Nat
      /\ \A d \in 1 .. Len(echoes) : echoes[d] \in EchoType
  BY EchoesType
<1>2. CASE echoes[e].status # "open"
  BY <1>1, <1>2 DEF UpdateStatus
<1>3. CASE echoes[e].status = "open"
  <2> DEFINE x == [echoes[e] EXCEPT !.status = status]
  <2>1. /\ x \in EchoType /\ x.capture = echoes[e].capture /\ x.day = echoes[e].day
        /\ x.status = status
    BY <1>1 DEF EchoType
  <2>2. echoes' = [echoes EXCEPT ![e] = x]
    BY <1>3 DEF UpdateStatus
  <2> HIDE DEF x
  <2>3. echoes' \in Seq(EchoType) /\ Len(echoes') = Len(echoes)
    BY <1>1, <2>1, <2>2
  <2>4. \A d \in 1 .. Len(echoes) : echoes'[d] = IF d = e THEN x ELSE echoes[d]
    BY <1>1, <2>2
  <2>5. QED
    BY <1>3, <2>1, <2>3, <2>4
<1>4. QED
  BY <1>2, <1>3

\* A step of a request after which there are as many echoes as before, or more.
LEMMA EchoesStep ==
  ASSUME HandInv, NEW r \in Requests, NEW x \in Request, request' = [request EXCEPT ![r] = x],
         x.at \in {"idle", "pick"}, x.echo <= Len(echoes),
         echoes' \in Seq(EchoType), Len(echoes') >= Len(echoes),
         UNCHANGED <<settings, memory, today>>
  PROVE  HandInv'
<1>1. \A q \in Requests : request'[q] = IF q = r THEN x ELSE request[q]
  BY DEF HandInv, TypeOK
<1>2. Len(echoes) \in Nat /\ Len(echoes') \in Nat
  BY EchoesType
<1>3. request' \in [Requests -> Request]
  BY DEF HandInv, TypeOK, Request
<1>4. ASSUME NEW q \in Requests PROVE InHand(request[q])'
  <2>1. CASE q = r
    <3>1. request'[q] = x /\ x.echo \in Nat
      BY <1>1, <2>1 DEF Request
    <3>2. QED
      BY <1>2, <3>1 DEF InHand
  <2>2. CASE q # r
    <3>1. request'[q] = request[q] /\ InHand(request[q])
      BY <1>1, <2>2 DEF HandInv
    <3>2. QED
      BY <1>2, <3>1 DEF InHand
  <2>3. QED
    BY <2>1, <2>2
<1>5. \A q \in Requests : request'[q].echo \in 0 .. Len(echoes')
  BY <1>4 DEF InHand
<1>6. TypeOK'
  BY <1>3, <1>5 DEF HandInv, TypeOK, Request
<1>7. QED
  BY <1>4, <1>6 DEF HandInv

LEMMA ExpireStep ==
  ASSUME HandInv, NEW r \in Requests, Expire(r)
  PROVE  HandInv'
<1> DEFINE x == [request[r] EXCEPT !.at = "pick"]
<1>1. request[r] \in Request /\ request[r].echo \in 1 .. Len(echoes)
  BY DEF HandInv, TypeOK, Request, InHand, Expire
<1>2. x \in Request /\ x.at = "pick" /\ x.echo = request[r].echo
  BY <1>1 DEF Request, Places, Reading
<1>3. echoes' \in Seq(EchoType) /\ Len(echoes') = Len(echoes)
  BY <1>1, UpdateStatusEffect DEF Expire, Statuses
<1>4. request' = [request EXCEPT ![r] = x] /\ UNCHANGED <<settings, memory, today>>
  BY DEF Expire, Goes
<1>5. x.echo <= Len(echoes) /\ Len(echoes') >= Len(echoes)
  BY <1>1, <1>2, <1>3, EchoesType
<1> HIDE DEF x
<1>6. QED
  BY <1>2, <1>3, <1>4, <1>5, EchoesStep

LEMMA RecordVerdictStep ==
  ASSUME HandInv, NEW r \in Requests, RecordVerdict(r)
  PROVE  HandInv'
<1>1. request[r].echo \in 1 .. Len(echoes) /\ request[r].verdict \in Verdicts
  BY DEF HandInv, TypeOK, InHand, RecordVerdict
<1>2. echoes' \in Seq(EchoType) /\ Len(echoes') = Len(echoes)
  BY <1>1, UpdateStatusEffect DEF RecordVerdict, Statuses
<1>3. Idle.echo <= Len(echoes) /\ Len(echoes') >= Len(echoes)
  BY <1>1, <1>2, IdleType, EchoesType
<1>4. request' = [request EXCEPT ![r] = Idle] /\ UNCHANGED <<settings, memory, today>>
  BY DEF RecordVerdict, Answers
<1>5. QED
  BY <1>2, <1>3, <1>4, IdleType, EchoesStep

\* What a new echo does to the echoes.
LEMMA CreateEffect ==
  ASSUME HandInv, NEW r \in Requests, Create(r)
  PROVE  /\ echoes' \in Seq(EchoType) /\ Len(echoes') = Len(echoes) + 1
         /\ \A e \in 1 .. Len(echoes) : echoes'[e] = echoes[e]
         /\ echoes'[Len(echoes) + 1].capture = request[r].capture
         /\ echoes'[Len(echoes) + 1].day = today
<1> DEFINE new == [capture |-> request[r].capture, status |-> "open", day |-> today]
<1>1. request[r].capture \in Captures /\ today \in 0 .. MaxDay
  BY DEF HandInv, TypeOK, InHand, Create
<1>2. new \in EchoType /\ new.capture = request[r].capture /\ new.day = today
  BY <1>1 DEF EchoType, Statuses
<1>3. echoes' = Append(echoes, new)
  BY DEF Create
<1> HIDE DEF new
<1>4. QED
  BY <1>2, <1>3, EchoesType

LEMMA CreateStep ==
  ASSUME HandInv, NEW r \in Requests, Create(r)
  PROVE  HandInv'
<1>1. Idle.echo <= Len(echoes) /\ Len(echoes') >= Len(echoes)
  BY CreateEffect, IdleType, EchoesType
<1>2. request' = [request EXCEPT ![r] = Idle] /\ UNCHANGED <<settings, memory, today>>
  BY DEF Create, Answers
<1>3. QED
  BY <1>1, <1>2, IdleType, CreateEffect, EchoesStep

\* What saving a patch does to the settings.
LEMMA SaveSettingsEffect ==
  ASSUME HandInv, NEW r \in Requests, SaveSettings(r), settings' # settings
  PROVE  /\ settings' \in Settings /\ settings'.revision = settings.revision + 1
         /\ settings'.enabled = settings.enabled \/ settings'.cadence = settings.cadence
<1>1. /\ settings \in Settings /\ request[r].settings \in Settings
      /\ request[r].settings.revision < MaxRevision
  BY DEF HandInv, TypeOK, InHand, SaveSettings
<1>2. /\ request[r].settings.revision = settings.revision
      /\ settings' = [request[r].settings EXCEPT !.revision = settings.revision + 1]
  BY DEF SaveSettings
<1>3. \/ request[r].settings.enabled = settings.enabled
      \/ request[r].settings.cadence = settings.cadence
  BY <1>2 DEF HandInv, InHand, SaveSettings
<1>4. QED
  BY <1>1, <1>2, <1>3, EchoBounds DEF Settings

LEMMA SaveSettingsStep ==
  ASSUME HandInv, NEW r \in Requests, SaveSettings(r)
  PROVE  HandInv'
<1>1. CASE settings' = settings
  BY <1>1, AnswersStep DEF SaveSettings
<1>2. CASE settings' # settings
  <2>1. settings' \in Settings /\ settings'.revision = settings.revision + 1
    BY <1>2, SaveSettingsEffect
  <2>2. \A q \in Requests : request'[q] = IF q = r THEN Idle ELSE request[q]
    BY DEF HandInv, TypeOK, SaveSettings, Answers
  <2>3. request' \in [Requests -> Request] /\ UNCHANGED <<echoes, memory, today>>
    BY IdleType DEF HandInv, TypeOK, Request, SaveSettings, Answers
  <2>4. ASSUME NEW q \in Requests PROVE InHand(request[q])'
    <3>1. InHand(request[q]) /\ request[q] \in Request /\ settings \in Settings
      BY DEF HandInv, TypeOK, Request
    <3>2. CASE q = r
      BY <2>2, <2>3, <3>2, IdleType, EchoesType DEF InHand
    <3>3. CASE q # r
      <4>1. request[q].settings \in Settings
        BY <3>1 DEF Request
      <4>2. request[q].at = "save" => request[q].settings.revision < settings'.revision
        BY <2>1, <3>1, <4>1 DEF InHand, Settings
      <4>3. QED
        BY <2>1, <2>2, <2>3, <3>1, <3>3, <4>1, <4>2 DEF InHand, Settings
    <3>4. QED
      BY <3>2, <3>3
  <2>5. TypeOK'
    BY <2>1, <2>3, <2>4 DEF HandInv, TypeOK, Request, InHand
  <2>6. QED
    BY <2>4, <2>5 DEF HandInv
<1>3. QED
  BY <1>1, <1>2

\* The memories and the calendar concern no request.
LEMMA AroundStep ==
  ASSUME HandInv, memory' \in [Captures -> {"active", "archived", "trashed"}],
         today' \in 0 .. MaxDay, UNCHANGED <<settings, echoes, request>>
  PROVE  HandInv'
<1>1. TypeOK'
  BY DEF HandInv, TypeOK
<1>2. QED
  BY <1>1 DEF HandInv, InHand

LEMMA HandInit == Init => HandInv
<1> SUFFICES ASSUME Init PROVE HandInv
  OBVIOUS
<1>1. request \in [Requests -> Request] /\ \A r \in Requests : request[r] = Idle
  BY IdleType DEF Init
<1>2. settings \in Settings /\ echoes \in Seq(EchoType) /\ Len(echoes) = 0
  BY DefaultsType DEF Init
<1>3. memory \in [Captures -> {"active", "archived", "trashed"}] /\ today \in 0 .. MaxDay
  BY EchoBounds DEF Init
<1>4. TypeOK
  BY <1>1, <1>2, <1>3, IdleType DEF TypeOK, Request
<1>5. QED
  BY <1>1, <1>4, IdleInHand DEF HandInv

\* One case for each action.
LEMMA HandNext == HandInv /\ [Next]_vars => HandInv'
<1> SUFFICES ASSUME HandInv, [Next]_vars PROVE HandInv'
  OBVIOUS
<1>1. ASSUME NEW r \in Requests, CurrentEcho(r) PROVE HandInv'
  BY <1>1, CurrentEchoStep
<1>2. ASSUME NEW r \in Requests, ReadLatest(r) PROVE HandInv'
  BY <1>2, ReadLatestStep
<1>3. ASSUME NEW r \in Requests, FetchMemory(r) PROVE HandInv'
  BY <1>3, FetchMemoryStep
<1>4. ASSUME NEW r \in Requests, Expire(r) PROVE HandInv'
  BY <1>4, ExpireStep
<1>5. ASSUME NEW r \in Requests, NoCandidate(r) \/ Abort(r) PROVE HandInv'
  BY <1>5, AnswersStep DEF NoCandidate, Abort
<1>6. ASSUME NEW r \in Requests, Create(r) PROVE HandInv'
  BY <1>6, CreateStep
<1>7. ASSUME NEW r \in Requests, RecordVerdict(r) PROVE HandInv'
  BY <1>7, RecordVerdictStep
<1>8. ASSUME NEW r \in Requests, SaveSettings(r) PROVE HandInv'
  BY <1>8, SaveSettingsStep
<1>9. ASSUME NEW r \in Requests, NEW c \in Captures, PickCandidate(r, c) PROVE HandInv'
  BY <1>9, PickCandidateStep
<1>10. ASSUME NEW r \in Requests, NEW e \in DOMAIN echoes, NEW verdict \in Verdicts,
              Feedback(r, e, verdict)
       PROVE  HandInv'
  BY <1>10, FeedbackStep
<1>11. ASSUME NEW r \in Requests, NEW patched \in Patches, UpdateSettings(r, patched)
       PROVE  HandInv'
  BY <1>11, UpdateSettingsStep
<1>12. ASSUME NEW c \in Captures, NEW status \in {"active", "archived", "trashed"},
              SetLifecycle(c, status)
       PROVE  HandInv'
  BY <1>12, AroundStep DEF SetLifecycle, HandInv, TypeOK
<1>13. CASE NextDay
  BY <1>13, AroundStep, EchoBounds DEF NextDay, HandInv, TypeOK
<1>14. CASE UNCHANGED vars
  BY <1>14, AroundStep DEF vars, HandInv, TypeOK
<1>15. QED
  BY <1>1, <1>2, <1>3, <1>4, <1>5, <1>6, <1>7, <1>8, <1>9, <1>10, <1>11, <1>12, <1>13, <1>14
  DEF Next

\* Every reachable state is well-typed: no request creates an echo of no memory
\* or judges one that is not there.
THEOREM EchoTypes == Spec => []TypeOK
<1>1. HandInv => TypeOK
  BY DEF HandInv
<1>2. QED
  BY HandInit, HandNext, <1>1, PTL DEF Spec

-----------------------------------------------------------------------------
(* What has been decided                                                   *)

\* The steps that change echoes, and those that change settings.
LEMMA WhatChanges ==
  ASSUME [Next]_vars
  PROVE  /\ \/ UNCHANGED echoes
            \/ \E r \in Requests : Expire(r) \/ RecordVerdict(r) \/ Create(r)
         /\ UNCHANGED settings \/ \E r \in Requests : SaveSettings(r)
BY DEF Next, vars, CurrentEcho, ReadLatest, FetchMemory, Expire, NoCandidate, Create, RecordVerdict,
       SaveSettings, Abort, PickCandidate, Feedback, UpdateSettings, SetLifecycle, NextDay

LEMMA SettledStay ==
  ASSUME HandInv, [Next]_vars
  PROVE  \A e \in DOMAIN echoes : echoes[e].status # "open" => echoes'[e] = echoes[e]
<1>1. DOMAIN echoes = 1 .. Len(echoes)
  BY EchoesType
<1>2. ASSUME NEW r \in Requests, Expire(r)
      PROVE  \A e \in 1 .. Len(echoes) : echoes[e].status # "open" => echoes'[e] = echoes[e]
  <2>1. request[r].echo \in 1 .. Len(echoes) /\ UpdateStatus(request[r].echo, "expired")
    BY <1>2 DEF HandInv, InHand, Expire
  <2>2. QED
    BY <2>1, UpdateStatusEffect DEF Statuses
<1>3. ASSUME NEW r \in Requests, RecordVerdict(r)
      PROVE  \A e \in 1 .. Len(echoes) : echoes[e].status # "open" => echoes'[e] = echoes[e]
  <2>1. /\ request[r].echo \in 1 .. Len(echoes) /\ request[r].verdict \in Statuses
        /\ UpdateStatus(request[r].echo, request[r].verdict)
    BY <1>3 DEF HandInv, TypeOK, InHand, RecordVerdict, Statuses
  <2>2. QED
    BY <2>1, UpdateStatusEffect
<1>4. ASSUME NEW r \in Requests, Create(r)
      PROVE  \A e \in 1 .. Len(echoes) : echoes'[e] = echoes[e]
  BY <1>4, CreateEffect
<1>5. QED
  BY <1>1, <1>2, <1>3, <1>4, WhatChanges

\* Of a verdict, another one and an expiry that overlap, the first counts,
\* because UpdateStatus writes only what is open.
THEOREM VerdictsStay == Spec => EchoIsFinal
<1>1. HandInv /\ [Next]_vars
        => [\A e \in DOMAIN echoes : echoes[e].status # "open" => echoes'[e] = echoes[e]]_vars
  BY SettledStay
<1>2. QED
  BY HandInit, HandNext, <1>1, PTL DEF Spec, EchoIsFinal

\* No patch of the settings takes back what another device has saved since the
\* copy was made that it is based on.
THEOREM PatchesAdd == Spec => PatchKeepsTheRest
<1>1. HandInv /\ [Next]_vars
        => [settings' # settings =>
              /\ settings'.revision = settings.revision + 1
              /\ settings'.enabled = settings.enabled \/ settings'.cadence = settings.cadence]_vars
  BY WhatChanges, SaveSettingsEffect
<1>2. QED
  BY HandInit, HandNext, <1>1, PTL DEF Spec, PatchKeepsTheRest

-----------------------------------------------------------------------------
(* One open echo, when one device at a time asks for it                    *)

NoneOpen == \A e \in 1 .. Len(echoes) : echoes[e].status # "open"

\* The request that reads has the latest echo in hand until it is shown or
\* retired; after that none is open.
ReadersInv ==
  /\ \A q, r \in Requests : request[q].at \in Reading /\ request[r].at \in Reading => q = r
  /\ \A r \in Requests : request[r].at \in {"fetch", "expire"} => request[r].echo = Len(echoes)
  /\ \A r \in Requests : request[r].at \in {"pick", "create"} => NoneOpen
  /\ \A e \in 1 .. Len(echoes) : echoes[e].status = "open" => e = Len(echoes)

LEMMA ReadersStep ==
  ASSUME HandInv, ReadersInv, NEW r \in Requests, NEW x \in Request,
         request' = [request EXCEPT ![r] = x], UNCHANGED echoes,
         x.at \in Reading =>
           request[r].at \in Reading \/ \A q \in Requests : request[q].at \notin Reading,
         x.at \in {"fetch", "expire"} => x.echo = Len(echoes),
         x.at \in {"pick", "create"} => NoneOpen
  PROVE  ReadersInv'
<1>1. \A q \in Requests : request'[q] = IF q = r THEN x ELSE request[q]
  BY DEF HandInv, TypeOK
<1>2. NoneOpen' <=> NoneOpen
  BY DEF NoneOpen
<1>3. QED
  BY <1>1, <1>2 DEF ReadersInv

LEMMA ReadersAnswer ==
  ASSUME HandInv, ReadersInv, NEW r \in Requests, Answers(r), UNCHANGED echoes
  PROVE  ReadersInv'
<1>1. Idle.at \notin Reading
  BY IdleType DEF Reading
<1>2. Idle.at \notin {"fetch", "expire", "pick", "create"}
  BY IdleType
<1>3. QED
  BY <1>1, <1>2, IdleType, ReadersStep DEF Answers

LEMMA ReadersReadLatest ==
  ASSUME HandInv, ReadersInv, NEW r \in Requests, ReadLatest(r)
  PROVE  ReadersInv'
<1>1. CASE AfterLatest(r) = "idle"
  BY <1>1, ReadersAnswer DEF ReadLatest
<1>2. CASE AfterLatest(r) # "idle"
  <2> DEFINE x == [Idle EXCEPT !.at = AfterLatest(r), !.echo = Latest, !.day = request[r].day]
  <2>1. request[r] \in Request /\ Latest \in Nat /\ request[r].at \in Reading
    BY DEF HandInv, TypeOK, Request, Latest, ReadLatest, Reading
  <2>2. x \in Request /\ x.at = AfterLatest(r) /\ x.echo = Len(echoes)
    BY <1>2, <2>1, AfterLatestPlace, IdleType DEF Request, Places, Reading, Latest
  <2>3. request' = [request EXCEPT ![r] = x] /\ UNCHANGED echoes
    BY <1>2 DEF ReadLatest
  <2>4. AfterLatest(r) = "pick" => NoneOpen
    <3> SUFFICES ASSUME AfterLatest(r) = "pick", NEW e \in 1 .. Len(echoes), echoes[e].status = "open"
                 PROVE  FALSE
      BY DEF NoneOpen
    <3>1. e = Len(echoes)
      BY DEF ReadersInv
    <3>2. Latest > 0 /\ echoes[Latest].status = "open"
      BY <2>1, <3>1 DEF Latest
    <3>3. QED
      BY <3>2 DEF AfterLatest
  <2>5. AfterLatest(r) # "create"
    BY <1>2, AfterLatestPlace
  <2> HIDE DEF x
  <2>6. QED
    BY <2>1, <2>2, <2>3, <2>4, <2>5, ReadersStep
<1>3. QED
  BY <1>1, <1>2

LEMMA ReadersExpire ==
  ASSUME HandInv, ReadersInv, NEW r \in Requests, Expire(r)
  PROVE  ReadersInv'
<1>1. /\ request[r] \in Request /\ request[r].echo \in 1 .. Len(echoes) /\ request[r].echo = Len(echoes)
      /\ request[r].at \in Reading
  BY DEF HandInv, TypeOK, Request, InHand, Expire, ReadersInv, Reading
<1>2. /\ Len(echoes') = Len(echoes)
      /\ \A d \in 1 .. Len(echoes) :
           /\ echoes[d].status # "open" => echoes'[d] = echoes[d]
           /\ d # request[r].echo => echoes'[d] = echoes[d]
           /\ d = request[r].echo /\ echoes[d].status = "open" => echoes'[d].status = "expired"
  BY <1>1, UpdateStatusEffect DEF Expire, Statuses
<1>3. NoneOpen'
  BY <1>1, <1>2 DEF NoneOpen, ReadersInv
<1>4. \A q \in Requests : q # r => request'[q] = request[q]
  BY DEF Expire, Goes, HandInv, TypeOK
<1>5. request'[r].at = "pick"
  BY <1>1 DEF Expire, Goes, HandInv, TypeOK, Request
<1>6. \A q \in Requests : q # r => request[q].at \notin Reading
  BY <1>1 DEF ReadersInv
<1>7. \A q \in Requests : request'[q].at \in Reading => q = r
  BY <1>4, <1>6
<1>8. \A q \in Requests : request'[q].at \notin {"fetch", "expire"}
  BY <1>5, <1>7 DEF Reading
<1>9. (\A e \in 1 .. Len(echoes) : echoes[e].status = "open" => e = Len(echoes))'
  BY <1>3 DEF NoneOpen
<1>10. QED
  BY <1>3, <1>7, <1>8, <1>9 DEF ReadersInv

LEMMA ReadersRecordVerdict ==
  ASSUME HandInv, ReadersInv, NEW r \in Requests, RecordVerdict(r)
  PROVE  ReadersInv'
<1>1. request[r].echo \in 1 .. Len(echoes) /\ request[r].verdict \in Verdicts
  BY DEF HandInv, TypeOK, InHand, RecordVerdict
<1>2. "open" \notin Verdicts /\ request[r].verdict \in Statuses
  BY <1>1 DEF Verdicts, Statuses
<1>3. /\ Len(echoes') = Len(echoes)
      /\ \A d \in 1 .. Len(echoes) : echoes'[d].status = "open" => echoes[d].status = "open"
  <2>1. UpdateStatus(request[r].echo, request[r].verdict)
    BY DEF RecordVerdict
  <2>2. QED
    BY <1>1, <1>2, <2>1, UpdateStatusEffect
<1>4. NoneOpen => NoneOpen'
  BY <1>3 DEF NoneOpen
<1>5. \A q \in Requests : request'[q] = IF q = r THEN Idle ELSE request[q]
  BY DEF RecordVerdict, Answers, HandInv, TypeOK
<1>6. Idle.at \notin Reading /\ Idle.at \notin {"fetch", "expire", "pick", "create"}
  BY IdleType DEF Reading
<1>7. QED
  BY <1>3, <1>4, <1>5, <1>6 DEF ReadersInv

LEMMA ReadersCreate ==
  ASSUME HandInv, ReadersInv, NEW r \in Requests, Create(r)
  PROVE  ReadersInv'
<1>1. NoneOpen /\ request[r].at \in Reading
  BY DEF ReadersInv, Create, Reading
<1>2. \A q \in Requests : q # r => request[q].at \notin Reading
  BY <1>1 DEF ReadersInv
<1>3. \A q \in Requests : request'[q] = IF q = r THEN Idle ELSE request[q]
  BY DEF Create, Answers, HandInv, TypeOK
<1>4. \A q \in Requests : request'[q].at \notin Reading
  BY <1>2, <1>3, IdleType DEF Reading
<1>5. /\ Len(echoes') = Len(echoes) + 1 /\ Len(echoes) \in Nat
      /\ \A e \in 1 .. Len(echoes) : echoes'[e] = echoes[e]
  BY CreateEffect, EchoesType
<1>6. (\A e \in 1 .. Len(echoes) : echoes[e].status = "open" => e = Len(echoes))'
  <2> SUFFICES ASSUME NEW e \in 1 .. Len(echoes'), echoes'[e].status = "open" PROVE e = Len(echoes')
    OBVIOUS
  <2>1. CASE e \in 1 .. Len(echoes)
    BY <1>1, <1>5, <2>1 DEF NoneOpen
  <2>2. CASE e \notin 1 .. Len(echoes)
    BY <1>5, <2>2
  <2>3. QED
    BY <2>1, <2>2
<1>7. QED
  BY <1>4, <1>6 DEF ReadersInv, Reading

LEMMA ReadersNext == OneReader /\ HandInv /\ ReadersInv /\ [Next]_vars => ReadersInv'
<1> SUFFICES ASSUME OneReader, HandInv, ReadersInv, [Next]_vars PROVE ReadersInv'
  OBVIOUS
<1>1. ASSUME NEW r \in Requests, CurrentEcho(r) PROVE ReadersInv'
  <2> DEFINE x == [Idle EXCEPT !.at = "latest", !.cadence = settings.cadence, !.day = today]
  <2>1. x \in Request /\ x.at = "latest"
    BY IdleType DEF Request, Places, Reading, HandInv, TypeOK, Settings
  <2>2. request' = [request EXCEPT ![r] = x] /\ UNCHANGED echoes
    BY <1>1 DEF CurrentEcho
  <2>3. \A q \in Requests : request[q].at \notin Reading
    BY <1>1 DEF CurrentEcho
  <2> HIDE DEF x
  <2>4. QED
    BY <2>1, <2>2, <2>3, ReadersStep
<1>2. ASSUME NEW r \in Requests, ReadLatest(r) PROVE ReadersInv'
  BY <1>2, ReadersReadLatest
<1>3. ASSUME NEW r \in Requests, FetchMemory(r) PROVE ReadersInv'
  <2>1. CASE Answers(r)
    BY <1>3, <2>1, ReadersAnswer DEF FetchMemory
  <2>2. CASE Goes(r, "expire")
    <3> DEFINE x == [request[r] EXCEPT !.at = "expire"]
    <3>1. /\ request[r] \in Request /\ request[r].at \in Reading
          /\ request[r].echo = Len(echoes) /\ UNCHANGED echoes
      BY <1>3 DEF HandInv, TypeOK, Request, FetchMemory, Reading, ReadersInv
    <3>2. x \in Request /\ x.at = "expire" /\ x.echo = Len(echoes)
      BY <3>1 DEF Request, Places, Reading
    <3>3. request' = [request EXCEPT ![r] = x]
      BY <2>2 DEF Goes
    <3> HIDE DEF x
    <3>4. QED
      BY <3>1, <3>2, <3>3, ReadersStep
  <2>3. QED
    BY <1>3, <2>1, <2>2 DEF FetchMemory
<1>4. ASSUME NEW r \in Requests, Expire(r) PROVE ReadersInv'
  BY <1>4, ReadersExpire
<1>5. ASSUME NEW r \in Requests, NoCandidate(r) \/ SaveSettings(r) \/ Abort(r) PROVE ReadersInv'
  BY <1>5, ReadersAnswer DEF NoCandidate, SaveSettings, Abort
<1>6. ASSUME NEW r \in Requests, Create(r) PROVE ReadersInv'
  BY <1>6, ReadersCreate
<1>7. ASSUME NEW r \in Requests, RecordVerdict(r) PROVE ReadersInv'
  BY <1>7, ReadersRecordVerdict
<1>8. ASSUME NEW r \in Requests, NEW c \in Captures, PickCandidate(r, c) PROVE ReadersInv'
  <2> DEFINE x == [Idle EXCEPT !.at = "create", !.capture = c]
  <2>1. x \in Request /\ x.at = "create"
    BY IdleType DEF Request, Places, Reading
  <2>2. request' = [request EXCEPT ![r] = x] /\ UNCHANGED echoes
    BY <1>8 DEF PickCandidate
  <2>3. NoneOpen /\ request[r].at \in Reading
    BY <1>8 DEF PickCandidate, ReadersInv, Reading
  <2> HIDE DEF x
  <2>4. QED
    BY <2>1, <2>2, <2>3, ReadersStep
<1>9. ASSUME NEW r \in Requests, NEW e \in DOMAIN echoes, NEW verdict \in Verdicts,
             Feedback(r, e, verdict)
      PROVE  ReadersInv'
  <2> DEFINE x == [Idle EXCEPT !.at = "verdict", !.echo = e, !.verdict = verdict]
  <2>1. e \in Nat
    BY EchoesType
  <2>2. "verdict" \in Places /\ "verdict" \notin Reading
    BY DEF Places, Reading
  <2>3. x \in Request /\ x.at = "verdict"
    BY <2>1, <2>2, IdleType DEF Request
  <2>4. request' = [request EXCEPT ![r] = x] /\ UNCHANGED echoes
    BY <1>9 DEF Feedback
  <2> HIDE DEF x
  <2>5. QED
    BY <2>2, <2>3, <2>4, ReadersStep
<1>10. ASSUME NEW r \in Requests, NEW patched \in Patches, UpdateSettings(r, patched)
       PROVE  ReadersInv'
  <2> DEFINE x == [Idle EXCEPT !.at = "save", !.settings = patched]
  <2>1. x \in Request /\ x.at = "save"
    BY PatchedSettings, IdleType DEF Request, Places, HandInv
  <2>2. request' = [request EXCEPT ![r] = x] /\ UNCHANGED echoes
    BY <1>10 DEF UpdateSettings
  <2> HIDE DEF x
  <2>3. QED
    BY <2>1, <2>2, ReadersStep DEF Reading
<1>11. ASSUME UNCHANGED <<echoes, request>> PROVE ReadersInv'
  BY <1>11 DEF ReadersInv, NoneOpen
<1>12. QED
  BY <1>1, <1>2, <1>3, <1>4, <1>5, <1>6, <1>7, <1>8, <1>9, <1>10, <1>11
  DEF Next, SetLifecycle, NextDay, vars

LEMMA ReadersInit == Init => ReadersInv
<1> SUFFICES ASSUME Init PROVE ReadersInv
  OBVIOUS
<1>1. \A r \in Requests : request[r].at = "idle"
  BY IdleType DEF Init
<1>2. 1 .. Len(echoes) = {}
  BY DEF Init
<1>3. QED
  BY <1>1, <1>2 DEF ReadersInv, Reading

\* If one device at a time asks for the current echo, one echo is open at a
\* time, the newest, whatever dies and whichever verdicts come in meanwhile.
THEOREM OneEchoIsOpen == OneReader /\ Spec => []OneOpenEcho
<1>1. HandInv /\ ReadersInv => OneOpenEcho
  BY EchoesType DEF ReadersInv, OneOpenEcho
<1>2. SUFFICES ASSUME OneReader PROVE Spec => []OneOpenEcho
  OBVIOUS
<1>3. HandInv /\ ReadersInv /\ [Next]_vars => ReadersInv'
  BY <1>2, ReadersNext
<1>4. QED
  BY HandInit, HandNext, ReadersInit, <1>1, <1>3, PTL DEF Spec

-----------------------------------------------------------------------------
(* The distance between the echoes of a memory                             *)

Rest(echo) == IF echo.status = "not_relevant" THEN NotRelevantDays ELSE OtherDays

\* The echoes before e of the same memory are far enough from the given day.
Rested(c, day, e) ==
  \A d \in 1 .. e : echoes[d].capture = c => day - echoes[d].day > Rest(echoes[d])

DistanceInv ==
  /\ \A r \in Requests : request[r].day <= today
  /\ \A r \in Requests :
       request[r].at = "create" => Rested(request[r].capture, today, Len(echoes))
  /\ \A f \in 1 .. Len(echoes) : Rested(echoes[f].capture, echoes[f].day, f - 1)

LEMMA RestType == \A echo : Rest(echo) \in Nat
BY CooldownAssumption DEF Rest

\* A step of a request that changes nothing else.
LEMMA DistanceStep ==
  ASSUME HandInv, DistanceInv, NEW r \in Requests, NEW x \in Request,
         request' = [request EXCEPT ![r] = x], UNCHANGED <<echoes, today>>, x.day <= today,
         x.at = "create" => Rested(x.capture, today, Len(echoes))
  PROVE  DistanceInv'
<1>1. \A q \in Requests : request'[q] = IF q = r THEN x ELSE request[q]
  BY DEF HandInv, TypeOK
<1>2. \A c, day, e : Rested(c, day, e)' <=> Rested(c, day, e)
  BY DEF Rested
<1>3. QED
  BY <1>1, <1>2 DEF DistanceInv, Rested

LEMMA DistanceAnswer ==
  ASSUME HandInv, DistanceInv, NEW r \in Requests, Answers(r), UNCHANGED <<echoes, today>>
  PROVE  DistanceInv'
<1>1. Idle.day <= today
  BY IdleType DEF HandInv, TypeOK
<1>2. QED
  BY <1>1, IdleType, DistanceStep DEF Answers

\* Verdicts and expiries change only the latest echo, and find no candidate
\* chosen.
LEMMA DistanceUpdate ==
  ASSUME HandInv, ReadersInv, DistanceInv, NEW r \in Requests, NEW x \in Request,
         request' = [request EXCEPT ![r] = x], x.day <= today, x.at # "create", UNCHANGED today,
         NEW e \in 1 .. Len(echoes), NEW status \in Statuses, UpdateStatus(e, status)
  PROVE  DistanceInv'
<1>1. /\ Len(echoes') = Len(echoes) /\ Len(echoes) \in Nat
      /\ \A d \in 1 .. Len(echoes) :
           /\ echoes'[d].capture = echoes[d].capture /\ echoes'[d].day = echoes[d].day
           /\ echoes[d].status # "open" => echoes'[d] = echoes[d]
  BY UpdateStatusEffect, EchoesType
<1>2. \A q \in Requests : request'[q] = IF q = r THEN x ELSE request[q]
  BY DEF HandInv, TypeOK
<1>3. \A d \in 1 .. Len(echoes) : d < Len(echoes) => echoes'[d] = echoes[d]
  BY <1>1 DEF ReadersInv
<1>4. ASSUME NEW f \in 1 .. Len(echoes)
      PROVE  Rested(echoes[f].capture, echoes[f].day, f - 1)'
  <2>1. Rested(echoes[f].capture, echoes[f].day, f - 1)
    BY DEF DistanceInv
  <2>2. \A d \in 1 .. f - 1 : d \in 1 .. Len(echoes) /\ d < Len(echoes)
    BY <1>1
  <2>3. \A d \in 1 .. f - 1 : echoes'[d] = echoes[d]
    BY <1>3, <2>2
  <2>4. echoes'[f].capture = echoes[f].capture /\ echoes'[f].day = echoes[f].day
    BY <1>1
  <2>5. QED
    BY <2>1, <2>3, <2>4 DEF Rested
<1>5. ASSUME NEW q \in Requests, request'[q].at = "create"
      PROVE  Rested(request[q].capture, today, Len(echoes))'
  <2>1. request'[q] = request[q] /\ NoneOpen /\ Rested(request[q].capture, today, Len(echoes))
    BY <1>2, <1>5 DEF ReadersInv, DistanceInv
  <2>2. \A d \in 1 .. Len(echoes) : echoes'[d] = echoes[d]
    BY <1>1, <2>1 DEF NoneOpen
  <2>3. QED
    BY <1>1, <2>1, <2>2 DEF Rested
<1>6. \A q \in Requests : request'[q].day <= today'
  BY <1>2 DEF DistanceInv
<1>7. QED
  BY <1>1, <1>4, <1>5, <1>6 DEF DistanceInv

LEMMA DistancePick ==
  ASSUME HandInv, DistanceInv, NEW r \in Requests, NEW c \in Captures, PickCandidate(r, c)
  PROVE  DistanceInv'
<1> DEFINE x == [Idle EXCEPT !.at = "create", !.capture = c]
<1>1. x \in Request /\ x.day = 0 /\ x.capture = c
  BY IdleType DEF Request, Places, Reading
<1>2. request' = [request EXCEPT ![r] = x] /\ UNCHANGED <<echoes, today>>
  BY DEF PickCandidate
<1>3. today \in Nat /\ request[r].day \in Nat /\ request[r].day <= today
  BY DEF HandInv, TypeOK, DistanceInv
<1>4. CooledDown(c, request[r].day)
  BY DEF PickCandidate, Eligible
<1>5. ASSUME NEW d \in 1 .. Len(echoes), echoes[d].capture = c
      PROVE  today - echoes[d].day > Rest(echoes[d])
  <2>1. d \in EchoesOf(c) /\ echoes[d].day \in Nat
    BY <1>5, EchoesType DEF EchoesOf, EchoType
  <2>2. echoes[d].day < request[r].day - Rest(echoes[d])
    BY <1>4, <2>1 DEF CooledDown, Rest
  <2>3. QED
    BY <1>3, <2>1, <2>2, RestType
<1>6. Rested(c, today, Len(echoes))
  BY <1>5 DEF Rested
<1>7. x.day <= today /\ Rested(x.capture, today, Len(echoes))
  BY <1>1, <1>3, <1>6
<1> HIDE DEF x
<1>8. QED
  BY <1>1, <1>2, <1>7, DistanceStep

LEMMA DistanceCreate ==
  ASSUME HandInv, ReadersInv, DistanceInv, NEW r \in Requests, Create(r)
  PROVE  DistanceInv'
<1>1. /\ Len(echoes') = Len(echoes) + 1 /\ Len(echoes) \in Nat
      /\ \A e \in 1 .. Len(echoes) : echoes'[e] = echoes[e]
      /\ echoes'[Len(echoes) + 1].capture = request[r].capture
      /\ echoes'[Len(echoes) + 1].day = today
  BY CreateEffect, EchoesType
<1>2. \A q \in Requests : request'[q] = IF q = r THEN Idle ELSE request[q]
  BY DEF Create, Answers, HandInv, TypeOK
<1>3. request[r].at \in Reading /\ UNCHANGED today
  BY DEF Create, Reading
<1>4. \A q \in Requests : request'[q].at # "create"
  <2>1. \A q \in Requests : q # r => request[q].at \notin Reading
    BY <1>3 DEF ReadersInv
  <2>2. QED
    BY <1>2, <2>1, IdleType DEF Reading
<1>5. \A q \in Requests : request'[q].day <= today'
  <2>1. today \in Nat /\ \A q \in Requests : request[q].day <= today
    BY DEF DistanceInv, HandInv, TypeOK
  <2>2. QED
    BY <1>2, <1>3, <2>1, IdleType
<1>6. ASSUME NEW f \in 1 .. Len(echoes')
      PROVE  Rested(echoes[f].capture, echoes[f].day, f - 1)'
  <2>1. \A d \in 1 .. f - 1 : d \in 1 .. Len(echoes)
    BY <1>1
  <2>2. CASE f = Len(echoes) + 1
    <3>1. Rested(request[r].capture, today, Len(echoes))
      BY DEF DistanceInv, Create
    <3>2. f - 1 = Len(echoes)
      BY <1>1, <2>2
    <3>3. \A d \in 1 .. f - 1 :
            echoes'[d].capture = echoes'[f].capture =>
              echoes'[f].day - echoes'[d].day > Rest(echoes'[d])
      BY <1>1, <2>1, <2>2, <3>1, <3>2 DEF Rested
    <3>4. QED
      BY <3>3 DEF Rested
  <2>3. CASE f \in 1 .. Len(echoes)
    <3>1. Rested(echoes[f].capture, echoes[f].day, f - 1)
      BY <2>3 DEF DistanceInv
    <3>2. echoes'[f] = echoes[f] /\ \A d \in 1 .. f - 1 : echoes'[d] = echoes[d]
      BY <1>1, <2>1, <2>3
    <3>3. QED
      BY <3>1, <3>2 DEF Rested
  <2>4. QED
    BY <1>1, <2>2, <2>3
<1>7. QED
  BY <1>4, <1>5, <1>6 DEF DistanceInv

LEMMA DistanceNext == HandInv /\ ReadersInv /\ DistanceInv /\ [Next]_vars => DistanceInv'
<1> SUFFICES ASSUME HandInv, ReadersInv, DistanceInv, [Next]_vars PROVE DistanceInv'
  OBVIOUS
<1>1. ASSUME NEW r \in Requests, CurrentEcho(r) PROVE DistanceInv'
  <2> DEFINE x == [Idle EXCEPT !.at = "latest", !.cadence = settings.cadence, !.day = today]
  <2>1. today \in Nat
    BY DEF HandInv, TypeOK
  <2>2. x \in Request /\ x.at = "latest" /\ x.day = today
    BY IdleType DEF Request, Places, Reading, HandInv, TypeOK, Settings
  <2>3. request' = [request EXCEPT ![r] = x] /\ UNCHANGED <<echoes, today>>
    BY <1>1 DEF CurrentEcho
  <2>4. x.day <= today /\ x.at # "create"
    BY <2>1, <2>2
  <2> HIDE DEF x
  <2>5. QED
    BY <2>2, <2>3, <2>4, DistanceStep
<1>2. ASSUME NEW r \in Requests, ReadLatest(r) PROVE DistanceInv'
  <2>1. CASE AfterLatest(r) = "idle"
    BY <1>2, <2>1, DistanceAnswer DEF ReadLatest
  <2>2. CASE AfterLatest(r) # "idle"
    <3> DEFINE x == [Idle EXCEPT !.at = AfterLatest(r), !.echo = Latest, !.day = request[r].day]
    <3>1. request[r] \in Request /\ Latest \in Nat
      BY DEF HandInv, TypeOK, Request, Latest
    <3>2. x \in Request /\ x.at # "create" /\ x.day = request[r].day
      BY <2>2, <3>1, AfterLatestPlace, IdleType DEF Request, Places, Reading
    <3>3. request' = [request EXCEPT ![r] = x] /\ UNCHANGED <<echoes, today>>
      BY <1>2, <2>2 DEF ReadLatest
    <3>4. x.day <= today
      BY <3>2 DEF DistanceInv
    <3> HIDE DEF x
    <3>5. QED
      BY <3>2, <3>3, <3>4, DistanceStep
  <2>3. QED
    BY <2>1, <2>2
<1>3. ASSUME NEW r \in Requests, FetchMemory(r) PROVE DistanceInv'
  <2>1. CASE Answers(r)
    BY <1>3, <2>1, DistanceAnswer DEF FetchMemory
  <2>2. CASE Goes(r, "expire")
    <3> DEFINE x == [request[r] EXCEPT !.at = "expire"]
    <3>1. request[r] \in Request /\ request[r].day <= today /\ UNCHANGED <<echoes, today>>
      BY <1>3 DEF HandInv, TypeOK, Request, FetchMemory, DistanceInv
    <3>2. x \in Request /\ x.at = "expire" /\ x.day = request[r].day
      BY <3>1 DEF Request, Places, Reading
    <3>3. request' = [request EXCEPT ![r] = x]
      BY <2>2 DEF Goes
    <3> HIDE DEF x
    <3>4. QED
      BY <3>1, <3>2, <3>3, DistanceStep
  <2>3. QED
    BY <1>3, <2>1, <2>2 DEF FetchMemory
<1>4. ASSUME NEW r \in Requests, Expire(r) PROVE DistanceInv'
  <2> DEFINE x == [request[r] EXCEPT !.at = "pick"]
  <2>1. /\ request[r] \in Request /\ request[r].echo \in 1 .. Len(echoes)
        /\ request[r].day <= today
    BY <1>4 DEF HandInv, TypeOK, Request, InHand, Expire, DistanceInv
  <2>2. x \in Request /\ x.at = "pick" /\ x.day = request[r].day
    BY <2>1 DEF Request, Places, Reading
  <2>3. /\ request' = [request EXCEPT ![r] = x] /\ UNCHANGED today
        /\ UpdateStatus(request[r].echo, "expired") /\ "expired" \in Statuses
    BY <1>4 DEF Expire, Goes, Statuses
  <2> HIDE DEF x
  <2>4. QED
    BY <2>1, <2>2, <2>3, DistanceUpdate
<1>5. ASSUME NEW r \in Requests, NoCandidate(r) \/ SaveSettings(r) \/ Abort(r) PROVE DistanceInv'
  BY <1>5, DistanceAnswer DEF NoCandidate, SaveSettings, Abort
<1>6. ASSUME NEW r \in Requests, Create(r) PROVE DistanceInv'
  BY <1>6, DistanceCreate
<1>7. ASSUME NEW r \in Requests, RecordVerdict(r) PROVE DistanceInv'
  <2>1. request[r].echo \in 1 .. Len(echoes) /\ request[r].verdict \in Statuses
    BY <1>7 DEF HandInv, TypeOK, InHand, RecordVerdict, Statuses
  <2>2. /\ request' = [request EXCEPT ![r] = Idle] /\ UNCHANGED today
        /\ UpdateStatus(request[r].echo, request[r].verdict)
    BY <1>7 DEF RecordVerdict, Answers
  <2>3. Idle \in Request /\ Idle.at # "create" /\ Idle.day <= today
    BY IdleType DEF HandInv, TypeOK
  <2>4. QED
    BY <2>1, <2>2, <2>3, DistanceUpdate
<1>8. ASSUME NEW r \in Requests, NEW c \in Captures, PickCandidate(r, c) PROVE DistanceInv'
  BY <1>8, DistancePick
<1>9. ASSUME NEW r \in Requests, NEW e \in DOMAIN echoes, NEW verdict \in Verdicts,
             Feedback(r, e, verdict)
      PROVE  DistanceInv'
  <2> DEFINE x == [Idle EXCEPT !.at = "verdict", !.echo = e, !.verdict = verdict]
  <2>1. e \in Nat /\ "verdict" \in Places
    BY EchoesType DEF Places
  <2>2. x \in Request /\ x.at = "verdict" /\ x.day = 0
    BY <2>1, IdleType DEF Request
  <2>3. request' = [request EXCEPT ![r] = x] /\ UNCHANGED <<echoes, today>> /\ 0 <= today
    BY <1>9 DEF Feedback, HandInv, TypeOK
  <2> HIDE DEF x
  <2>4. QED
    BY <2>2, <2>3, DistanceStep
<1>10. ASSUME NEW r \in Requests, NEW patched \in Patches, UpdateSettings(r, patched)
       PROVE  DistanceInv'
  <2> DEFINE x == [Idle EXCEPT !.at = "save", !.settings = patched]
  <2>1. x \in Request /\ x.at = "save" /\ x.day = 0
    BY PatchedSettings, IdleType DEF Request, Places, HandInv
  <2>2. request' = [request EXCEPT ![r] = x] /\ UNCHANGED <<echoes, today>> /\ 0 <= today
    BY <1>10 DEF UpdateSettings, HandInv, TypeOK
  <2> HIDE DEF x
  <2>3. QED
    BY <2>1, <2>2, DistanceStep
<1>11. CASE NextDay
  <2>1. /\ today' = today + 1 /\ today \in Nat /\ UNCHANGED <<echoes, request>>
        /\ \A r \in Requests : request[r].day \in Nat
    BY <1>11 DEF NextDay, HandInv, TypeOK
  <2>2. ASSUME NEW c, NEW e \in 0 .. Len(echoes), Rested(c, today, e) PROVE Rested(c, today, e)'
    <3>1. \A d \in 1 .. e : echoes[d].day \in Nat /\ Rest(echoes[d]) \in Nat
      BY EchoesType, RestType DEF EchoType
    <3>2. QED
      BY <2>1, <2>2, <3>1 DEF Rested
  <2>3. \A r \in Requests :
          request[r].at = "create" => Rested(request[r].capture, today, Len(echoes))'
    BY <2>1, <2>2, EchoesType DEF DistanceInv
  <2>4. \A f \in 1 .. Len(echoes) : Rested(echoes[f].capture, echoes[f].day, f - 1)'
    BY <2>1 DEF DistanceInv, Rested
  <2>5. QED
    BY <2>1, <2>3, <2>4 DEF DistanceInv, Rested
<1>12. ASSUME UNCHANGED <<echoes, request, today>> PROVE DistanceInv'
  BY <1>12 DEF DistanceInv, Rested
<1>13. QED
  BY <1>1, <1>2, <1>3, <1>4, <1>5, <1>6, <1>7, <1>8, <1>9, <1>10, <1>11, <1>12
  DEF Next, SetLifecycle, vars

LEMMA DistanceInit == Init => DistanceInv
<1> SUFFICES ASSUME Init PROVE DistanceInv
  OBVIOUS
<1>1. 1 .. Len(echoes) = {}
  BY DEF Init
<1>2. QED
  BY <1>1, IdleType DEF Init, DistanceInv, Rested

\* If one device at a time asks for the current echo, no memory comes back
\* before its time, whichever verdict the last showing of it got and however
\* long a request was under way.
THEOREM DistanceIsKept == OneReader /\ Spec => []EchoesKeepTheirDistance
<1>1. ASSUME HandInv, DistanceInv PROVE EchoesKeepTheirDistance
  <2> SUFFICES ASSUME NEW e \in DOMAIN echoes, NEW f \in DOMAIN echoes,
                      e < f, echoes[e].capture = echoes[f].capture
               PROVE  echoes[f].day - echoes[e].day > Rest(echoes[e])
    BY DEF EchoesKeepTheirDistance, Rest
  <2>1. e \in 1 .. f - 1 /\ f \in 1 .. Len(echoes)
    BY <1>1, EchoesType
  <2>2. QED
    BY <1>1, <2>1 DEF DistanceInv, Rested
<1>2. SUFFICES ASSUME OneReader PROVE Spec => []EchoesKeepTheirDistance
  OBVIOUS
<1>3. HandInv /\ ReadersInv /\ [Next]_vars => ReadersInv'
  BY <1>2, ReadersNext
<1>4. HandInv /\ DistanceInv => EchoesKeepTheirDistance
  BY <1>1
<1>5. QED
  BY HandInit, HandNext, ReadersInit, DistanceInit, DistanceNext, <1>3, <1>4, PTL DEF Spec
=============================================================================
