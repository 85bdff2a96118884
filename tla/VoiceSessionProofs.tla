-------------------------- MODULE VoiceSessionProofs --------------------------
(***************************************************************************)
(* Proofs about VoiceSession, for any number of sessions, chunks and texts *)
(* and channels of any capacity: types, whatever the client does, and for  *)
(* an orderly client that the server closes no channel twice (ChannelInv)  *)
(* and that its stop is answered with the last word (ToldInv).             *)
(***************************************************************************)
EXTENDS VoiceSession, SequenceTheorems, TLAPS

\* A session that is about to be put in the place of another.
Fits(x) == x \in Session /\ Len(x.results) <= Results

\* Done channels are numbered in order, and only those that were made are in use.
Numbered ==
  /\ \A s \in DOMAIN sessions : sessions[s].done <= reader.done
  /\ \A d \in closed : d <= reader.done

\* A pump has a done channel of its own, which is open.
OwnChannel ==
  /\ \A s \in DOMAIN sessions : sessions[s].pump => sessions[s].done \notin closed
  /\ \A s, t \in DOMAIN sessions :
       sessions[s].pump /\ sessions[t].pump /\ sessions[s].done = sessions[t].done => s = t

\* Nobody has closed or is going to close the done channel of the reader.
Unused ==
  /\ reader.done \notin closed
  /\ \A s \in DOMAIN sessions : sessions[s].pump => sessions[s].done # reader.done

\* What an orderly client waits for before it starts, and when its start is the
\* only one on its way.
Turns ==
  /\ client.at = "idle" => Unused
  /\ \A i \in 1 .. Len(mail) : mail[i] = "start" =>
       /\ Unused
       /\ client.at # "idle"
       /\ \A k \in 1 .. Len(mail) : mail[k] = "start" => k = i

ChannelInv == Numbered /\ OwnChannel /\ Turns /\ ~ panicked

-----------------------------------------------------------------------------
(* Types                                                                   *)

LEMMA SessionsType ==
  ASSUME TypeOK
  PROVE  /\ DOMAIN sessions = 1 .. Len(sessions) /\ Len(sessions) \in Nat
         /\ \A s \in DOMAIN sessions : Fits(sessions[s])
<1>1. sessions \in Seq(Session)
  BY DEF TypeOK
<1>2. /\ DOMAIN sessions = 1 .. Len(sessions) /\ Len(sessions) \in Nat
      /\ \A s \in DOMAIN sessions : sessions[s] \in Session
  BY <1>1
<1>3. QED
  BY <1>2 DEF TypeOK, Fits

LEMMA NewSessionFits ==
  ASSUME TypeOK
  PROVE  Fits(NewSession) /\ Fits(DeafSession)
<1> DEFINE none == <<>>
<1>1. none \in Seq(ResultType) /\ Len(none) = 0
  OBVIOUS
<1>2. reader.done \in Nat \ {0}
  BY DEF TypeOK
<1>3. NewSession \in Session /\ NewSession.results = none
  BY <1>1, <1>2, CapacityAssumption, VoiceBounds DEF NewSession, Session
<1>4. DeafSession \in Session /\ DeafSession.results = none
  BY <1>3 DEF DeafSession, Session
<1>5. QED
  BY <1>1, <1>3, <1>4, CapacityAssumption DEF Fits

\* A session takes the place of another of its number.
LEMMA SessionChanged ==
  ASSUME TypeOK, NEW s \in DOMAIN sessions, NEW x, Fits(x),
         sessions' = [sessions EXCEPT ![s] = x]
  PROVE  /\ sessions' \in Seq(Session)
         /\ Len(sessions') = Len(sessions) /\ DOMAIN sessions' = DOMAIN sessions
         /\ \A t \in DOMAIN sessions : sessions'[t] = IF t = s THEN x ELSE sessions[t]
         /\ \A t \in DOMAIN sessions' : Len(sessions'[t].results) <= Results
<1>1. sessions \in Seq(Session) /\ x \in Session
  BY DEF TypeOK, Fits
<1>2. /\ sessions' \in Seq(Session)
      /\ Len(sessions') = Len(sessions)
  BY <1>1
<1>3. DOMAIN sessions' = DOMAIN sessions
  OBVIOUS
<1>4. \A t \in DOMAIN sessions : sessions'[t] = IF t = s THEN x ELSE sessions[t]
  OBVIOUS
<1>5. \A t \in DOMAIN sessions' : Len(sessions'[t].results) <= Results
  BY <1>3, <1>4 DEF TypeOK, Fits
<1>6. QED
  BY <1>2, <1>3, <1>4, <1>5

LEMMA SilencedType ==
  ASSUME TypeOK
  PROVE  /\ Silenced \in Seq(Session)
         /\ Len(Silenced) = Len(sessions) /\ DOMAIN Silenced = DOMAIN sessions
         /\ \A s \in DOMAIN sessions :
              /\ Fits(Silenced[s])
              /\ Silenced[s].pump = sessions[s].pump /\ Silenced[s].done = sessions[s].done
<1> DEFINE x(s) == [sessions[s] EXCEPT !.open = FALSE]
<1>1. ASSUME NEW s \in DOMAIN sessions
      PROVE  Fits(x(s)) /\ x(s).pump = sessions[s].pump /\ x(s).done = sessions[s].done
  BY SessionsType DEF Fits, Session
<1>2. \A s \in DOMAIN sessions :
        Silenced[s] = IF s = reader.audio THEN x(s) ELSE sessions[s]
  BY DEF Silenced
<1>3. DOMAIN Silenced = 1 .. Len(sessions) /\ Len(sessions) \in Nat
  BY SessionsType DEF Silenced
<1> HIDE DEF x
<1>4. \A s \in DOMAIN sessions :
        /\ Fits(Silenced[s])
        /\ Silenced[s].pump = sessions[s].pump /\ Silenced[s].done = sessions[s].done
  BY <1>1, <1>2, SessionsType
<1>5. Silenced = [s \in 1 .. Len(sessions) |-> Silenced[s]]
  BY SessionsType DEF Silenced
<1>6. Silenced \in [1 .. Len(sessions) -> Session]
  BY <1>3, <1>4, <1>5, SessionsType DEF Fits
<1>7. Silenced \in Seq(Session) /\ Len(Silenced) = Len(sessions)
  BY <1>3, <1>6
<1>8. QED
  BY <1>3, <1>4, <1>7, SessionsType

\* A session more, after the one before it was silenced.
LEMMA SessionAdded ==
  ASSUME TypeOK, NEW x, Fits(x), sessions' = Append(Silenced, x)
  PROVE  /\ sessions' \in Seq(Session)
         /\ Len(sessions') = Len(sessions) + 1
         /\ DOMAIN sessions' = 1 .. Len(sessions) + 1
         /\ sessions'[Len(sessions) + 1] = x
         /\ \A s \in DOMAIN sessions : sessions'[s] = Silenced[s]
         /\ \A s \in DOMAIN sessions' : Len(sessions'[s].results) <= Results
<1>1. /\ Silenced \in Seq(Session) /\ Len(Silenced) = Len(sessions) /\ Len(sessions) \in Nat
      /\ DOMAIN Silenced = 1 .. Len(sessions) /\ x \in Session
  BY SilencedType, SessionsType DEF Fits
<1> HIDE DEF Silenced
<1>2. /\ sessions' \in Seq(Session)
      /\ Len(sessions') = Len(sessions) + 1
      /\ sessions'[Len(sessions) + 1] = x
      /\ \A s \in 1 .. Len(sessions) : sessions'[s] = Silenced[s]
  BY <1>1
<1>3. DOMAIN sessions' = 1 .. Len(sessions) + 1
  BY <1>1, <1>2
<1>4. \A s \in DOMAIN sessions' : Len(sessions'[s].results) <= Results
  BY <1>1, <1>2, <1>3, SilencedType, SessionsType DEF Fits
<1>5. QED
  BY <1>1, <1>2, <1>3, <1>4, SessionsType

LEMMA MailRead ==
  ASSUME TypeOK, NEW message, Reads(message)
  PROVE  /\ mail' \in Seq({"start", "audio", "stop"})
         /\ Len(mail') = Len(mail) - 1 /\ Len(mail) \in Nat \ {0}
         /\ mail[1] = message
         /\ \A i \in 1 .. Len(mail') : mail'[i] = mail[i + 1]
<1> DEFINE Messages == {"start", "audio", "stop"}
<1>1. mail \in Seq(Messages) /\ mail # <<>> /\ mail' = Tail(mail) /\ message = Head(mail)
  BY DEF TypeOK, Reads
<1> HIDE DEF Messages
<1>2. mail' \in Seq(Messages) /\ Len(mail) \in Nat \ {0}
  BY <1>1
<1>3. Len(mail') = Len(mail) - 1
  BY <1>1
<1>4. mail[1] = message /\ \A i \in 1 .. Len(mail') : mail'[i] = mail[i + 1]
  BY <1>1
<1>5. QED
  BY <1>2, <1>3, <1>4 DEF Messages

-----------------------------------------------------------------------------
(* What the steps of a session do to it                                    *)

LEMMA RecognizerEffect ==
  ASSUME TypeOK, NEW s \in DOMAIN sessions, Recognizes(s) \/ ServerEnds(s)
  PROVE  /\ UNCHANGED <<client, mail, line, reader, closed, panicked, reviewing>>
         /\ \E x : /\ Fits(x) /\ sessions' = [sessions EXCEPT ![s] = x]
                   /\ x.pump = sessions[s].pump /\ x.done = sessions[s].done
<1> DEFINE was == sessions[s]
           Effect(x) == Changes(s, x) /\ Fits(x) /\ x.pump = was.pump /\ x.done = was.done
<1>1. was \in Session /\ Len(was.results) <= Results
  BY SessionsType DEF Fits
<1>2. was.audio \in 0 .. AudioBuffer /\ was.heard \in 0 .. MaxHeard /\ was.ending \in BOOLEAN
  BY <1>1 DEF Session
<1>3. CASE SendChunk(s)
  <2>1. PICK lost \in BOOLEAN :
          Changes(s, [was EXCEPT !.audio = @ - 1, !.sender = ~ lost, !.ending = @ \/ lost])
    BY <1>3 DEF SendChunk
  <2> DEFINE x == [was EXCEPT !.audio = @ - 1, !.sender = ~ lost, !.ending = @ \/ lost]
  <2>2. was.audio > 0
    BY <1>3 DEF SendChunk
  <2>3. was.audio - 1 \in 0 .. AudioBuffer
    BY <1>2, <2>2, CapacityAssumption
  <2>4. x \in Session /\ x.results = was.results /\ x.pump = was.pump /\ x.done = was.done
    BY <1>1, <1>2, <2>3 DEF Session
  <2>5. Effect(x)
    BY <1>1, <2>1, <2>4 DEF Fits
  <2>6. QED
    BY <2>5 DEF Changes
<1>4. CASE EndSpeech(s)
  <2> DEFINE x == [was EXCEPT !.sender = FALSE, !.ending = TRUE]
  <2>1. x \in Session /\ x.results = was.results /\ x.pump = was.pump /\ x.done = was.done
    BY <1>1 DEF Session
  <2>2. Effect(x)
    BY <1>1, <1>4, <2>1 DEF Fits, EndSpeech
  <2>3. QED
    BY <2>2 DEF Changes
<1>5. CASE CancelSender(s)
  <2> DEFINE x == [was EXCEPT !.sender = FALSE]
  <2>1. x \in Session /\ x.results = was.results /\ x.pump = was.pump /\ x.done = was.done
    BY <1>1 DEF Session
  <2>2. Effect(x)
    BY <1>1, <1>5, <2>1 DEF Fits, CancelSender
  <2>3. QED
    BY <2>2 DEF Changes
<1>6. ASSUME NEW final \in BOOLEAN, Receive(s, final)
      PROVE  \E x : Effect(x)
  <2> DEFINE text == [number |-> was.heard + 1, final |-> final]
             x == [was EXCEPT !.heard = @ + 1, !.results = Append(@, text)]
  <2>1. was.heard < MaxHeard /\ Len(was.results) < Results /\ Changes(s, x)
    BY <1>6 DEF Receive
  <2>2. was.heard + 1 \in 1 .. MaxHeard /\ was.heard + 1 \in 0 .. MaxHeard
    BY <1>2, <2>1, VoiceBounds
  <2>3. text \in ResultType
    BY <2>2 DEF ResultType
  <2>4. was.results \in Seq(ResultType)
    BY <1>1 DEF Session
  <2> HIDE DEF text
  <2>5. Append(was.results, text) \in Seq(ResultType)
        /\ Len(Append(was.results, text)) = Len(was.results) + 1
    BY <2>3, <2>4
  <2>6. Len(was.results) + 1 <= Results
    BY <2>1, <2>4, CapacityAssumption
  <2>7. x \in Session /\ x.results = Append(was.results, text)
        /\ x.pump = was.pump /\ x.done = was.done
    BY <1>1, <2>2, <2>5 DEF Session
  <2>8. Effect(x)
    BY <2>1, <2>5, <2>6, <2>7 DEF Fits
  <2>9. QED
    BY <2>8
<1>7. CASE CancelReceiver(s) \/ ServerEnds(s)
  <2> DEFINE x == [was EXCEPT !.receiver = FALSE]
  <2>1. x \in Session /\ x.results = was.results /\ x.pump = was.pump /\ x.done = was.done
    BY <1>1 DEF Session
  <2>2. Effect(x)
    BY <1>1, <1>7, <2>1 DEF Fits, CancelReceiver, ServerEnds
  <2>3. QED
    BY <2>2 DEF Changes
<1>8. QED
  BY <1>3, <1>4, <1>5, <1>6, <1>7 DEF Recognizes, Changes

LEMMA LineOfWrites ==
  ASSUME TypeOK, NEW message, Writes(message) \/ WriteFails \/ WritesAside
  PROVE  line' \in {"up", "hung up", "broken"}
BY DEF TypeOK, Writes, WriteFails, WritesAside

LEMMA PumpEffect ==
  ASSUME TypeOK, NEW s \in DOMAIN sessions, Pumps(s)
  PROVE  /\ UNCHANGED <<client, mail, reader>>
         /\ line' \in {"up", "hung up", "broken"} /\ reviewing' \in Nat
         /\ sessions[s].pump
         /\ \E x : /\ Fits(x) /\ sessions' = [sessions EXCEPT ![s] = x]
                   /\ x.done = sessions[s].done
                   /\ (x.pump /\ UNCHANGED <<closed, panicked>>)
                      \/ (~ x.pump /\ CloseDone(sessions[s].done))
<1> DEFINE was == sessions[s]
           Unsaid == [was EXCEPT !.results = Tail(@)]
           Over == [was EXCEPT !.pump = FALSE]
           Lost == [was EXCEPT !.results = Tail(@), !.pump = FALSE]
<1>1. was \in Session /\ Len(was.results) <= Results /\ was.results \in Seq(ResultType)
  BY SessionsType DEF Fits, Session
<1>2. line \in {"up", "hung up", "broken"} /\ reviewing \in Nat /\ reviewing + 1 \in Nat
  <2>1. line \in {"up", "hung up", "broken"}
    BY DEF TypeOK
  <2>2. reviewing \in Nat
    BY DEF TypeOK
  <2>3. reviewing + 1 \in Nat
    BY <2>2
  <2>4. QED
    BY <2>1, <2>2, <2>3
<1>3. ASSUME was.results # <<>>
      PROVE  Tail(was.results) \in Seq(ResultType) /\ Len(Tail(was.results)) <= Results
  BY <1>1, <1>3, CapacityAssumption
<1>4. ASSUME was.results # <<>>
      PROVE  /\ Unsaid \in Session /\ Unsaid.results = Tail(was.results)
             /\ Unsaid.pump = was.pump /\ Unsaid.done = was.done
  BY <1>1, <1>3, <1>4 DEF Session
<1>5. CASE Pump(s)
  <2>1. /\ was.pump /\ was.results # <<>>
        /\ UNCHANGED <<client, mail, reader, closed, panicked, line>>
        /\ sessions' = [sessions EXCEPT ![s] = Unsaid]
    BY <1>5 DEF Pump, Writes
  <2>2. reviewing' \in Nat
    BY <1>2, <1>5 DEF Pump
  <2>3. Fits(Unsaid) /\ Unsaid.pump = was.pump /\ Unsaid.done = was.done
    BY <1>3, <1>4, <2>1 DEF Fits
  <2> HIDE DEF Unsaid
  <2>4. QED
    BY <1>2, <2>1, <2>2, <2>3
<1>6. CASE PumpFails(s)
  <2>1. /\ was.pump /\ was.results # <<>>
        /\ UNCHANGED <<client, mail, reader, reviewing>> /\ line' = "broken"
        /\ CloseDone(was.done)
    BY <1>6 DEF PumpFails, WriteFails
  <2>2. sessions' = [sessions EXCEPT ![s] = Lost]
    BY <1>6 DEF PumpFails
  <2>3. Lost \in Session /\ Lost.results = Tail(was.results) /\ ~ Lost.pump /\ Lost.done = was.done
    BY <1>1, <1>3, <2>1 DEF Session
  <2>4. Fits(Lost)
    BY <1>3, <2>1, <2>3 DEF Fits
  <2> HIDE DEF Lost
  <2>5. QED
    BY <1>2, <2>1, <2>2, <2>3, <2>4
<1>7. CASE PumpEnds(s)
  <2>1. /\ was.pump
        /\ UNCHANGED <<client, mail, reader, reviewing, line>>
        /\ CloseDone(was.done)
        /\ sessions' = [sessions EXCEPT ![s] = Over]
    BY <1>7 DEF PumpEnds
  <2>2. Over \in Session /\ Over.results = was.results /\ ~ Over.pump /\ Over.done = was.done
    BY <1>1 DEF Session
  <2>3. Fits(Over)
    BY <1>1, <2>2 DEF Fits
  <2> HIDE DEF Over
  <2>4. QED
    BY <1>2, <2>1, <2>2, <2>3
<1>8. QED
  BY <1>5, <1>6, <1>7 DEF Pumps

\* A start puts a session in place, with a pump or without.
LEMMA StartEffect ==
  ASSUME TypeOK, Start \/ StartFails
  PROVE  /\ Reads("start")
         /\ UNCHANGED <<closed, panicked, reviewing>>
         /\ line' \in {"up", "hung up", "broken"}
         /\ reader' = [reader EXCEPT !.audio = Len(sessions) + 1]
         /\ \E x : /\ Fits(x) /\ x.done = reader.done /\ sessions' = Append(Silenced, x)
                   /\ \/ UNCHANGED client
                      \/ ~ x.pump /\ client' = [client EXCEPT !.at = "idle"]
<1>1. Fits(NewSession) /\ NewSession.done = reader.done
  BY NewSessionFits DEF NewSession
<1>2. Fits(DeafSession) /\ DeafSession.done = reader.done /\ ~ DeafSession.pump
  BY NewSessionFits DEF NewSession, DeafSession
<1>3. CASE Start
  BY <1>1, <1>3 DEF Start, TypeOK
<1>4. CASE StartFails
  <2>1. /\ Reads("start") /\ UNCHANGED <<closed, panicked, reviewing>>
        /\ reader' = [reader EXCEPT !.audio = Len(sessions) + 1]
        /\ sessions' = Append(Silenced, DeafSession)
        /\ WritesAside \/ WriteFails
    BY <1>4 DEF StartFails
  <2>2. UNCHANGED client \/ client' = [client EXCEPT !.at = "idle"]
    <3>1. [client EXCEPT !.at = client.at] = client
      BY DEF TypeOK
    <3>2. QED
      BY <1>4, <3>1 DEF StartFails
  <2>3. line' \in {"up", "hung up", "broken"}
    BY <2>1, LineOfWrites
  <2>4. QED
    BY <1>2, <2>1, <2>2, <2>3
<1>5. QED
  BY <1>3, <1>4

-----------------------------------------------------------------------------
(* Type correctness                                                        *)

LEMMA TypesInit == Init => TypeOK
<1> SUFFICES ASSUME Init PROVE TypeOK
  OBVIOUS
<1>1. sessions \in Seq(Session) /\ DOMAIN sessions = {} /\ mail \in Seq({"start", "audio", "stop"})
  BY DEF Init
<1>2. client \in [at : {"idle", "speaking", "stopping"}, chunks : 0 .. MaxChunks]
  BY VoiceBounds DEF Init
<1>3. reader \in [at : {"reading", "waiting", "gone"}, audio : Nat, done : Nat \ {0}]
      /\ reader.audio = NoSession
  BY DEF Init, NoSession
<1>4. closed \subseteq Nat \ {0} /\ panicked \in BOOLEAN /\ reviewing \in Nat
      /\ line \in {"up", "hung up", "broken"}
  BY DEF Init
<1>5. QED
  BY <1>1, <1>2, <1>3, <1>4 DEF TypeOK

LEMMA ClientTypes ==
  ASSUME TypeOK, SendStart \/ SendAudio \/ SendStop \/ HangUp
  PROVE  TypeOK'
<1> DEFINE Messages == {"start", "audio", "stop"}
<1>1. mail \in Seq(Messages) /\ Len(mail) \in Nat
  <2>1. mail \in Seq(Messages)
    BY DEF TypeOK
  <2>2. QED
    BY <2>1
<1>2. ASSUME NEW message \in Messages, Sends(message)
      PROVE  mail' \in Seq(Messages) /\ UNCHANGED <<line, reader, sessions, closed, panicked, reviewing>>
  BY <1>1, <1>2 DEF Sends
<1>3. client.chunks \in 0 .. MaxChunks /\ DOMAIN client = {"at", "chunks"}
  BY DEF TypeOK
<1>4. CASE SendStart \/ SendStop
  <2>1. mail' \in Seq(Messages) /\ UNCHANGED <<line, reader, sessions, closed, panicked, reviewing>>
    BY <1>2, <1>4 DEF SendStart, SendStop
  <2>2. client' \in [at : {"idle", "speaking", "stopping"}, chunks : 0 .. MaxChunks]
    BY <1>4 DEF SendStart, SendStop, TypeOK
  <2>3. QED
    BY <2>1, <2>2 DEF TypeOK
<1>5. CASE SendAudio
  <2>1. mail' \in Seq(Messages) /\ UNCHANGED <<line, reader, sessions, closed, panicked, reviewing>>
    BY <1>2, <1>5 DEF SendAudio
  <2>2. client.chunks + 1 \in 0 .. MaxChunks
    BY <1>3, <1>5, VoiceBounds DEF SendAudio
  <2>3. client' \in [at : {"idle", "speaking", "stopping"}, chunks : 0 .. MaxChunks]
    BY <1>5, <2>2 DEF SendAudio, TypeOK
  <2>4. QED
    BY <2>1, <2>3 DEF TypeOK
<1>6. CASE HangUp
  <2>1. PICK n \in 0 .. Len(mail) : mail' = SubSeq(mail, 1, n)
    BY <1>6 DEF HangUp
  <2>2. mail' \in Seq(Messages)
    BY <1>1, <2>1, SubSeqProperties
  <2>3. QED
    BY <1>6, <2>2 DEF HangUp, TypeOK
<1>7. QED
  BY <1>4, <1>5, <1>6

LEMMA ReaderTypes ==
  ASSUME TypeOK, ReaderStep
  PROVE  TypeOK'
<1>1. Len(sessions) \in Nat /\ reader.done \in Nat \ {0} /\ reader.done + 1 \in Nat \ {0}
  <2>1. Len(sessions) \in Nat /\ reader.done \in Nat \ {0}
    BY SessionsType DEF TypeOK
  <2>2. QED
    BY <2>1
<1>2. ASSUME sessions' = Silenced
      PROVE  /\ sessions' \in Seq(Session) /\ Len(sessions') = Len(sessions)
             /\ \A s \in DOMAIN sessions' : Len(sessions'[s].results) <= Results
  BY <1>2, SilencedType DEF Fits
<1>3. CASE Start \/ StartFails
  <2>1. PICK x : /\ Fits(x) /\ sessions' = Append(Silenced, x)
                 /\ UNCHANGED client \/ client' = [client EXCEPT !.at = "idle"]
    BY <1>3, StartEffect
  <2>2. /\ sessions' \in Seq(Session) /\ Len(sessions') = Len(sessions) + 1
        /\ \A s \in DOMAIN sessions' : Len(sessions'[s].results) <= Results
    BY <2>1, SessionAdded
  <2>3. mail' \in Seq({"start", "audio", "stop"})
    BY <1>3, StartEffect, MailRead
  <2>4. client' \in [at : {"idle", "speaking", "stopping"}, chunks : 0 .. MaxChunks]
    BY <2>1 DEF TypeOK
  <2>5. Len(sessions) + 1 \in Nat
    BY <1>1
  <2>6. /\ reader' \in [at : {"reading", "waiting", "gone"}, audio : Nat, done : Nat \ {0}]
        /\ reader'.audio = Len(sessions) + 1
    BY <1>3, <2>5, StartEffect DEF TypeOK
  <2>7. QED
    BY <1>3, <2>2, <2>3, <2>4, <2>6, StartEffect DEF TypeOK
<1>4. CASE Forward
  <2> DEFINE x(s) == [sessions[s] EXCEPT !.audio = @ + 1]
  <2>1. ASSUME NEW s \in DOMAIN sessions, sessions[s].audio < AudioBuffer
        PROVE  x(s) \in Session /\ x(s).results = sessions[s].results
    <3>1. sessions[s] \in Session /\ sessions[s].audio \in 0 .. AudioBuffer
      BY SessionsType DEF Fits, Session
    <3>2. sessions[s].audio + 1 \in 0 .. AudioBuffer
      BY <2>1, <3>1, CapacityAssumption
    <3>3. QED
      BY <3>1, <3>2 DEF Session
  <2>2. sessions' = [s \in DOMAIN sessions |->
                       IF s = reader.audio /\ sessions[s].audio < AudioBuffer THEN x(s) ELSE sessions[s]]
    BY <1>4 DEF Forward
  <2> HIDE DEF x
  <2>3. sessions' \in [1 .. Len(sessions) -> Session] /\ DOMAIN sessions' = 1 .. Len(sessions)
    BY <2>1, <2>2, SessionsType DEF Fits
  <2>4. sessions' \in Seq(Session) /\ Len(sessions') = Len(sessions)
    BY <1>1, <2>3
  <2>5. \A s \in DOMAIN sessions' : Len(sessions'[s].results) <= Results
    BY <2>1, <2>2, <2>3, SessionsType DEF Fits
  <2>6. mail' \in Seq({"start", "audio", "stop"})
    BY <1>4, MailRead DEF Forward
  <2>7. QED
    BY <1>4, <2>4, <2>5, <2>6 DEF Forward, TypeOK
<1>5. CASE Stop \/ Leave
  <2>1. mail' \in Seq({"start", "audio", "stop"}) /\ sessions' = Silenced
        /\ UNCHANGED <<client, line, closed, panicked, reviewing>>
    BY <1>5, MailRead DEF Stop, Leave, TypeOK
  <2>2. /\ reader' \in [at : {"reading", "waiting", "gone"}, audio : Nat, done : Nat \ {0}]
        /\ reader'.audio = NoSession
    <3>1. reader \in [at : {"reading", "waiting", "gone"}, audio : Nat, done : Nat \ {0}]
      BY DEF TypeOK
    <3>2. NoSession \in Nat
      BY DEF NoSession
    <3>3. \E at \in {"waiting", "gone"} : reader' = [reader EXCEPT !.at = at, !.audio = NoSession]
      BY <1>5 DEF Stop, Leave
    <3>4. QED
      BY <3>1, <3>2, <3>3
  <2>3. reader'.audio \in {NoSession, Len(sessions')}
    BY <2>2
  <2>4. /\ sessions' \in Seq(Session)
        /\ \A s \in DOMAIN sessions' : Len(sessions'[s].results) <= Results
    BY <1>2, <2>1
  <2> HIDE DEF Silenced
  <2>5. QED
    BY <2>1, <2>2, <2>3, <2>4 DEF TypeOK
<1>6. CASE AnswerStop
  <2>1. UNCHANGED <<mail, sessions, closed, panicked, reviewing>>
    BY <1>6 DEF AnswerStop
  <2>2. /\ reader' \in [at : {"reading", "waiting", "gone"}, audio : Nat, done : Nat \ {0}]
        /\ reader'.audio = reader.audio
    BY <1>1, <1>6 DEF AnswerStop, TypeOK
  <2>3. client' \in [at : {"idle", "speaking", "stopping"}, chunks : 0 .. MaxChunks]
    BY <1>6 DEF AnswerStop, TypeOK
  <2>4. line' \in {"up", "hung up", "broken"}
    BY <1>6, LineOfWrites DEF AnswerStop
  <2>5. QED
    BY <2>1, <2>2, <2>3, <2>4 DEF TypeOK
<1>7. QED
  BY <1>3, <1>4, <1>5, <1>6 DEF ReaderStep

LEMMA TypesNext == TypeOK /\ [Next]_vars => TypeOK'
<1> SUFFICES ASSUME TypeOK, [Next]_vars PROVE TypeOK'
  OBVIOUS
<1>1. ASSUME NEW s \in DOMAIN sessions, Recognizes(s) \/ ServerEnds(s) PROVE TypeOK'
  <2>1. /\ UNCHANGED <<client, mail, line, reader, closed, panicked, reviewing>>
        /\ \E x : Fits(x) /\ sessions' = [sessions EXCEPT ![s] = x]
    BY <1>1, RecognizerEffect
  <2>2. /\ sessions' \in Seq(Session) /\ Len(sessions') = Len(sessions)
        /\ \A t \in DOMAIN sessions' : Len(sessions'[t].results) <= Results
    BY <2>1, SessionChanged
  <2>3. QED
    BY <2>1, <2>2 DEF TypeOK
<1>2. ASSUME NEW s \in DOMAIN sessions, Pumps(s) PROVE TypeOK'
  <2>1. /\ UNCHANGED <<client, mail, reader>>
        /\ line' \in {"up", "hung up", "broken"} /\ reviewing' \in Nat
        /\ \E x : Fits(x) /\ sessions' = [sessions EXCEPT ![s] = x]
        /\ UNCHANGED <<closed, panicked>> \/ CloseDone(sessions[s].done)
    BY <1>2, PumpEffect
  <2>2. /\ sessions' \in Seq(Session) /\ Len(sessions') = Len(sessions)
        /\ \A t \in DOMAIN sessions' : Len(sessions'[t].results) <= Results
    BY <2>1, SessionChanged
  <2>3. sessions[s].done \in Nat \ {0}
    BY SessionsType DEF Fits, Session
  <2>4. closed' \subseteq Nat \ {0}
    BY <2>1, <2>3 DEF TypeOK, CloseDone
  <2>5. panicked' \in BOOLEAN
    <3>1. ASSUME CloseDone(sessions[s].done) PROVE panicked' \in BOOLEAN
      <4>1. panicked' = TRUE \/ panicked' = FALSE
        BY <3>1 DEF CloseDone
      <4>2. QED
        BY <4>1
    <3>2. ASSUME UNCHANGED <<closed, panicked>> PROVE panicked' \in BOOLEAN
      BY <3>2 DEF TypeOK
    <3>3. QED
      BY <2>1, <3>1, <3>2
  <2>6. QED
    BY <2>1, <2>2, <2>4, <2>5 DEF TypeOK
<1>3. CASE Review
  <2>1. line' \in {"up", "hung up", "broken"}
    BY <1>3 DEF Review, WritesAside, WriteFails, TypeOK
  <2>2. reviewing \in Nat /\ reviewing > 0 /\ reviewing' = reviewing - 1
    BY <1>3 DEF Review, TypeOK
  <2>3. reviewing' \in Nat
    BY <2>2
  <2>4. QED
    BY <1>3, <2>1, <2>3 DEF Review, TypeOK
<1>4. CASE UNCHANGED vars
  BY <1>4 DEF vars, TypeOK
<1>5. QED
  BY <1>1, <1>2, <1>3, <1>4, ClientTypes, ReaderTypes DEF Next

\* No channel ever holds more than fits in it, and audio goes to the newest
\* session alone, whatever the client sends and in which order.
THEOREM VoiceTypes == Spec => []TypeOK
BY TypesInit, TypesNext, PTL DEF Spec

-----------------------------------------------------------------------------
(* Done channels                                                           *)

\* Sessions change, one of them perhaps for the last time; the reader and the
\* client do not.
LEMMA SessionStep ==
  ASSUME TypeOK, ChannelInv, UNCHANGED <<client, mail, reader>>,
         NEW s \in DOMAIN sessions, NEW x, Fits(x), sessions' = [sessions EXCEPT ![s] = x],
         x.done = sessions[s].done,
         \/ x.pump = sessions[s].pump /\ UNCHANGED <<closed, panicked>>
         \/ ~ x.pump /\ sessions[s].pump /\ CloseDone(sessions[s].done)
  PROVE  ChannelInv'
<1>1. /\ DOMAIN sessions' = DOMAIN sessions
      /\ \A t \in DOMAIN sessions : sessions'[t] = IF t = s THEN x ELSE sessions[t]
  BY SessionChanged
<1>2. \A t \in DOMAIN sessions :
        sessions'[t].done = sessions[t].done /\ (sessions'[t].pump => sessions[t].pump)
  BY <1>1 DEF TypeOK
<1>3. closed' \subseteq closed \cup {sessions[s].done}
  BY DEF CloseDone
<1>4. \A t \in DOMAIN sessions : sessions'[t].pump => sessions[t].done \notin closed'
  <2>1. CASE UNCHANGED closed
    BY <1>2, <2>1 DEF ChannelInv, OwnChannel
  <2>2. CASE ~ x.pump /\ sessions[s].pump
    BY <1>1, <1>2, <1>3, <2>2 DEF ChannelInv, OwnChannel
  <2>3. QED
    BY <2>1, <2>2
<1>5. OwnChannel'
  BY <1>1, <1>2, <1>4 DEF ChannelInv, OwnChannel
<1>6. Numbered'
  BY <1>1, <1>2, <1>3 DEF ChannelInv, Numbered
<1>7. ~ panicked'
  BY DEF ChannelInv, OwnChannel, CloseDone
<1>8. Unused => Unused'
  <2>1. CASE UNCHANGED closed
    BY <1>1, <1>2, <2>1 DEF Unused
  <2>2. CASE sessions[s].pump
    BY <1>1, <1>2, <1>3, <2>2 DEF Unused
  <2>3. QED
    BY <2>1, <2>2
<1>9. Turns'
  BY <1>8 DEF ChannelInv, Turns
<1>10. QED
  BY <1>5, <1>6, <1>7, <1>9 DEF ChannelInv

\* Sessions keep their pumps and their done channels, and the client its turn.
LEMMA QuietStep ==
  ASSUME ChannelInv, UNCHANGED <<closed, panicked>>, reader'.done = reader.done,
         DOMAIN sessions' = DOMAIN sessions,
         \A s \in DOMAIN sessions :
           sessions'[s].pump = sessions[s].pump /\ sessions'[s].done = sessions[s].done,
         Turns => Turns'
  PROVE  ChannelInv'
<1>1. Numbered'
  BY DEF ChannelInv, Numbered
<1>2. OwnChannel'
  BY DEF ChannelInv, OwnChannel
<1>3. QED
  BY <1>1, <1>2 DEF ChannelInv

LEMMA ClientStep ==
  ASSUME Orderly, TypeOK, ChannelInv, SendStart \/ SendAudio \/ SendStop \/ HangUp
  PROVE  ChannelInv'
<1> DEFINE Messages == {"start", "audio", "stop"}
<1>1. mail \in Seq(Messages) /\ Len(mail) \in Nat
  <2>1. mail \in Seq(Messages)
    BY DEF TypeOK
  <2>2. QED
    BY <2>1
<1>2. ASSUME NEW message \in Messages, Sends(message)
      PROVE  /\ UNCHANGED <<reader, sessions, closed, panicked>>
             /\ Len(mail') = Len(mail) + 1 /\ mail'[Len(mail) + 1] = message
             /\ \A i \in 1 .. Len(mail) : mail'[i] = mail[i]
  BY <1>1, <1>2 DEF Sends
<1>3. CASE SendStart
  <2>1. Unused /\ \A i \in 1 .. Len(mail) : mail[i] # "start"
    BY <1>3 DEF SendStart, ChannelInv, Turns
  <2>2. client'.at = "speaking"
    BY <1>3 DEF SendStart, TypeOK
  <2>3. /\ UNCHANGED <<reader, sessions, closed, panicked>>
        /\ Len(mail') = Len(mail) + 1
        /\ \A i \in 1 .. Len(mail) : mail'[i] = mail[i]
    BY <1>2, <1>3 DEF SendStart
  <2>4. Unused'
    BY <2>1, <2>3 DEF Unused
  <2>5. \A i \in 1 .. Len(mail') : mail'[i] = "start" => i = Len(mail')
    BY <1>1, <2>1, <2>3
  <2>6. Turns'
    BY <2>2, <2>4, <2>5 DEF Turns
  <2>7. QED
    BY <2>3, <2>6, QuietStep
<1>4. CASE SendAudio \/ SendStop
  <2>1. /\ UNCHANGED <<reader, sessions, closed, panicked>>
        /\ Len(mail') = Len(mail) + 1 /\ mail'[Len(mail) + 1] # "start"
        /\ \A i \in 1 .. Len(mail) : mail'[i] = mail[i]
    BY <1>2, <1>4 DEF SendAudio, SendStop
  <2>2. client'.at # "idle"
    BY <1>4 DEF SendAudio, SendStop, TypeOK
  <2>3. Unused => Unused'
    BY <2>1 DEF Unused
  <2>4. \A i \in 1 .. Len(mail') : mail'[i] = "start" => i \in 1 .. Len(mail) /\ mail[i] = "start"
    BY <1>1, <2>1
  <2>5. Turns => Turns'
    BY <2>2, <2>3, <2>4 DEF Turns
  <2>6. QED
    BY <2>1, <2>5, QuietStep
<1>5. CASE HangUp
  <2>1. PICK n \in 0 .. Len(mail) : mail' = SubSeq(mail, 1, n)
    BY <1>5 DEF HangUp
  <2>2. UNCHANGED <<client, reader, sessions, closed, panicked>>
    BY <1>5 DEF HangUp
  <2>3. Len(mail') = n /\ \A i \in 1 .. n : mail'[i] = mail[i]
    BY <1>1, <2>1, SubSeqProperties
  <2>4. \A i \in 1 .. Len(mail') : i \in 1 .. Len(mail) /\ mail'[i] = mail[i]
    BY <1>1, <2>3
  <2>5. Unused => Unused'
    BY <2>2 DEF Unused
  <2>6. Turns => Turns'
    BY <2>2, <2>4, <2>5 DEF Turns
  <2>7. QED
    BY <2>2, <2>6, QuietStep
<1>6. QED
  BY <1>3, <1>4, <1>5

\* The reader takes a message; who has the turn stays.
LEMMA TurnsRead ==
  ASSUME TypeOK, Turns, NEW message, Reads(message), UNCHANGED client, Unused => Unused'
  PROVE  Turns'
<1>1. \A i \in 1 .. Len(mail') : i + 1 \in 1 .. Len(mail) /\ mail'[i] = mail[i + 1]
  BY MailRead
<1>2. ASSUME NEW i \in 1 .. Len(mail'), mail'[i] = "start"
      PROVE  /\ Unused' /\ client'.at # "idle"
             /\ \A k \in 1 .. Len(mail') : mail'[k] = "start" => k = i
  <2>1. i + 1 \in 1 .. Len(mail) /\ mail[i + 1] = "start"
    BY <1>1, <1>2
  <2>2. \A k \in 1 .. Len(mail) : mail[k] = "start" => k = i + 1
    BY <2>1 DEF Turns
  <2>3. \A k \in 1 .. Len(mail') : mail'[k] = "start" => k + 1 = i + 1
    BY <1>1, <2>2
  <2>4. QED
    BY <2>1, <2>3 DEF Turns
<1>3. QED
  BY <1>2 DEF Turns

LEMMA ReaderKeepsChannels ==
  ASSUME TypeOK, ChannelInv, ReaderStep
  PROVE  ChannelInv'
<1>1. reader.done \in Nat \ {0}
  BY DEF TypeOK
<1>2. ASSUME sessions' = Silenced
      PROVE  /\ DOMAIN sessions' = DOMAIN sessions
             /\ \A s \in DOMAIN sessions :
                  sessions'[s].pump = sessions[s].pump /\ sessions'[s].done = sessions[s].done
  BY <1>2, SilencedType
<1>3. CASE Start \/ StartFails
  <2>1. /\ Reads("start") /\ UNCHANGED <<closed, panicked>>
        /\ reader' = [reader EXCEPT !.audio = Len(sessions) + 1]
    BY <1>3, StartEffect
  <2>2. PICK x : /\ Fits(x) /\ x.done = reader.done /\ sessions' = Append(Silenced, x)
                 /\ \/ UNCHANGED client
                    \/ ~ x.pump /\ client' = [client EXCEPT !.at = "idle"]
    BY <1>3, StartEffect
  <2>3. /\ DOMAIN sessions' = 1 .. Len(sessions) + 1
        /\ sessions'[Len(sessions) + 1] = x
        /\ \A s \in DOMAIN sessions :
             sessions'[s].pump = sessions[s].pump /\ sessions'[s].done = sessions[s].done
    BY <2>2, SessionAdded, SilencedType
  <2>4. /\ 1 \in 1 .. Len(mail) /\ mail[1] = "start"
        /\ \A i \in 1 .. Len(mail') : i + 1 \in 1 .. Len(mail) /\ mail'[i] = mail[i + 1]
    BY <2>1, MailRead
  <2>5. Unused /\ client.at # "idle" /\ \A i \in 1 .. Len(mail) : mail[i] = "start" => i = 1
    BY <2>4 DEF ChannelInv, Turns
  <2>6. \A i \in 1 .. Len(mail') : mail'[i] # "start"
    BY <2>4, <2>5
  <2>7. reader'.done = reader.done
    BY <2>1 DEF TypeOK
  <2>8. \A s \in DOMAIN sessions' : s \in DOMAIN sessions \/ s = Len(sessions) + 1
    BY <2>3, SessionsType
  <2>9. Numbered'
    BY <1>1, <2>1, <2>2, <2>3, <2>7, <2>8 DEF ChannelInv, Numbered
  <2>10. \A s \in DOMAIN sessions' : sessions'[s].pump => sessions'[s].done \notin closed'
    BY <2>1, <2>2, <2>3, <2>5, <2>8 DEF ChannelInv, OwnChannel, Unused
  <2>11. OwnChannel'
    BY <2>2, <2>3, <2>5, <2>8, <2>10 DEF ChannelInv, OwnChannel, Unused
  <2>12. client'.at = "idle" => ~ x.pump
    BY <2>2, <2>5
  <2>13. ~ x.pump => Unused'
    BY <2>1, <2>3, <2>5, <2>7, <2>8 DEF Unused
  <2>14. Turns'
    BY <2>6, <2>12, <2>13 DEF Turns
  <2>15. QED
    BY <2>1, <2>9, <2>11, <2>14 DEF ChannelInv
<1>4. CASE Forward
  <2>1. /\ Reads("audio") /\ UNCHANGED <<client, reader, closed, panicked>>
        /\ DOMAIN sessions' = DOMAIN sessions
    BY <1>4 DEF Forward
  <2>2. \A s \in DOMAIN sessions :
          sessions'[s] = sessions[s] \/ sessions'[s] = [sessions[s] EXCEPT !.audio = @ + 1]
    BY <1>4 DEF Forward
  <2>3. \A s \in DOMAIN sessions : sessions[s] \in Session
    BY SessionsType DEF Fits
  <2>4. \A s \in DOMAIN sessions :
          sessions'[s].pump = sessions[s].pump /\ sessions'[s].done = sessions[s].done
    BY <2>2, <2>3 DEF Session
  <2>5. Unused => Unused'
    BY <2>1, <2>4 DEF Unused
  <2>6. Turns => Turns'
    BY <2>1, <2>5, TurnsRead
  <2>7. QED
    BY <2>1, <2>4, <2>6, QuietStep
<1>5. CASE Stop \/ Leave
  <2>1. sessions' = Silenced /\ UNCHANGED <<client, closed, panicked>>
    BY <1>5 DEF Stop, Leave
  <2>2. reader'.done = reader.done
    BY <1>5 DEF Stop, Leave, TypeOK
  <2>3. Unused => Unused'
    BY <1>2, <2>1, <2>2 DEF Unused
  <2>4. CASE Stop
    BY <1>2, <2>1, <2>2, <2>3, <2>4, TurnsRead, QuietStep DEF Stop
  <2>5. CASE Leave
    BY <1>2, <2>1, <2>2, <2>3, <2>5, QuietStep DEF Leave, Turns
  <2>6. QED
    BY <1>5, <2>4, <2>5
<1>6. CASE AnswerStop
  <2>1. /\ reader.done \in closed
        /\ UNCHANGED <<mail, sessions, closed, panicked>>
    BY <1>6 DEF AnswerStop
  <2>2. reader'.done = reader.done + 1
    BY <1>6 DEF AnswerStop, TypeOK
  <2>3. \A i \in 1 .. Len(mail) : mail[i] # "start"
    BY <2>1 DEF ChannelInv, Turns, Unused
  <2>4. /\ \A s \in DOMAIN sessions : sessions[s].done \in Nat \ {0} /\ sessions[s].done <= reader.done
        /\ \A d \in closed : d \in Nat \ {0} /\ d <= reader.done
    BY SessionsType DEF ChannelInv, Numbered, TypeOK, Fits, Session
  <2>5. Unused' /\ Numbered'
    BY <1>1, <2>1, <2>2, <2>4 DEF Unused, Numbered
  <2>6. Turns'
    BY <2>1, <2>3, <2>5 DEF Turns
  <2>7. QED
    BY <2>1, <2>5, <2>6 DEF ChannelInv, OwnChannel
<1>7. QED
  BY <1>3, <1>4, <1>5, <1>6 DEF ReaderStep

LEMMA ChannelsNext ==
  ASSUME Orderly
  PROVE  TypeOK /\ ChannelInv /\ [Next]_vars => ChannelInv'
<1> SUFFICES ASSUME TypeOK, ChannelInv, [Next]_vars PROVE ChannelInv'
  OBVIOUS
<1>1. ASSUME NEW s \in DOMAIN sessions, Recognizes(s) \/ ServerEnds(s) PROVE ChannelInv'
  BY <1>1, RecognizerEffect, SessionStep
<1>2. ASSUME NEW s \in DOMAIN sessions, Pumps(s) PROVE ChannelInv'
  <2>1. /\ UNCHANGED <<client, mail, reader>> /\ sessions[s].pump
        /\ \E x : /\ Fits(x) /\ sessions' = [sessions EXCEPT ![s] = x]
                  /\ x.done = sessions[s].done
                  /\ (x.pump /\ UNCHANGED <<closed, panicked>>)
                     \/ (~ x.pump /\ CloseDone(sessions[s].done))
    BY <1>2, PumpEffect
  <2>2. sessions[s].pump = TRUE
    BY <2>1, SessionsType DEF Fits, Session
  <2>3. PICK x : /\ Fits(x) /\ sessions' = [sessions EXCEPT ![s] = x]
                 /\ x.done = sessions[s].done
                 /\ (x.pump /\ UNCHANGED <<closed, panicked>>)
                    \/ (~ x.pump /\ CloseDone(sessions[s].done))
    BY <2>1
  <2>4. x.pump \in BOOLEAN
    BY <2>3 DEF Fits, Session
  <2>5. QED
    BY <2>1, <2>2, <2>3, <2>4, SessionStep
<1>3. CASE Review
  BY <1>3, QuietStep DEF Review, Turns, Unused
<1>4. CASE UNCHANGED vars
  BY <1>4, QuietStep DEF vars, Turns, Unused
<1>5. QED
  BY <1>1, <1>2, <1>3, <1>4, ClientStep, ReaderKeepsChannels DEF Next

LEMMA ChannelsInit == Init => ChannelInv
BY DEF Init, ChannelInv, Numbered, OwnChannel, Turns, Unused

\* A client that starts when nothing runs never makes the server close a done
\* channel twice, whether its sessions start, fail, lose their recognizer or
\* their listener, and however late the reader sees what it sends.
THEOREM OrderlyIsSafe == Orderly /\ Spec => []DoneClosedOnce
<1>1. SUFFICES ASSUME Orderly PROVE Spec => []DoneClosedOnce
  OBVIOUS
<1>2. TypeOK /\ ChannelInv /\ [Next]_vars => ChannelInv'
  BY <1>1, ChannelsNext
<1>3. ChannelInv => DoneClosedOnce
  BY DEF ChannelInv, DoneClosedOnce
<1>4. QED
  BY TypesInit, TypesNext, ChannelsInit, <1>2, <1>3, PTL DEF Spec

-----------------------------------------------------------------------------
(* What the client is told                                                 *)

Message ==
  [type : {"stopped"}, done : Nat \ {0}] \cup [type : {"result"}, session : Nat \ {0}, number : Nat \ {0}]

\* The texts of session s that its pump has taken from the channel.
Said(s) == sessions[s].heard - Len(sessions[s].results)

Finished(x) == ~ x.receiver /\ ~ x.pump /\ x.results = <<>>

\* The client has what the pump of s has taken, and only that; the rest is in
\* the channel, of which the pump leaves nothing.
UpToDate(s) ==
  /\ Said(s) \in Nat
  /\ \A i \in 1 .. Len(sessions[s].results) : sessions[s].results[i].number = Said(s) + i
  /\ \A n \in 1 .. Said(s) : \E k \in DOMAIN told : told[k] = Result(s, n)
  /\ \A k \in DOMAIN told : Tells(told[k], s) => told[k].number <= Said(s)
  /\ ~ sessions[s].pump => Finished(sessions[s])

Written == line # "broken" => \A s \in DOMAIN sessions : UpToDate(s)

Messages ==
  /\ told \in Seq(Message)
  /\ \A k \in DOMAIN told : told[k].type = "result" => told[k].session \in DOMAIN sessions
  /\ \A s \in DOMAIN sessions : InOrder(s)

\* A session that was answered is over, and the next has another done channel.
Ended ==
  \A i \in DOMAIN told : told[i].type = "stopped" =>
    /\ told[i].done < reader.done
    /\ \A s \in DOMAIN sessions : sessions[s].done = told[i].done => Finished(sessions[s])

ToldInv == Messages /\ Ended /\ StoppedIsLast /\ Written

\* Sessions go on: they keep their done channels, forget no text, and those that
\* are over stay as they are; one that is new has the reader's done channel.
GoOn ==
  /\ DOMAIN sessions \subseteq DOMAIN sessions'
  /\ \A s \in DOMAIN sessions :
       /\ sessions'[s].done = sessions[s].done
       /\ sessions'[s].heard \in Nat /\ sessions[s].heard <= sessions'[s].heard
       /\ Finished(sessions[s]) => Finished(sessions'[s]) /\ sessions'[s].heard = sessions[s].heard
  /\ \A s \in DOMAIN sessions' \ DOMAIN sessions : sessions'[s].done = reader.done

\* Nothing is written while sessions go on.
LEMMA UnsaidKeeps ==
  ASSUME TypeOK, Messages, Ended, StoppedIsLast, told' = told, GoOn,
         reader'.done \in Nat, reader.done <= reader'.done
  PROVE  Messages' /\ Ended' /\ StoppedIsLast'
<1>1. \A s \in DOMAIN sessions : sessions[s].heard \in Nat
  BY SessionsType DEF Fits, Session
<1>2. \A k \in DOMAIN told : told[k] \in Message
  BY DEF Messages
<1>3. Messages'
  <2>1. told' \in Seq(Message) /\ \A k \in DOMAIN told' : told'[k].type = "result" => told'[k].session \in DOMAIN sessions'
    BY DEF Messages, GoOn
  <2>2. ASSUME NEW s \in DOMAIN sessions' PROVE InOrder(s)'
    <3>1. CASE s \in DOMAIN sessions
      BY <1>1, <1>2, <3>1 DEF Messages, GoOn, InOrder, Tells
    <3>2. CASE s \notin DOMAIN sessions
      BY <3>2 DEF Messages, InOrder, Tells
    <3>3. QED
      BY <3>1, <3>2
  <2>3. QED
    BY <2>1, <2>2 DEF Messages
<1>4. reader.done \in Nat
  BY DEF TypeOK
<1>5. ASSUME NEW i \in DOMAIN told, told[i].type = "stopped", NEW s \in DOMAIN sessions',
             sessions'[s].done = told[i].done
      PROVE  s \in DOMAIN sessions /\ sessions[s].done = told[i].done
  <2>1. told[i].done < reader.done /\ told[i].done \in Nat
    BY <1>2, <1>5 DEF Ended, Message
  <2>2. QED
    BY <1>4, <1>5, <2>1 DEF GoOn
<1>6. Ended'
  <2>1. ASSUME NEW i \in DOMAIN told, told[i].type = "stopped" PROVE told[i].done < reader'.done
    <3>1. told[i].done < reader.done /\ told[i].done \in Nat
      BY <1>2, <2>1 DEF Ended, Message
    <3>2. QED
      BY <1>4, <3>1
  <2>2. QED
    BY <1>5, <2>1 DEF Ended, GoOn, Finished
<1>7. StoppedIsLast'
  <2>1. ASSUME NEW i \in DOMAIN told, NEW s \in DOMAIN sessions', told[i].type = "stopped",
               sessions'[s].done = told[i].done
        PROVE  /\ \A n \in 1 .. sessions'[s].heard : \E k \in 1 .. (i - 1) : told[k] = Result(s, n)
               /\ \A k \in DOMAIN told : Tells(told[k], s) => k < i
    <3>1. s \in DOMAIN sessions /\ sessions[s].done = told[i].done
      BY <1>5, <2>1
    <3>2. sessions'[s].heard = sessions[s].heard
      BY <2>1, <3>1 DEF Ended, GoOn
    <3>3. QED
      BY <2>1, <3>1, <3>2 DEF StoppedIsLast
  <2>2. \A s \in DOMAIN sessions' : InOrder(s)'
    BY <1>3 DEF Messages
  <2>3. QED
    BY <2>1, <2>2 DEF StoppedIsLast, Result, Tells
<1>8. QED
  BY <1>3, <1>6, <1>7

\* Nothing is heard, written or ended between x and y.
Same(x, y) ==
  /\ y.heard = x.heard /\ y.results = x.results /\ y.pump = x.pump /\ y.done = x.done
  /\ y.receiver => x.receiver

LEMMA SameKeeps ==
  ASSUME TypeOK, ToldInv, told' = told, line' = "broken" \/ line' = line \/ line # "broken",
         DOMAIN sessions' = DOMAIN sessions, \A s \in DOMAIN sessions : Same(sessions[s], sessions'[s]),
         reader'.done = reader.done
  PROVE  ToldInv'
<1>1. \A s \in DOMAIN sessions : sessions[s].heard \in Nat
  BY SessionsType DEF Fits, Session
<1>2. GoOn
  BY <1>1 DEF GoOn, Same, Finished
<1>3. reader.done \in Nat
  BY DEF TypeOK
<1>4. Messages' /\ Ended' /\ StoppedIsLast'
  BY <1>2, <1>3, UnsaidKeeps DEF ToldInv
<1>5. Written'
  <2>1. SUFFICES ASSUME NEW s \in DOMAIN sessions, line' # "broken" PROVE UpToDate(s)'
    BY DEF Written
  <2>2. UpToDate(s)
    BY <2>1 DEF ToldInv, Written
  <2>3. Same(sessions[s], sessions'[s])
    OBVIOUS
  <2>4. QED
    BY <2>2, <2>3 DEF UpToDate, Said, Same, Finished, Tells, Result
<1>6. QED
  BY <1>4, <1>5 DEF ToldInv

\* One session changes, and what its pump has written stays.
LEMMA OneKeeps ==
  ASSUME TypeOK, ToldInv, told' = told, NEW s \in DOMAIN sessions, NEW x, Fits(x),
         sessions' = [sessions EXCEPT ![s] = x], x.done = sessions[s].done,
         sessions[s].heard <= x.heard, ~ Finished(sessions[s]), reader' = reader,
         line' # "broken" => line # "broken",
         line' # "broken" /\ UpToDate(s) => UpToDate(s)'
  PROVE  ToldInv'
<1>1. \A t \in DOMAIN sessions : sessions[t].heard \in Nat
  BY SessionsType DEF Fits, Session
<1>2. /\ DOMAIN sessions' = DOMAIN sessions
      /\ \A t \in DOMAIN sessions : sessions'[t] = IF t = s THEN x ELSE sessions[t]
  BY SessionChanged
<1>3. x.heard \in Nat
  BY DEF Fits, Session
<1>4. GoOn
  BY <1>1, <1>2, <1>3 DEF GoOn
<1>5. reader.done \in Nat
  BY DEF TypeOK
<1>6. Messages' /\ Ended' /\ StoppedIsLast'
  BY <1>4, <1>5, UnsaidKeeps DEF ToldInv
<1>7. Written'
  <2>1. SUFFICES ASSUME NEW t \in DOMAIN sessions, line' # "broken" PROVE UpToDate(t)'
    BY <1>2 DEF Written
  <2>2. UpToDate(t)
    BY <2>1 DEF ToldInv, Written
  <2>3. CASE t = s
    BY <2>1, <2>2, <2>3
  <2>4. CASE t # s
    <3>1. sessions'[t] = sessions[t]
      BY <1>2, <2>4
    <3>2. QED
      BY <2>2, <3>1 DEF UpToDate, Said, Finished, Tells, Result
  <2>5. QED
    BY <2>3, <2>4
<1>8. QED
  BY <1>6, <1>7 DEF ToldInv

LEMMA ReceiveTells ==
  ASSUME TypeOK, ToldInv, NEW s \in DOMAIN sessions, NEW final \in BOOLEAN, Receive(s, final)
  PROVE  ToldInv'
<1> DEFINE was == sessions[s]
           text == [number |-> was.heard + 1, final |-> final]
           x == [was EXCEPT !.heard = @ + 1, !.results = Append(@, text)]
<1>1. /\ was.receiver /\ was.heard < MaxHeard /\ Len(was.results) < Results
      /\ sessions' = [sessions EXCEPT ![s] = x]
      /\ UNCHANGED <<line, reader, told>>
  BY DEF Receive, Changes
<1>2. was \in Session
  BY SessionsType DEF Fits
<1>3. was.heard \in Nat /\ was.results \in Seq(ResultType) /\ Len(was.results) \in Nat
  BY <1>2 DEF Session
<1>4. text \in ResultType
  BY <1>1, <1>3, VoiceBounds DEF ResultType
<1>5. /\ x.heard = was.heard + 1 /\ x.results = Append(was.results, text)
      /\ x.done = was.done /\ x.pump = was.pump /\ x.receiver = was.receiver
  BY <1>2 DEF Session
<1>6. Fits(x)
  <2>1. was.heard + 1 \in 0 .. MaxHeard
    BY <1>1, <1>3, VoiceBounds
  <2>2. Append(was.results, text) \in Seq(ResultType)
    BY <1>3, <1>4
  <2>3. Len(Append(was.results, text)) <= Results
    BY <1>1, <1>3, CapacityAssumption
  <2> HIDE DEF text
  <2>4. x \in Session
    BY <1>2, <2>1, <2>2 DEF Session
  <2>5. QED
    BY <1>5, <2>3, <2>4 DEF Fits
<1>7. DOMAIN sessions' = DOMAIN sessions /\ sessions'[s] = x
  BY <1>1, <1>6, SessionChanged
<1> HIDE DEF x
<1>8. ASSUME UpToDate(s) PROVE UpToDate(s)'
  <2>1. Len(x.results) = Len(was.results) + 1
    BY <1>3, <1>5
  <2>2. Said(s)' = Said(s)
    <3>1. Said(s)' = x.heard - Len(x.results)
      BY <1>7 DEF Said
    <3>2. Said(s) = was.heard - Len(was.results)
      BY DEF Said
    <3>3. x.heard = was.heard + 1 /\ was.heard \in Nat /\ Len(was.results) \in Nat
      BY <1>3, <1>5
    <3>4. QED
      BY <2>1, <3>1, <3>2, <3>3
  <2>3. \A i \in 1 .. Len(x.results) : x.results[i].number = Said(s) + i
    <3>1. TAKE i \in 1 .. Len(x.results)
    <3>2. CASE i = Len(was.results) + 1
      BY <1>3, <1>5, <3>2 DEF Said
    <3>3. CASE i # Len(was.results) + 1
      BY <1>3, <1>5, <1>8, <2>1, <3>3 DEF UpToDate
    <3>4. QED
      BY <3>2, <3>3
  <2>4. was.pump
    BY <1>1, <1>8 DEF UpToDate, Finished
  <2>5. QED
    BY <1>1, <1>5, <1>7, <1>8, <2>2, <2>3, <2>4 DEF UpToDate, Tells, Result
<1>9. UpToDate(s) => UpToDate(s)'
  BY <1>8
<1>10. was.heard <= x.heard /\ ~ Finished(was)
  BY <1>1, <1>3, <1>5 DEF Finished
<1>11. QED
  BY <1>1, <1>5, <1>6, <1>9, <1>10, OneKeeps

LEMMA RecognizerTells ==
  ASSUME TypeOK, ToldInv, NEW s \in DOMAIN sessions, Recognizes(s) \/ ServerEnds(s)
  PROVE  ToldInv'
<1> DEFINE was == sessions[s]
<1>1. was \in Session
  BY SessionsType DEF Fits
<1>2. ASSUME NEW x, Changes(s, x), Same(was, x) PROVE ToldInv'
  <2>1. /\ DOMAIN sessions' = DOMAIN sessions
        /\ \A t \in DOMAIN sessions : sessions'[t] = IF t = s THEN x ELSE sessions[t]
    BY <1>2, SessionsType DEF Changes
  <2>2. \A t \in DOMAIN sessions : Same(sessions[t], sessions'[t])
    BY <1>2, <2>1 DEF Same
  <2>3. QED
    BY <1>2, <2>1, <2>2, SameKeeps DEF Changes
<1>3. ASSUME NEW lost \in BOOLEAN
      PROVE  Same(was, [was EXCEPT !.audio = @ - 1, !.sender = ~ lost, !.ending = @ \/ lost])
  BY <1>1 DEF Same, Session
<1>4. /\ Same(was, [was EXCEPT !.sender = FALSE, !.ending = TRUE])
      /\ Same(was, [was EXCEPT !.sender = FALSE])
      /\ Same(was, [was EXCEPT !.receiver = FALSE])
  BY <1>1 DEF Same, Session
<1>5. CASE SendChunk(s)
  BY <1>2, <1>3, <1>5 DEF SendChunk
<1>6. CASE EndSpeech(s) \/ CancelSender(s) \/ CancelReceiver(s) \/ ServerEnds(s)
  BY <1>2, <1>4, <1>6 DEF EndSpeech, CancelSender, CancelReceiver, ServerEnds
<1>7. QED
  BY <1>5, <1>6, ReceiveTells DEF Recognizes

\* The pump of s writes the next text, after all that it has written before.
LEMMA PumpTells ==
  ASSUME TypeOK, ToldInv, NEW s \in DOMAIN sessions, Pump(s)
  PROVE  ToldInv'
<1> DEFINE was == sessions[s]
           n == Ready(s).number
           x == [was EXCEPT !.results = Tail(@)]
           last == Len(told) + 1
<1>1. /\ was.pump /\ was.results # <<>> /\ line # "broken"
      /\ told' = Append(told, Result(s, n)) /\ sessions' = [sessions EXCEPT ![s] = x]
      /\ UNCHANGED <<line, reader>>
  BY DEF Pump, Writes
<1>2. was \in Session /\ s \in Nat \ {0} /\ \A t \in DOMAIN sessions : sessions[t].heard \in Nat
  BY SessionsType DEF Fits, Session
<1>3. was.heard \in Nat /\ was.results \in Seq(ResultType) /\ Len(was.results) \in Nat \ {0}
  BY <1>1, <1>2, EmptySeq DEF Session
<1>4. /\ x.heard = was.heard /\ x.results = Tail(was.results) /\ x.done = was.done
      /\ x.pump = was.pump /\ x.receiver = was.receiver
  BY <1>2 DEF Session
<1>5. /\ Tail(was.results) \in Seq(ResultType) /\ Len(Tail(was.results)) = Len(was.results) - 1
      /\ \A i \in 1 .. Len(was.results) - 1 : Tail(was.results)[i] = was.results[i + 1]
  BY <1>3
<1>6. Len(x.results) = Len(was.results) - 1
  BY <1>4, <1>5
<1>7. /\ DOMAIN sessions' = DOMAIN sessions
      /\ \A t \in DOMAIN sessions : sessions'[t] = IF t = s THEN x ELSE sessions[t]
  BY <1>1, SessionsType
<1> HIDE DEF x
<1>8. UpToDate(s) /\ \A t \in DOMAIN sessions : UpToDate(t)
  BY <1>1 DEF ToldInv, Written
<1>9. n = Said(s) + 1 /\ Said(s) \in Nat /\ n <= was.heard
  BY <1>3, <1>8 DEF UpToDate, Said, Ready
<1> HIDE DEF n
<1>10. Said(s)' = n
  <2>1. Said(s)' = was.heard - (Len(was.results) - 1)
    BY <1>4, <1>6, <1>7 DEF Said
  <2>2. Said(s) = was.heard - Len(was.results)
    BY DEF Said
  <2>3. QED
    BY <1>3, <1>9, <2>1, <2>2
<1>11. /\ told \in Seq(Message) /\ Len(told) \in Nat /\ DOMAIN told = 1 .. Len(told)
       /\ DOMAIN told' = 1 .. last /\ told'[last] = Result(s, n)
       /\ \A k \in DOMAIN told : told'[k] = told[k] /\ k < last
  BY <1>1 DEF ToldInv, Messages
<1>12. Result(s, n) \in Message
  BY <1>2, <1>9 DEF Result, Message
<1>13. Tells(Result(s, n), s) /\ \A t : t # s => ~ Tells(Result(s, n), t)
  BY DEF Tells, Result
<1>14. Messages'
  <2>1. told' \in Seq(Message)
    BY <1>1, <1>11, <1>12
  <2>2. \A k \in DOMAIN told' : told'[k].type = "result" => told'[k].session \in DOMAIN sessions
    BY <1>11 DEF ToldInv, Messages, Result
  <2>3. \A k \in DOMAIN told : told[k] \in Message
    BY <1>11
  <2>4. ASSUME NEW t \in DOMAIN sessions PROVE InOrder(t)'
    <3>1. InOrder(t)
      BY DEF ToldInv, Messages
    <3>2. sessions'[t].heard = sessions[t].heard
      BY <1>4, <1>7
    <3>3. CASE t # s
      <4>1. \A k \in DOMAIN told' : Tells(told'[k], t) => k \in DOMAIN told /\ told'[k] = told[k]
        BY <1>11, <1>13, <3>3
      <4>2. QED
        BY <3>1, <3>2, <4>1 DEF InOrder
    <3>4. CASE t = s
      <4>1. \A k \in DOMAIN told : Tells(told[k], s) => told[k].number <= Said(s) /\ told[k].number \in Nat
        BY <1>8, <2>3 DEF UpToDate, Tells, Message
      <4>2. \A k \in DOMAIN told' : Tells(told'[k], s) => told'[k].number \in 1 .. was.heard
        BY <1>2, <1>9, <1>11, <3>1, <3>4 DEF InOrder, Result
      <4>3. \A k, l \in DOMAIN told' :
              k < l /\ Tells(told'[k], s) /\ Tells(told'[l], s) => told'[k].number < told'[l].number
        BY <1>9, <1>11, <3>1, <3>4, <4>1 DEF InOrder, Result
      <4>4. QED
        BY <3>2, <3>4, <4>2, <4>3 DEF InOrder
    <3>5. QED
      BY <3>3, <3>4
  <2>5. QED
    BY <1>7, <2>1, <2>2, <2>4 DEF Messages
<1>15. ASSUME NEW i \in DOMAIN told', told'[i].type = "stopped"
       PROVE  i \in DOMAIN told /\ told[i].type = "stopped" /\ told'[i] = told[i]
  BY <1>11, <1>15 DEF Result
<1>16. ~ Finished(was)
  BY <1>1 DEF Finished
<1>17. Ended'
  BY <1>1, <1>4, <1>7, <1>15, <1>16 DEF ToldInv, Ended
<1>18. StoppedIsLast'
  <2>1. ASSUME NEW i \in DOMAIN told', NEW t \in DOMAIN sessions, told'[i].type = "stopped",
               sessions'[t].done = told'[i].done
        PROVE  /\ \A m \in 1 .. sessions[t].heard : \E k \in 1 .. (i - 1) : told'[k] = Result(t, m)
               /\ \A k \in DOMAIN told' : Tells(told'[k], t) => k < i
               /\ sessions'[t].heard = sessions[t].heard
    <3>1. i \in DOMAIN told /\ told[i].type = "stopped" /\ sessions[t].done = told[i].done
      BY <1>4, <1>7, <1>15, <2>1
    <3>2. t # s
      BY <1>16, <3>1 DEF ToldInv, Ended
    <3>3. \A k \in 1 .. (i - 1) : k \in DOMAIN told
      BY <1>11, <3>1
    <3>4. /\ \A m \in 1 .. sessions[t].heard : \E k \in 1 .. (i - 1) : told[k] = Result(t, m)
          /\ \A k \in DOMAIN told : Tells(told[k], t) => k < i
      BY <3>1 DEF ToldInv, StoppedIsLast
    <3>5. QED
      BY <1>7, <1>11, <1>13, <3>2, <3>3, <3>4
  <2>2. QED
    BY <1>7, <1>14, <2>1 DEF StoppedIsLast, Messages, Result, Tells
<1>19. ASSUME NEW t \in DOMAIN sessions PROVE UpToDate(t)'
  <2>1. CASE t # s
    <3>1. sessions'[t] = sessions[t]
      BY <1>7, <2>1
    <3>2. \A k \in DOMAIN told' : Tells(told'[k], t) => k \in DOMAIN told /\ told'[k] = told[k]
      BY <1>11, <1>13, <2>1
    <3>3. \A m \in 1 .. Said(t) : \E k \in DOMAIN told' : told'[k] = Result(t, m)
      BY <1>8, <1>11 DEF UpToDate
    <3>4. QED
      BY <1>8, <3>1, <3>2, <3>3 DEF UpToDate, Said, Tells, Result
  <2>2. CASE t = s
    <3>1. \A i \in 1 .. Len(x.results) : x.results[i].number = n + i
      <4>1. TAKE i \in 1 .. Len(x.results)
      <4>2. i \in 1 .. Len(was.results) - 1 /\ i + 1 \in 1 .. Len(was.results)
        BY <1>3, <1>6
      <4>3. was.results[i + 1].number = Said(s) + (i + 1)
        BY <1>8, <4>2 DEF UpToDate
      <4>4. x.results[i] = was.results[i + 1]
        BY <1>4, <1>5, <4>2
      <4>5. QED
        BY <1>9, <4>3, <4>4
    <3>2. \A m \in 1 .. n : \E k \in DOMAIN told' : told'[k] = Result(s, m)
      <4>1. TAKE m \in 1 .. n
      <4>2. CASE m = n
        BY <1>11, <4>2
      <4>3. CASE m # n
        <5>1. m \in 1 .. Said(s)
          BY <1>9, <4>3
        <5>2. PICK k \in DOMAIN told : told[k] = Result(s, m)
          BY <1>8, <5>1 DEF UpToDate
        <5>3. k \in DOMAIN told' /\ told'[k] = told[k]
          BY <1>11
        <5>4. QED
          BY <5>2, <5>3
      <4>4. QED
        BY <4>2, <4>3
    <3>3. \A k \in DOMAIN told' : Tells(told'[k], s) => told'[k].number <= n
      <4>1. \A k \in DOMAIN told : Tells(told[k], s) => told[k].number <= Said(s) /\ told[k].number \in Nat
        BY <1>8, <1>11 DEF UpToDate, Tells, Message
      <4>2. QED
        BY <1>9, <1>11, <4>1 DEF Result
    <3>4. x.pump
      BY <1>1, <1>4
    <3>5. n \in Nat /\ sessions'[s] = x
      BY <1>7, <1>9
    <3>6. QED
      BY <1>10, <2>2, <3>1, <3>2, <3>3, <3>4, <3>5 DEF UpToDate, Tells, Result
  <2>3. QED
    BY <2>1, <2>2
<1>20. Written'
  BY <1>7, <1>19 DEF Written
<1>21. QED
  BY <1>14, <1>17, <1>18, <1>20 DEF ToldInv

LEMMA PumpOverTells ==
  ASSUME TypeOK, ToldInv, NEW s \in DOMAIN sessions, PumpFails(s) \/ PumpEnds(s)
  PROVE  ToldInv'
<1> DEFINE was == sessions[s]
<1>1. was \in Session /\ was.pump
  BY SessionsType DEF Fits, PumpFails, PumpEnds
<1>2. ~ Finished(was) /\ was.heard \in Nat
  BY <1>1 DEF Finished, Session
<1>3. CASE PumpFails(s)
  <2> DEFINE x == [was EXCEPT !.results = Tail(@), !.pump = FALSE]
  <2>1. /\ was.results # <<>> /\ sessions' = [sessions EXCEPT ![s] = x]
        /\ line' = "broken" /\ told' = told /\ reader' = reader
    BY <1>3 DEF PumpFails, WriteFails
  <2>2. was.results \in Seq(ResultType) /\ was.results # <<>> /\ Len(was.results) <= Results
    BY <1>1, <2>1, SessionsType DEF Fits, Session
  <2>3. Tail(was.results) \in Seq(ResultType) /\ Len(Tail(was.results)) <= Results
    BY <2>2, CapacityAssumption
  <2>4. Fits(x) /\ x.done = was.done /\ x.heard = was.heard
    BY <1>1, <2>3 DEF Fits, Session
  <2> HIDE DEF x
  <2>5. was.heard <= x.heard
    BY <1>2, <2>4
  <2>6. QED
    BY <1>2, <2>1, <2>4, <2>5, OneKeeps
<1>4. CASE PumpEnds(s)
  <2> DEFINE x == [was EXCEPT !.pump = FALSE]
  <2>1. /\ was.results = <<>> /\ ~ was.receiver
        /\ line' = line /\ told' = told /\ reader' = reader
    BY <1>4 DEF PumpEnds
  <2>2. sessions' = [sessions EXCEPT ![s] = x]
    BY <1>1, <1>4 DEF PumpEnds, TypeOK
  <2>3. /\ Fits(x) /\ x.done = was.done /\ x.heard = was.heard /\ x.results = <<>>
        /\ ~ x.receiver /\ ~ x.pump
    BY <1>1, <2>1, SessionsType DEF Fits, Session
  <2> HIDE DEF x
  <2>4. sessions'[s] = x
    BY <2>2, <2>3, SessionChanged
  <2>5. UpToDate(s) => UpToDate(s)'
    BY <2>1, <2>3, <2>4 DEF UpToDate, Said, Finished, Tells, Result
  <2>6. was.heard <= x.heard
    BY <1>2, <2>3
  <2>7. QED
    BY <1>2, <2>1, <2>2, <2>3, <2>5, <2>6, OneKeeps
<1>5. QED
  BY <1>3, <1>4

LEMMA SilencedSame == TypeOK => \A s \in DOMAIN sessions : Same(sessions[s], Silenced[s])
<1> SUFFICES ASSUME TypeOK, NEW s \in DOMAIN sessions PROVE Same(sessions[s], Silenced[s])
  OBVIOUS
<1>1. sessions[s] \in Session
  BY SessionsType DEF Fits
<1>2. Silenced[s] = sessions[s] \/ Silenced[s] = [sessions[s] EXCEPT !.open = FALSE]
  BY DEF Silenced
<1>3. QED
  BY <1>1, <1>2 DEF Same, Session

LEMMA StartTells ==
  ASSUME TypeOK, ToldInv, Start \/ StartFails
  PROVE  ToldInv'
<1> DEFINE new == Len(sessions) + 1
<1>1. PICK x : x \in {NewSession, DeafSession} /\ sessions' = Append(Silenced, x)
  BY DEF Start, StartFails
<1>2. told' = told /\ reader'.done = reader.done /\ (line' = line \/ line' = "broken")
  BY DEF Start, StartFails, WritesAside, WriteFails, TypeOK
<1>3. Fits(x)
  BY <1>1, NewSessionFits
<1>4. /\ x.heard = 0 /\ x.results = <<>> /\ x.done = reader.done
      /\ ~ x.pump => ~ x.receiver
  <2>1. CASE x = NewSession
    BY <2>1 DEF NewSession
  <2>2. CASE x = DeafSession
    BY <2>2 DEF NewSession, DeafSession
  <2>3. QED
    BY <1>1, <2>1, <2>2
<1>5. /\ DOMAIN sessions = 1 .. Len(sessions) /\ Len(sessions) \in Nat
      /\ DOMAIN sessions' = 1 .. new /\ sessions'[new] = x
      /\ \A s \in DOMAIN sessions : sessions'[s] = Silenced[s]
  BY <1>1, <1>3, SessionAdded, SessionsType, SilencedType
<1>6. \A s \in DOMAIN sessions : Same(sessions[s], sessions'[s]) /\ sessions[s].heard \in Nat
  BY <1>5, SilencedSame, SessionsType DEF Fits, Session
<1>7. \A s \in DOMAIN sessions' \ DOMAIN sessions : s = new
  BY <1>5
<1>8. GoOn
  BY <1>4, <1>5, <1>6, <1>7 DEF GoOn, Same, Finished
<1>9. reader.done \in Nat
  BY DEF TypeOK
<1>10. Messages' /\ Ended' /\ StoppedIsLast'
  BY <1>2, <1>8, <1>9, UnsaidKeeps DEF ToldInv
<1>11. ASSUME NEW s \in DOMAIN sessions', line' # "broken" PROVE UpToDate(s)'
  <2>1. CASE s \in DOMAIN sessions
    <3>1. UpToDate(s) /\ Same(sessions[s], sessions'[s])
      BY <1>2, <1>6, <1>11, <2>1 DEF ToldInv, Written
    <3>2. QED
      BY <1>2, <3>1 DEF UpToDate, Said, Same, Finished, Tells, Result
  <2>2. CASE s \notin DOMAIN sessions
    <3>1. sessions'[s] = x /\ s = new
      BY <1>5, <1>7, <2>2
    <3>2. \A k \in DOMAIN told : ~ Tells(told[k], s)
      BY <2>2 DEF ToldInv, Messages, Tells
    <3>3. Len(x.results) = 0 /\ Said(s)' = 0
      BY <1>4, <3>1 DEF Said
    <3>4. Finished(x) \/ x.pump
      BY <1>4 DEF Finished
    <3>5. QED
      BY <1>2, <3>1, <3>2, <3>3, <3>4 DEF UpToDate, Tells
  <2>3. QED
    BY <2>1, <2>2
<1>12. QED
  BY <1>10, <1>11 DEF ToldInv, Written

LEMMA QuietReaderTells ==
  ASSUME TypeOK, ToldInv, Forward \/ Stop \/ Leave
  PROVE  ToldInv'
<1>1. told' = told /\ line' = line /\ reader'.done = reader.done
  BY DEF Forward, Stop, Leave, TypeOK
<1>2. /\ DOMAIN sessions' = DOMAIN sessions
      /\ \A s \in DOMAIN sessions : Same(sessions[s], sessions'[s])
  <2>1. CASE Forward
    <3>1. DOMAIN sessions' = DOMAIN sessions
      BY <2>1 DEF Forward
    <3>2. ASSUME NEW s \in DOMAIN sessions PROVE Same(sessions[s], sessions'[s])
      <4>1. sessions[s] \in Session
        BY SessionsType DEF Fits
      <4>2. sessions'[s] = sessions[s] \/ sessions'[s] = [sessions[s] EXCEPT !.audio = @ + 1]
        BY <2>1 DEF Forward
      <4>3. QED
        BY <4>1, <4>2 DEF Same, Session
    <3>3. QED
      BY <3>1, <3>2
  <2>2. CASE Stop \/ Leave
    BY <2>2, SilencedSame, SilencedType DEF Stop, Leave
  <2>3. QED
    BY <2>1, <2>2
<1>3. QED
  BY <1>1, <1>2, SameKeeps

\* A stop is answered after the pump has closed the done channel, and an orderly
\* client has no other pump on it.
LEMMA AnswerTells ==
  ASSUME TypeOK, ChannelInv, ToldInv, AnswerStop
  PROVE  ToldInv'
<1> DEFINE d == reader.done
           last == Len(told) + 1
<1>1. d \in closed /\ d \in Nat \ {0} /\ sessions' = sessions /\ reader'.done = d + 1
  BY DEF AnswerStop, TypeOK
<1>2. /\ \A s \in DOMAIN sessions : Same(sessions[s], sessions[s])
      /\ \A s \in DOMAIN sessions : sessions[s].heard \in Nat /\ sessions[s].done <= d
  BY SessionsType DEF Same, Fits, Session, ChannelInv, Numbered
<1>3. GoOn
  BY <1>1, <1>2 DEF GoOn
<1>4. CASE WriteFails
  <2>1. told' = told /\ line' = "broken"
    BY <1>4 DEF WriteFails
  <2>2. Messages' /\ Ended' /\ StoppedIsLast'
    BY <1>1, <1>3, <2>1, UnsaidKeeps DEF ToldInv
  <2>3. QED
    BY <2>1, <2>2 DEF ToldInv, Written
<1>5. CASE Writes(Stopped(d))
  <2>1. told' = Append(told, Stopped(d)) /\ line # "broken"
    BY <1>5 DEF Writes
  <2>2. /\ told \in Seq(Message) /\ Len(told) \in Nat /\ DOMAIN told = 1 .. Len(told)
        /\ DOMAIN told' = 1 .. last /\ told'[last] = Stopped(d)
        /\ \A k \in DOMAIN told : told'[k] = told[k] /\ k < last
    BY <2>1 DEF ToldInv, Messages
  <2>3. Stopped(d) \in Message /\ Stopped(d).type = "stopped" /\ Stopped(d).done = d
    BY <1>1 DEF Stopped, Message
  <2>4. \A s : ~ Tells(Stopped(d), s)
    BY <2>3 DEF Tells
  <2>5. \A s : \A k \in DOMAIN told' : Tells(told'[k], s) => k \in DOMAIN told /\ told'[k] = told[k]
    BY <2>2, <2>4
  <2>6. \A s \in DOMAIN sessions : InOrder(s)'
    BY <1>1, <2>2, <2>5 DEF ToldInv, Messages, InOrder
  <2>7. Messages'
    <3>1. told' \in Seq(Message)
      BY <2>1, <2>2, <2>3
    <3>2. \A k \in DOMAIN told' : told'[k].type = "result" => told'[k].session \in DOMAIN sessions
      BY <2>2, <2>3 DEF ToldInv, Messages
    <3>3. QED
      BY <1>1, <2>6, <3>1, <3>2 DEF Messages
  <2>8. \A s \in DOMAIN sessions : UpToDate(s)
    BY <2>1 DEF ToldInv, Written
  <2>9. ASSUME NEW s \in DOMAIN sessions, sessions[s].done = d
        PROVE  Finished(sessions[s]) /\ Said(s) = sessions[s].heard
    <3>1. ~ sessions[s].pump
      BY <1>1, <2>9 DEF ChannelInv, OwnChannel
    <3>2. Finished(sessions[s])
      BY <2>8, <3>1 DEF UpToDate
    <3>3. sessions[s].results = <<>> /\ Len(sessions[s].results) = 0
      BY <3>2 DEF Finished
    <3>4. QED
      BY <1>2, <3>2, <3>3 DEF Said
  <2>10. ASSUME NEW i \in DOMAIN told, told[i].type = "stopped" PROVE told[i].done < d /\ told[i].done \in Nat
    <3>1. told[i] \in Message
      BY <2>2
    <3>2. QED
      BY <2>10, <3>1 DEF ToldInv, Ended, Message
  <2>11. Ended'
    <3>1. ASSUME NEW i \in DOMAIN told', told'[i].type = "stopped"
          PROVE  /\ told'[i].done < d + 1
                 /\ \A s \in DOMAIN sessions : sessions[s].done = told'[i].done => Finished(sessions[s])
      <4>1. CASE i = last
        BY <1>1, <2>2, <2>3, <2>9, <4>1
      <4>2. CASE i # last
        <5>1. i \in DOMAIN told /\ told'[i] = told[i]
          BY <2>2, <4>2
        <5>2. told[i].done < d /\ told[i].done \in Nat
          BY <2>10, <3>1, <5>1
        <5>3. QED
          BY <1>1, <3>1, <5>1, <5>2 DEF ToldInv, Ended
      <4>3. QED
        BY <4>1, <4>2
    <3>2. QED
      BY <1>1, <3>1 DEF Ended
  <2>12. StoppedIsLast'
    <3>1. ASSUME NEW i \in DOMAIN told', NEW s \in DOMAIN sessions, told'[i].type = "stopped",
                 sessions[s].done = told'[i].done
          PROVE  /\ \A n \in 1 .. sessions[s].heard : \E k \in 1 .. (i - 1) : told'[k] = Result(s, n)
                 /\ \A k \in DOMAIN told' : Tells(told'[k], s) => k < i
      <4>1. CASE i = last
        <5>1. Said(s) = sessions[s].heard
          BY <2>2, <2>3, <2>9, <3>1, <4>1
        <5>2. \A n \in 1 .. sessions[s].heard : \E k \in DOMAIN told : told[k] = Result(s, n)
          BY <2>8, <5>1 DEF UpToDate
        <5>3. 1 .. (i - 1) = DOMAIN told
          BY <2>2, <4>1
        <5>4. QED
          BY <2>2, <2>5, <4>1, <5>2, <5>3
      <4>2. CASE i # last
        <5>1. i \in DOMAIN told /\ told'[i] = told[i]
          BY <2>2, <4>2
        <5>2. \A k \in 1 .. (i - 1) : k \in DOMAIN told
          BY <2>2, <5>1
        <5>3. /\ \A n \in 1 .. sessions[s].heard : \E k \in 1 .. (i - 1) : told[k] = Result(s, n)
              /\ \A k \in DOMAIN told : Tells(told[k], s) => k < i
          BY <3>1, <5>1 DEF ToldInv, StoppedIsLast
        <5>4. QED
          BY <2>2, <2>5, <5>2, <5>3
      <4>3. QED
        BY <4>1, <4>2
    <3>2. QED
      BY <1>1, <2>6, <3>1 DEF StoppedIsLast, Result, Tells
  <2>13. Written'
    <3>1. ASSUME NEW s \in DOMAIN sessions PROVE UpToDate(s)'
      <4>1. UpToDate(s)
        BY <2>8
      <4>2. \A n \in 1 .. Said(s) : \E k \in DOMAIN told' : told'[k] = Result(s, n)
        BY <2>2, <4>1 DEF UpToDate
      <4>3. QED
        BY <1>1, <2>5, <4>1, <4>2 DEF UpToDate, Said, Tells, Result
    <3>2. QED
      BY <1>1, <3>1 DEF Written
  <2>14. QED
    BY <2>7, <2>11, <2>12, <2>13 DEF ToldInv
<1>6. QED
  BY <1>4, <1>5 DEF AnswerStop

LEMMA ToldNext == TypeOK /\ ChannelInv /\ ToldInv /\ [Next]_vars => ToldInv'
<1> SUFFICES ASSUME TypeOK, ChannelInv, ToldInv, [Next]_vars PROVE ToldInv'
  OBVIOUS
<1>1. \A s \in DOMAIN sessions : Same(sessions[s], sessions[s])
  BY DEF Same
<1>2. ASSUME UNCHANGED <<sessions, reader, told>>, line' = "broken" \/ line' = line \/ line # "broken"
      PROVE  ToldInv'
  BY <1>1, <1>2, SameKeeps
<1>3. CASE SendStart \/ SendAudio \/ SendStop \/ HangUp
  BY <1>2, <1>3 DEF SendStart, SendAudio, SendStop, Sends, HangUp
<1>4. CASE Review
  BY <1>2, <1>4 DEF Review, WritesAside, WriteFails
<1>5. CASE UNCHANGED vars
  BY <1>2, <1>5 DEF vars
<1>6. QED
  BY <1>3, <1>4, <1>5, RecognizerTells, PumpTells, PumpOverTells, StartTells, QuietReaderTells, AnswerTells
  DEF Next, ReaderStep, Pumps

LEMMA ToldInit == Init => ToldInv
<1> SUFFICES ASSUME Init PROVE ToldInv
  OBVIOUS
<1>1. told = <<>> /\ sessions = <<>>
  BY DEF Init
<1>2. DOMAIN told = {} /\ DOMAIN sessions = {} /\ told \in Seq(Message)
  BY <1>1
<1>3. QED
  BY <1>2 DEF ToldInv, Messages, Ended, StoppedIsLast, Written

\* When an orderly client reads that it has stopped, every text of what was said
\* has come before, once and in order, and none comes after: whatever the
\* channels hold, the reviews send between, and the line or the recognizer loses.
THEOREM StoppedIsTheLastWord == Orderly /\ Spec => []StoppedIsLast
<1>1. SUFFICES ASSUME Orderly PROVE Spec => []StoppedIsLast
  OBVIOUS
<1>2. TypeOK /\ ChannelInv /\ [Next]_vars => ChannelInv'
  BY <1>1, ChannelsNext
<1>3. ToldInv => StoppedIsLast
  BY DEF ToldInv
<1>4. QED
  BY TypesInit, TypesNext, ChannelsInit, ToldInit, ToldNext, <1>2, <1>3, PTL DEF Spec
=============================================================================
