---------------------------- MODULE VoiceSession ----------------------------
(***************************************************************************)
(* One WebSocket of the voice input, from the first message to the end of  *)
(* the goroutines it started.  The reader takes the client's messages in   *)
(* order; a start makes an audio channel, a recognizer that listens to it, *)
(* and a pump that writes the recognizer's results to the client; a stop   *)
(* closes the audio channel and waits until the pump has closed the done   *)
(* channel.                                                                *)
(*                                                                         *)
(* The recognizer is the one that talks to a FunASR server: a sender, a    *)
(* receiver and the server, whose answers are its own.  A result is only   *)
(* known by its session, its number and whether it is final.               *)
(***************************************************************************)
EXTENDS Integers, Sequences

CONSTANTS
  Orderly,     \* the client starts when nothing runs and stops what it started
  AudioBuffer, \* capacity of an audio channel
  Results,     \* capacity of a results channel
  MaxStarts,   \* bound: sessions of a connection
  MaxChunks,   \* bound: chunks of audio the client sends
  MaxHeard     \* bound: texts of one session

ASSUME OrderlyAssumption == Orderly \in BOOLEAN
ASSUME CapacityAssumption == AudioBuffer \in Nat /\ Results \in Nat \ {0}
ASSUME VoiceBounds == MaxStarts \in Nat /\ MaxChunks \in Nat /\ MaxHeard \in Nat

VARIABLES
  client,     \* what the client is doing, and the chunks it has sent
  mail,       \* its messages that were not read yet
  line,       \* "up", "hung up" by the client, or "broken" for the writer
  reader,     \* the loop of the handler: its place, audioCh and sessionDone
  sessions,   \* one for each start, in order
  closed,     \* the done channels that were closed
  panicked,   \* a channel was closed twice: the process is gone
  reviewing,  \* how many final texts are being reviewed
  told        \* the results and stops that were written to the client

vars == <<client, mail, line, reader, sessions, closed, panicked, reviewing, told>>

-----------------------------------------------------------------------------
\* audio: chunks in the channel; open: it is not closed; sender, receiver, pump:
\* the goroutine runs; ending: the server was told that the speech is over, or
\* is lost; heard: texts so far; results: those in the channel.
NewSession == [audio |-> 0, open |-> TRUE, sender |-> TRUE, receiver |-> TRUE, pump |-> TRUE,
               ending |-> FALSE, heard |-> 0, results |-> <<>>, done |-> reader.done]

\* The recognizer did not start: nobody listens to the audio channel.
DeafSession == [NewSession EXCEPT !.sender = FALSE, !.receiver = FALSE, !.pump = FALSE]

NoSession == 0

Init ==
  /\ client = [at |-> "idle", chunks |-> 0]
  /\ mail = <<>>
  /\ line = "up"
  /\ reader = [at |-> "reading", audio |-> NoSession, done |-> 1]
  /\ sessions = <<>>
  /\ closed = {}
  /\ panicked = FALSE
  /\ reviewing = 0
  /\ told = <<>>

\* safeWriteJSON: once a write has failed, all of them do.
Writes(message) == line # "broken" /\ told' = Append(told, message) /\ UNCHANGED line
WritesAside == line # "broken" /\ UNCHANGED <<line, told>>
WriteFails == line # "up" /\ line' = "broken" /\ UNCHANGED told

Stopped(d) == [type |-> "stopped", done |-> d]
Result(s, n) == [type |-> "result", session |-> s, number |-> n]

-----------------------------------------------------------------------------
(* The client                                                              *)

Sends(message) ==
  /\ ~ panicked /\ line = "up"
  /\ mail' = Append(mail, message)
  /\ UNCHANGED <<line, reader, sessions, closed, panicked, reviewing, told>>

SendStart ==
  /\ Orderly => client.at = "idle"
  /\ Len(sessions) + Len(SelectSeq(mail, LAMBDA m : m = "start")) < MaxStarts
  /\ client' = [client EXCEPT !.at = "speaking"]
  /\ Sends("start")

SendAudio ==
  /\ Orderly => client.at = "speaking"
  /\ client.chunks < MaxChunks
  /\ client' = [client EXCEPT !.chunks = @ + 1]
  /\ Sends("audio")

SendStop ==
  /\ Orderly => client.at = "speaking"
  /\ client' = [client EXCEPT !.at = "stopping"]
  /\ Sends("stop")

\* What was on its way may be lost.
HangUp ==
  /\ ~ panicked /\ line = "up"
  /\ line' = "hung up"
  /\ \E n \in 0 .. Len(mail) : mail' = SubSeq(mail, 1, n)
  /\ UNCHANGED <<client, reader, sessions, closed, panicked, reviewing, told>>

-----------------------------------------------------------------------------
(* The reader                                                              *)

Reads(message) ==
  /\ ~ panicked /\ reader.at = "reading"
  /\ mail # <<>> /\ Head(mail) = message
  /\ mail' = Tail(mail)

\* stopSession: the audio channel of the session before is closed.
Silenced ==
  [s \in DOMAIN sessions |-> IF s = reader.audio THEN [sessions[s] EXCEPT !.open = FALSE] ELSE sessions[s]]

\* Mutation: a start does not end the session before it, and makes no channel
\* when there is one: the audio goes on to the old session.
StartKeepingChannel ==
  /\ Reads("start")
  /\ sessions' = Append(sessions, NewSession)
  /\ reader' = [reader EXCEPT !.audio = IF @ = NoSession THEN Len(sessions) + 1 ELSE @]
  /\ UNCHANGED <<client, line, closed, panicked, reviewing, told>>

Start ==
  /\ Reads("start")
  /\ sessions' = Append(Silenced, NewSession)
  /\ reader' = [reader EXCEPT !.audio = Len(sessions) + 1]
  /\ UNCHANGED <<client, line, closed, panicked, reviewing, told>>

\* The audio channel stays in place; a client that heeds the error is idle again.
StartFails ==
  /\ Reads("start")
  /\ sessions' = Append(Silenced, DeafSession)
  /\ reader' = [reader EXCEPT !.audio = Len(sessions) + 1]
  /\ (WritesAside /\ \E at \in {client.at, "idle"} : client' = [client EXCEPT !.at = at])
     \/ (WriteFails /\ UNCHANGED client)
  /\ UNCHANGED <<closed, panicked, reviewing>>

\* A chunk is dropped when the channel is full or there is none.
Forward ==
  /\ Reads("audio")
  /\ sessions' = [s \in DOMAIN sessions |->
       IF s = reader.audio /\ sessions[s].audio < AudioBuffer
       THEN [sessions[s] EXCEPT !.audio = @ + 1] ELSE sessions[s]]
  /\ UNCHANGED <<client, line, reader, closed, panicked, reviewing, told>>

Stop ==
  /\ Reads("stop")
  /\ sessions' = Silenced
  /\ reader' = [reader EXCEPT !.at = "waiting", !.audio = NoSession]
  /\ UNCHANGED <<client, line, closed, panicked, reviewing, told>>

\* Mutation: the stop does not wait for the pump.
AnswerStopAtOnce ==
  /\ ~ panicked /\ reader.at = "waiting"
  /\ reader' = [reader EXCEPT !.at = "reading", !.done = @ + 1]
  /\ (Writes(Stopped(reader.done)) /\ client' = [client EXCEPT !.at = "idle"])
     \/ (WriteFails /\ UNCHANGED client)
  /\ UNCHANGED <<mail, sessions, closed, panicked, reviewing>>

\* Mutation: the next session gets the done channel of this one.
AnswerStopKeepingDone ==
  /\ ~ panicked /\ reader.at = "waiting" /\ reader.done \in closed
  /\ reader' = [reader EXCEPT !.at = "reading"]
  /\ (Writes(Stopped(reader.done)) /\ client' = [client EXCEPT !.at = "idle"])
     \/ (WriteFails /\ UNCHANGED client)
  /\ UNCHANGED <<mail, sessions, closed, panicked, reviewing>>

AnswerStop ==
  /\ ~ panicked /\ reader.at = "waiting" /\ reader.done \in closed
  /\ reader' = [reader EXCEPT !.at = "reading", !.done = @ + 1]
  /\ (Writes(Stopped(reader.done)) /\ client' = [client EXCEPT !.at = "idle"])
     \/ (WriteFails /\ UNCHANGED client)
  /\ UNCHANGED <<mail, sessions, closed, panicked, reviewing>>

\* The end of the handler cancels the context of the recognizers.
Leave ==
  /\ ~ panicked /\ reader.at = "reading"
  /\ mail = <<>> /\ line # "up"
  /\ sessions' = Silenced
  /\ reader' = [reader EXCEPT !.at = "gone", !.audio = NoSession]
  /\ UNCHANGED <<client, mail, line, closed, panicked, reviewing, told>>

Cancelled == reader.at = "gone"

-----------------------------------------------------------------------------
(* The recognizer of session s                                             *)

Changes(s, to) ==
  /\ ~ panicked
  /\ sessions' = [sessions EXCEPT ![s] = to]
  /\ UNCHANGED <<client, mail, line, reader, closed, panicked, reviewing, told>>

\* A chunk that cannot be sent ends the sender: the server is lost.
SendChunk(s) ==
  /\ sessions[s].sender /\ sessions[s].audio > 0
  /\ \E lost \in BOOLEAN :
       Changes(s, [sessions[s] EXCEPT !.audio = @ - 1, !.sender = ~ lost, !.ending = @ \/ lost])

\* Mutation: a sender that finds its channel closed tells nobody.
EndSpeechSilently(s) ==
  /\ sessions[s].sender /\ sessions[s].audio = 0 /\ ~ sessions[s].open
  /\ Changes(s, [sessions[s] EXCEPT !.sender = FALSE])

EndSpeech(s) ==
  /\ sessions[s].sender /\ sessions[s].audio = 0 /\ ~ sessions[s].open
  /\ Changes(s, [sessions[s] EXCEPT !.sender = FALSE, !.ending = TRUE])

CancelSender(s) ==
  /\ sessions[s].sender /\ Cancelled
  /\ Changes(s, [sessions[s] EXCEPT !.sender = FALSE])

\* The server has a text, and the results channel has room for it.
Receive(s, final) ==
  /\ sessions[s].receiver
  /\ sessions[s].heard < MaxHeard /\ Len(sessions[s].results) < Results
  /\ Changes(s, [sessions[s] EXCEPT !.heard = @ + 1,
                                    !.results = Append(@, [number |-> sessions[s].heard + 1, final |-> final])])

\* The context is looked at only when the server has a text.
CancelReceiver(s) ==
  /\ sessions[s].receiver /\ Cancelled /\ sessions[s].heard < MaxHeard
  /\ Changes(s, [sessions[s] EXCEPT !.receiver = FALSE])

\* The server closes the connection, or it breaks.
ServerEnds(s) ==
  /\ sessions[s].receiver
  /\ Changes(s, [sessions[s] EXCEPT !.receiver = FALSE])

-----------------------------------------------------------------------------
(* The pump of session s, and the reviews                                  *)

CloseDone(d) ==
  /\ closed' = closed \cup {d}
  /\ panicked' = (d \in closed)

Ready(s) == Head(sessions[s].results)

Pump(s) ==
  /\ ~ panicked /\ sessions[s].pump /\ sessions[s].results # <<>>
  /\ Writes(Result(s, Ready(s).number))
  /\ sessions' = [sessions EXCEPT ![s].results = Tail(@)]
  /\ reviewing' = IF Ready(s).final THEN reviewing + 1 ELSE reviewing
  /\ UNCHANGED <<client, mail, reader, closed, panicked>>

\* A pump that cannot write leaves what is in the channel.
PumpFails(s) ==
  /\ ~ panicked /\ sessions[s].pump /\ sessions[s].results # <<>>
  /\ WriteFails
  /\ sessions' = [sessions EXCEPT ![s] = [sessions[s] EXCEPT !.results = Tail(@), !.pump = FALSE]]
  /\ CloseDone(sessions[s].done)
  /\ UNCHANGED <<client, mail, reader, reviewing>>

PumpEnds(s) ==
  /\ ~ panicked /\ sessions[s].pump /\ sessions[s].results = <<>> /\ ~ sessions[s].receiver
  /\ sessions' = [sessions EXCEPT ![s].pump = FALSE]
  /\ CloseDone(sessions[s].done)
  /\ UNCHANGED <<client, mail, line, reader, reviewing, told>>

\* A text that the review has changed is sent whenever it is ready; one that is
\* as it was, or whose review fails, is not.
Review ==
  /\ ~ panicked /\ reviewing > 0
  /\ reviewing' = reviewing - 1
  /\ WritesAside \/ WriteFails \/ UNCHANGED <<line, told>>
  /\ UNCHANGED <<client, mail, reader, sessions, closed, panicked>>

-----------------------------------------------------------------------------
ReaderStep == Start \/ StartFails \/ Forward \/ Stop \/ AnswerStop \/ Leave

Recognizes(s) ==
  \/ SendChunk(s) \/ EndSpeech(s) \/ CancelSender(s)
  \/ \E final \in BOOLEAN : Receive(s, final)
  \/ CancelReceiver(s)

Pumps(s) == Pump(s) \/ PumpFails(s) \/ PumpEnds(s)

Next ==
  \/ SendStart \/ SendAudio \/ SendStop \/ HangUp
  \/ ReaderStep
  \/ \E s \in DOMAIN sessions : Recognizes(s) \/ ServerEnds(s) \/ Pumps(s)
  \/ Review

\* The goroutines run.  Of the server it is assumed that it closes the
\* connection some time after it was told that the speech is over.
Fairness ==
  /\ WF_vars(ReaderStep)
  /\ \A s \in 1 .. MaxStarts :
       /\ WF_vars(s \in DOMAIN sessions /\ (SendChunk(s) \/ EndSpeech(s)))
       /\ WF_vars(s \in DOMAIN sessions /\ Pumps(s))
       /\ WF_vars(s \in DOMAIN sessions /\ sessions[s].ending /\ ServerEnds(s))

Spec == Init /\ [][Next]_vars /\ Fairness

-----------------------------------------------------------------------------
(* Properties                                                              *)

ResultType == [number : 1 .. MaxHeard, final : BOOLEAN]

Session == [audio : 0 .. AudioBuffer, open : BOOLEAN, sender : BOOLEAN, receiver : BOOLEAN,
            pump : BOOLEAN, ending : BOOLEAN, heard : 0 .. MaxHeard, results : Seq(ResultType),
            done : Nat \ {0}]

\* Type invariant: no channel holds more than fits in it, and audio goes to the
\* newest session alone.
TypeOK ==
  /\ client \in [at : {"idle", "speaking", "stopping"}, chunks : 0 .. MaxChunks]
  /\ mail \in Seq({"start", "audio", "stop"})
  /\ line \in {"up", "hung up", "broken"}
  /\ reader \in [at : {"reading", "waiting", "gone"}, audio : Nat, done : Nat \ {0}]
  /\ reader.audio \in {NoSession, Len(sessions)}
  /\ sessions \in Seq(Session)
  /\ \A s \in DOMAIN sessions : Len(sessions[s].results) <= Results
  /\ closed \subseteq Nat \ {0}
  /\ panicked \in BOOLEAN
  /\ reviewing \in Nat

\* No done channel is closed twice, which would take the whole server down: an
\* orderly client never has two pumps on one channel, though its sessions follow
\* each other on the connection, fail to start, or lose their recognizer.
DoneClosedOnce == ~ panicked

Tells(m, s) == m.type = "result" /\ m.session = s

\* The texts of session s, and no others, came in order, none of them twice.
InOrder(s) ==
  /\ \A k \in DOMAIN told : Tells(told[k], s) => told[k].number \in 1 .. sessions[s].heard
  /\ \A k, l \in DOMAIN told :
       k < l /\ Tells(told[k], s) /\ Tells(told[l], s) => told[k].number < told[l].number

\* "stopped" is the last word: when the client reads it, it has every text that
\* the recognizer found in what was said, once and in order, and no text of that
\* session follows.
StoppedIsLast ==
  \A i \in DOMAIN told, s \in DOMAIN sessions :
    told[i].type = "stopped" /\ sessions[s].done = told[i].done =>
      /\ InOrder(s)
      /\ \A n \in 1 .. sessions[s].heard : \E k \in 1 .. (i - 1) : told[k] = Result(s, n)
      /\ \A k \in DOMAIN told : Tells(told[k], s) => k < i

\* A stop is answered, or the client is gone, if its session did start; after a
\* failed start nobody closes the done channel, and the reader waits for ever.
StopIsAnswered ==
  \A d \in 1 .. MaxStarts :
    reader.at = "waiting" /\ reader.done = d /\ (\E s \in DOMAIN sessions :
        sessions[s].done = d /\ (sessions[s].pump \/ d \in closed))
      ~> reader.at # "waiting"
=============================================================================
