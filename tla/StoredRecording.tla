-------------------------- MODULE StoredRecording --------------------------
(***************************************************************************)
(* What the upload of a recording promises to the device that sends it,    *)
(* without requests, files and failures: the audio is stored as a whole,   *)
(* once, after the device has been told of every chunk, and never changes  *)
(* or goes away; the recognizer speaks only of stored audio; transcripts   *)
(* are added and never taken back; and the device is through when all that *)
(* was wanted is there, for ever.                                          *)
(***************************************************************************)
EXTENDS Naturals, Sequences

CONSTANTS
  Chunks,     \* its pieces, in order
  Recordings  \* what is recorded: is it intact, is a transcript wanted

VARIABLES
  recording,    \* the one in question
  sent,         \* the chunks that the device will not send again
  stored,       \* the audio is stored
  audio,        \* the chunks of the stored audio
  transcripts,  \* where each transcript comes from
  done          \* the device is through

vars == <<recording, sent, stored, audio, transcripts, done>>

Init ==
  /\ recording \in Recordings
  /\ sent = {}
  /\ stored = FALSE
  /\ audio = {}
  /\ transcripts = <<>>
  /\ done = FALSE

Confirm(c) ==
  /\ c \notin sent /\ \A d \in Chunks \ sent : c <= d
  /\ sent' = sent \cup {c}
  /\ UNCHANGED <<recording, stored, audio, transcripts, done>>

Store ==
  /\ ~ stored /\ recording.intact /\ sent = Chunks
  /\ stored' = TRUE
  /\ audio' = Chunks
  /\ UNCHANGED <<recording, sent, transcripts, done>>

Transcribe ==
  /\ stored /\ recording.stt
  /\ transcripts' = Append(transcripts, "stt")
  /\ UNCHANGED <<recording, sent, stored, audio, done>>

Correct ==
  /\ transcripts' = Append(transcripts, "user")
  /\ UNCHANGED <<recording, sent, stored, audio, done>>

Finish ==
  /\ ~ done /\ stored
  /\ recording.stt => \E i \in DOMAIN transcripts : transcripts[i] = "stt"
  /\ done' = TRUE
  /\ UNCHANGED <<recording, sent, stored, audio, transcripts>>

Next == (\E c \in Chunks : Confirm(c)) \/ Store \/ Transcribe \/ Correct \/ Finish

Spec == Init /\ [][Next]_vars
=============================================================================
