----------------------------- MODULE AudioUpload -----------------------------
(***************************************************************************)
(* The upload and the transcription of one recording of the WeaveBrain     *)
(* app: the requests that the device sends one after another and repeats   *)
(* in its next pass, and the server's handlers, which change a row of      *)
(* audio_assets, files of the chunks, the final file, the transcripts and  *)
(* the card's title one after the other.                                   *)
(*                                                                         *)
(* A handler is a call that goes through numbered places; an action is one *)
(* statement of the database or one operation on a file.  A call goes on   *)
(* when the device has given it up, and the device may then send again:    *)
(* Late says which requests may still be running when it does.             *)
(*                                                                         *)
(* Bytes are abstract: a chunk is absent, torn (not what was recorded) or  *)
(* whole, and the final file is the set of the chunks that are in place    *)
(* and whole.  received_chunks, which is only shown, is left out.          *)
(***************************************************************************)
EXTENDS Naturals, Sequences

CONSTANTS
  Total,           \* chunks of the recording
  Calls,           \* places for the calls that the server runs at a time
  NoCall,          \* no call
  Late,            \* requests that may outlive the device's interest in them
  Cases,           \* what is tried: a recording and how the server is set up
  MaxFaults,       \* bound: failures, lost messages and crashes
  MaxCorrections   \* bound: transcripts the user corrects

Chunks == 0 .. Total - 1
Requests == {"initiate", "chunk", "complete", "transcribe"}

ASSUME TotalAssumption == Total \in Nat \ {0}
ASSUME CallsAssumption == NoCall \notin Calls
ASSUME LateAssumption == Late \subseteq Requests

\* intact: the file is as it was recorded; stt: a transcript is wanted; audible:
\* the recognizer finds words in it.
Recordings == [intact : BOOLEAN, stt : BOOLEAN, audible : BOOLEAN]

\* store: AUDIO_STORE_DIR is not the cleaned form of its path, is another
\* directory than the working directory of the server, or is the latter as an
\* absolute path; provider: a recognizer is configured, as main does and
\* NewAudioService does not require.
Settings == [store : {"unclean", "elsewhere", "working"}, provider : BOOLEAN]

ASSUME CasesAssumption == Cases \subseteq Recordings \X Settings
ASSUME AudioBounds == MaxFaults \in Nat /\ MaxCorrections \in Nat

VARIABLES
  asset,        \* upload_state of the audio_assets row
  staged,       \* the chunk files of the staging directory
  final,        \* the chunks that the final file holds, whole and in place
  transcripts,  \* source of each transcript revision
  title,        \* where the card's title comes from
  calls,        \* the handlers that are running
  at,           \* what the device does next
  waiting,      \* the call whose answer the device waits for
  uploaded,     \* audioUploadedChunks of the local capture
  recording,    \* the local capture, which does not change any more
  setting,      \* how the server is set up, likewise
  faults,       \* failures, lost messages and crashes so far
  corrections   \* corrections so far

texts == <<transcripts, title>>
device == <<at, waiting, uploaded>>
vars == <<asset, staged, final, texts, calls, device, recording, setting, faults, corrections>>

-----------------------------------------------------------------------------
Places == {"start", "truncate", "write", "progress", "list", "create", "copy",
           "verify", "commit", "remove", "discard", "recognize", "append", "title",
           "answered"}

\* n: the chunk in hand; whole: what was copied so far is whole; attached: the
\* file that the call writes is still the one at the final path.
Call == [op : Requests \cup {"none", "correct"}, at : Places, n : 0 .. Total,
         whole : BOOLEAN, attached : BOOLEAN, ok : BOOLEAN]

Started(op, n) == [op |-> op, at |-> "start", n |-> n, whole |-> TRUE,
                   attached |-> FALSE, ok |-> TRUE]
Idle == Started("none", 0)

Init ==
  /\ asset = "none"
  /\ staged = [c \in Chunks |-> "absent"]
  /\ final = {}
  /\ transcripts = <<>>
  /\ title = "fallback"
  /\ calls = [k \in Calls |-> Idle]
  /\ at = "rest"
  /\ waiting = NoCall
  /\ uploaded = {}
  /\ \E case \in Cases : recording = case[1] /\ setting = case[2]
  /\ faults = 0
  /\ corrections = 0

Fault == faults < MaxFaults /\ faults' = faults + 1
Runs(k, op, place) == calls[k].op = op /\ calls[k].at = place
Goes(k, place) == calls' = [calls EXCEPT ![k].at = place]

\* The call ends: its answer waits for the device, or nobody wants it.
Ended(k, ok) ==
  IF waiting = k THEN [calls[k] EXCEPT !.at = "answered", !.ok = ok] ELSE Idle
Ends(k, ok) == calls' = [calls EXCEPT ![k] = Ended(k, ok)]

-----------------------------------------------------------------------------
(* The server                                                              *)

\* Mutation: an upload that is initiated again starts from the beginning.
InitiatedAnew == "initiated"

Initiated == IF asset = "none" THEN "initiated" ELSE asset

Initiate(k) ==
  /\ Runs(k, "initiate", "start")
  /\ asset' = Initiated
  /\ Ends(k, TRUE)
  /\ UNCHANGED <<staged, final, texts, device, recording, setting, faults, corrections>>

\* Mutation: a completion of a complete asset looks for its chunks again.
AlreadyDoneChunk(call) == asset = "complete" /\ call.op = "chunk"

\* Sending a chunk of a complete asset, or completing it, is a no-op.
AlreadyDone(call) == asset = "complete" /\ call.op \in {"chunk", "complete"}

\* physicalPath: the path of a final file, which is cleaned, does not begin with
\* the directory of the store as it was configured.
EscapesStore == setting.store = "unclean"

\* What a handler refuses, after reading the row or listing the chunks, or when
\* it asks for the path of the final file.
Refused(call) ==
  \/ call.at = "start" /\ call.op \in {"chunk", "complete", "transcribe"} /\ asset = "none"
  \/ call.at = "start" /\ call.op = "transcribe"
       /\ (asset # "complete" \/ ~ recording.stt \/ ~ setting.provider \/ EscapesStore
             \/ final = {})
  \/ call.at = "list" /\ \E c \in Chunks : staged[c] = "absent"
  \/ call.at = "create" /\ EscapesStore

\* Mutation: a chunk that is staged already is not written again.
NextPlaceStaged(call) ==
  IF call.op = "chunk" /\ staged[call.n] # "absent" THEN "progress"
  ELSE [chunk |-> "truncate", complete |-> "list", transcribe |-> "recognize"][call.op]

\* What remains to be done after reading the row.
NextPlace(call) ==
  [chunk |-> "truncate", complete |-> "list", transcribe |-> "recognize"][call.op]

ReadAsset(k) ==
  /\ calls[k].at = "start" /\ calls[k].op \in {"chunk", "complete", "transcribe"}
  /\ ~ Refused(calls[k])
  /\ IF AlreadyDone(calls[k]) THEN Ends(k, TRUE) ELSE Goes(k, NextPlace(calls[k]))
  /\ UNCHANGED <<asset, staged, final, texts, device, recording, setting, faults,
                 corrections>>

Refuse(k) ==
  /\ Refused(calls[k])
  /\ Ends(k, FALSE)
  /\ UNCHANGED <<asset, staged, final, texts, device, recording, setting, faults,
                 corrections>>

-----------------------------------------------------------------------------
(* UploadChunk: os.WriteFile empties the file before it writes it, and the *)
(* progress makes the row uploading whatever it was.                       *)

TruncateChunk(k) ==
  /\ Runs(k, "chunk", "truncate")
  /\ staged' = [staged EXCEPT ![calls[k].n] = "torn"]
  /\ Goes(k, "write")
  /\ UNCHANGED <<asset, final, texts, device, recording, setting, faults, corrections>>

\* A file that has changed since it was recorded differs in its last chunk.
Content(n) == IF recording.intact \/ n # Total - 1 THEN "whole" ELSE "torn"

WriteChunk(k) ==
  /\ Runs(k, "chunk", "write")
  /\ staged' = [staged EXCEPT ![calls[k].n] = Content(calls[k].n)]
  /\ Goes(k, "progress")
  /\ UNCHANGED <<asset, final, texts, device, recording, setting, faults, corrections>>

UpdateChunkProgress(k) ==
  /\ Runs(k, "chunk", "progress")
  /\ asset' = "uploading"
  /\ Ends(k, TRUE)
  /\ UNCHANGED <<staged, final, texts, device, recording, setting, faults, corrections>>

-----------------------------------------------------------------------------
(* Complete                                                                *)

ListStagedChunks(k) ==
  /\ Runs(k, "complete", "list") /\ ~ Refused(calls[k])
  /\ Goes(k, "create")
  /\ UNCHANGED <<asset, staged, final, texts, device, recording, setting, faults,
                 corrections>>

\* os.Create empties the final file, also one that another call is writing.
CreateFinal(k) ==
  /\ Runs(k, "complete", "create") /\ ~ Refused(calls[k])
  /\ final' = {}
  /\ calls' = [calls EXCEPT ![k] = [calls[k] EXCEPT !.at = "copy", !.n = 0, !.attached = TRUE]]
  /\ UNCHANGED <<asset, staged, texts, device, recording, setting, faults, corrections>>

\* The final file after chunk n was copied into it.
Copied(call, good) ==
  IF ~ call.attached THEN final
  ELSE IF good THEN final \cup {call.n} ELSE final \ {call.n}

CopyChunk(k) ==
  /\ Runs(k, "complete", "copy")
  /\ LET call == calls[k]
         good == call.whole /\ staged[call.n] = "whole"
     IN /\ staged[call.n] # "absent"
        /\ final' = Copied(call, good)
        /\ calls' = [calls EXCEPT ![k] = [call EXCEPT
             !.n = call.n + 1, !.whole = good,
             !.at = IF call.n + 1 = Total THEN "verify" ELSE "copy"]]
  /\ UNCHANGED <<asset, staged, texts, device, recording, setting, faults, corrections>>

\* A chunk that cannot be copied takes the final file with it, and with it
\* what other calls are writing.
CopyFails(k) ==
  /\ Runs(k, "complete", "copy")
  /\ IF staged[calls[k].n] = "absent" THEN UNCHANGED faults ELSE Fault
  /\ final' = {}
  /\ calls' = [j \in Calls |-> IF j = k THEN Ended(k, FALSE)
                                ELSE [calls[j] EXCEPT !.attached = FALSE]]
  /\ UNCHANGED <<asset, staged, texts, device, recording, setting, corrections>>

\* Mutation: only the number of the bytes is compared.
VerifiedSize(call) == TRUE

\* The size is that of what was copied, the hash that of the file at the path.
Verified(call) == call.whole /\ final = Chunks

Verify(k) ==
  /\ Runs(k, "complete", "verify")
  /\ calls' = [calls EXCEPT ![k] = [calls[k] EXCEPT
       !.n = 0, !.at = IF Verified(calls[k]) THEN "commit" ELSE "discard"]]
  /\ UNCHANGED <<asset, staged, final, texts, device, recording, setting, faults,
                 corrections>>

Commit(k) ==
  /\ Runs(k, "complete", "commit")
  /\ asset' = "complete"
  /\ Goes(k, "remove")
  /\ UNCHANGED <<staged, final, texts, device, recording, setting, faults, corrections>>

\* RemoveStaging, chunk by chunk: after the commit, or before the refusal of a
\* recording that does not match.
RemoveChunk(k) ==
  /\ calls[k].at \in {"remove", "discard"} /\ calls[k].n < Total
  /\ staged' = [staged EXCEPT ![calls[k].n] = "absent"]
  /\ calls' = [calls EXCEPT ![k].n = @ + 1]
  /\ UNCHANGED <<asset, final, texts, device, recording, setting, faults, corrections>>

StagingRemoved(k) ==
  /\ calls[k].at \in {"remove", "discard"} /\ calls[k].n = Total
  /\ Ends(k, calls[k].at = "remove")
  /\ UNCHANGED <<asset, staged, final, texts, device, recording, setting, faults,
                 corrections>>

-----------------------------------------------------------------------------
(* TranscribeCapture and CorrectTranscript.  Append takes the next number in *)
(* one statement, and a title that cannot be written is no failure.          *)

\* The provider opens storage_path itself, from the working directory, where
\* the warm open joined it to the directory of the store.
ProviderReads == IF setting.store = "working" THEN final ELSE {}

\* A file that is not there, or is empty, is an error, and so is an empty text.
Recognize(k) ==
  /\ Runs(k, "transcribe", "recognize")
  /\ IF ProviderReads = {} \/ ~ recording.audible THEN Ends(k, FALSE) ELSE Goes(k, "append")
  /\ UNCHANGED <<asset, staged, final, texts, device, recording, setting, faults,
                 corrections>>

Source(call) == IF call.op = "transcribe" THEN "stt" ELSE "user"

AppendTranscript(k) ==
  /\ Runs(k, "transcribe", "append") \/ Runs(k, "correct", "start")
  /\ transcripts' = Append(transcripts, Source(calls[k]))
  /\ Goes(k, "title")
  /\ UNCHANGED <<asset, staged, final, title, device, recording, setting, faults,
                 corrections>>

UpdateCardTitle(k) ==
  /\ calls[k].at = "title"
  /\ title' = Source(calls[k])
  /\ Ends(k, TRUE)
  /\ UNCHANGED <<asset, staged, final, transcripts, device, recording, setting, faults,
                 corrections>>

\* The user corrects the transcript, from any device and at any time.
Correct(k) ==
  /\ calls[k] = Idle
  /\ corrections < MaxCorrections /\ corrections' = corrections + 1
  /\ calls' = [calls EXCEPT ![k] = Started("correct", 0)]
  /\ UNCHANGED <<asset, staged, final, texts, device, recording, setting, faults>>

-----------------------------------------------------------------------------
(* Failures.  A call that fails to remove the staging directory or to write *)
(* the title answers as if it had not.                                      *)

HandlerFails(k) ==
  /\ calls[k].op # "none" /\ calls[k].at \notin {"copy", "answered"}
  /\ Fault
  /\ IF calls[k].at \in {"remove", "title"} THEN Ends(k, TRUE) ELSE Ends(k, FALSE)
  /\ UNCHANGED <<asset, staged, final, texts, device, recording, setting, corrections>>

Answered == waiting # NoCall /\ calls[waiting].at = "answered"

\* The server stops: files and rows stay as they are.
ServerCrash ==
  /\ \E k \in Calls : calls[k].op # "none" /\ calls[k].at # "answered"
  /\ Fault
  /\ calls' = [k \in Calls |-> IF calls[k].at = "answered" THEN calls[k] ELSE Idle]
  /\ IF waiting = NoCall \/ Answered THEN UNCHANGED <<at, waiting>>
     ELSE at' = "rest" /\ waiting' = NoCall
  /\ UNCHANGED <<asset, staged, final, texts, uploaded, recording, setting, corrections>>

\* A request or an answer is lost, the device fails to write or to read, or the
\* app is killed: the call that was waited for goes on.
PassFails ==
  /\ at \notin {"rest", "done"}
  /\ Fault
  /\ at' = "rest" /\ waiting' = NoCall
  /\ calls' = IF Answered THEN [calls EXCEPT ![waiting] = Idle] ELSE calls
  /\ UNCHANGED <<asset, staged, final, texts, uploaded, recording, setting, corrections>>

-----------------------------------------------------------------------------
(* The device: uploadAudio, once in each sync pass                         *)

Missing == Chunks \ uploaded

\* The chunk that is sent next.
FirstMissing == {c \in Missing : \A d \in Missing : c <= d}

Begin ==
  /\ at = "rest" /\ at' = "initiate"
  /\ UNCHANGED <<asset, staged, final, texts, calls, waiting, uploaded, recording,
                 setting,
                 faults, corrections>>

\* What it gave up has ended by now, unless it is Late.
Send(k) ==
  /\ at \in Requests /\ waiting = NoCall /\ calls[k] = Idle
  /\ \A j \in Calls : calls[j].op \in Late \cup {"none", "correct"}
  /\ \E n \in IF at = "chunk" THEN FirstMissing ELSE {0} :
       calls' = [calls EXCEPT ![k] = Started(at, n)]
  /\ waiting' = k
  /\ UNCHANGED <<asset, staged, final, texts, at, uploaded, recording, setting, faults,
                 corrections>>

AfterChunks(sent) == IF sent = Chunks THEN "complete" ELSE "chunk"

AfterSuccess ==
  CASE at = "initiate" -> AfterChunks(uploaded)
    [] at = "chunk" -> "keep"
    [] at = "complete" -> IF recording.stt THEN "transcribe" ELSE "settle"
    [] at = "transcribe" -> "save"

AfterAnswer(ok) == IF ok THEN AfterSuccess ELSE "rest"

Receive ==
  /\ Answered
  /\ at' = AfterAnswer(calls[waiting].ok)
  /\ waiting' = NoCall
  /\ calls' = [calls EXCEPT ![waiting] = Idle]
  /\ UNCHANGED <<asset, staged, final, texts, uploaded, recording, setting, faults,
                 corrections>>

\* Mutation: the chunks that were sent are numbered from one.
SentNext == {c + 1 : c \in Missing}

Sent == FirstMissing

KeepProgress ==
  /\ at = "keep"
  /\ uploaded' = uploaded \cup Sent
  /\ at' = AfterChunks(uploaded \cup Sent)
  /\ UNCHANGED <<asset, staged, final, texts, calls, waiting, recording, setting, faults,
                 corrections>>

\* The transcript is kept, and then the capture is marked synced and leaves the
\* queue: until then the next pass starts over.
SaveTranscript ==
  /\ at = "save" /\ at' = "settle"
  /\ UNCHANGED <<asset, staged, final, texts, calls, waiting, uploaded, recording,
                 setting,
                 faults, corrections>>

ApplyServerRevision ==
  /\ at = "settle" /\ at' = "done"
  /\ UNCHANGED <<asset, staged, final, texts, calls, waiting, uploaded, recording,
                 setting,
                 faults, corrections>>

-----------------------------------------------------------------------------
Handles(k) ==
  \/ Initiate(k) \/ ReadAsset(k) \/ Refuse(k)
  \/ TruncateChunk(k) \/ WriteChunk(k) \/ UpdateChunkProgress(k)
  \/ ListStagedChunks(k) \/ CreateFinal(k) \/ CopyChunk(k) \/ CopyFails(k)
  \/ Verify(k) \/ Commit(k) \/ RemoveChunk(k) \/ StagingRemoved(k)
  \/ Recognize(k) \/ AppendTranscript(k) \/ UpdateCardTitle(k)

Device ==
  \/ Begin \/ \E k \in Calls : Send(k)
  \/ Receive \/ KeepProgress \/ SaveTranscript \/ ApplyServerRevision

Next ==
  \/ \E k \in Calls : Handles(k) \/ Correct(k) \/ HandlerFails(k)
  \/ Device \/ PassFails \/ ServerCrash

\* A call of the server goes on, and the retry timer of the app starts the next
\* pass while the capture is queued.
Fairness == WF_vars(Device) /\ \A k \in Calls : WF_vars(Handles(k))

Spec == Init /\ [][Next]_vars /\ Fairness

-----------------------------------------------------------------------------
(* Properties                                                              *)

TypeOK ==
  /\ asset \in {"none", "initiated", "uploading", "complete"}
  /\ staged \in [Chunks -> {"absent", "torn", "whole"}]
  /\ final \subseteq Chunks
  /\ transcripts \in Seq({"stt", "user"})
  /\ title \in {"fallback", "stt", "user"}
  /\ calls \in [Calls -> Call]
  /\ at \in Requests \cup {"rest", "keep", "save", "settle", "done"}
  /\ waiting \in Calls \cup {NoCall}
  /\ uploaded \subseteq Chunks
  /\ recording \in Recordings /\ setting \in Settings
  /\ faults \in 0 .. MaxFaults
  /\ corrections \in 0 .. MaxCorrections

\* An asset that the row calls complete has its whole audio, exactly as it was
\* recorded, in the final file: whatever failed, stopped or was sent again.
CompleteKeepsAudio == asset = "complete" => recording.intact /\ final = Chunks

\* Until the asset is complete, a chunk that the device will not send again is
\* whole on the server: a pass that starts from the kept progress can finish.
ProgressIsStaged ==
  asset # "complete" /\ recording.intact => \A c \in uploaded : staged[c] = "whole"

\* The app is through with a recording only when the server has it complete and,
\* if that was wanted, a transcript of the recognizer.
DoneMeansStored ==
  at = "done" =>
    /\ asset = "complete"
    /\ recording.stt => \E i \in DOMAIN transcripts : transcripts[i] = "stt"

\* The upload as the device may take it: a stored recording is whole, was stored
\* once and after every chunk was confirmed, and never changes; transcripts of
\* the recognizer come after it, and the device is through after what it wanted.
Recording == INSTANCE StoredRecording WITH
  sent <- uploaded,
  stored <- asset = "complete",
  audio <- IF asset = "complete" THEN final ELSE {},
  done <- at = "done"

ImplementsRecording == Recording!Spec

\* The recording that can be kept, and the one that can be transcribed too.
Storable == recording.intact /\ ~ EscapesStore
Transcribable == setting.provider /\ setting.store = "working" /\ recording.audible

\* A recording that has not changed on the device reaches the server, although
\* the transcript that comes after it may be refused for ever.
AudioArrives == Storable ~> asset = "complete"

\* If no transcript is wanted, or one can be had, the app gets through with it.
Finishes == Storable /\ (recording.stt => Transcribable) ~> at = "done"
=============================================================================
