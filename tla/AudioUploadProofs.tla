-------------------------- MODULE AudioUploadProofs --------------------------
(***************************************************************************)
(* Proofs about AudioUpload, for any number of chunks and of calls.  Types *)
(* hold always; what a complete asset holds, what the kept progress and a  *)
(* finished upload mean, and that the upload implements StoredRecording,   *)
(* hold when a chunk or a completion has ended before the device sends     *)
(* again.                                                                  *)
(***************************************************************************)
EXTENDS AudioUpload, TLAPS

NothingOverlaps == Late \subseteq {"initiate", "transcribe"}

-----------------------------------------------------------------------------
(* The effect of a step on the calls, field by field                       *)

LEMMA IdleType == Idle \in Call /\ Idle.op = "none" /\ Idle.at = "start"
BY TotalAssumption DEF Idle, Started, Call, Places

LEMMA StartedType ==
  ASSUME NEW op \in Requests \cup {"correct"}, NEW n \in 0 .. Total
  PROVE  /\ Started(op, n) \in Call
         /\ Started(op, n).op = op /\ Started(op, n).at = "start" /\ Started(op, n).n = n
         /\ Started(op, n).whole = TRUE
BY DEF Started, Call, Places

LEMMA EndsEffect ==
  ASSUME calls \in [Calls -> Call], NEW k \in Calls, NEW ok \in BOOLEAN, Ends(k, ok)
  PROVE  /\ calls' \in [Calls -> Call]
         /\ \A j \in Calls : j # k => calls'[j] = calls[j]
         /\ waiting # k => calls'[k] = Idle
         /\ waiting = k => /\ calls'[k].op = calls[k].op /\ calls'[k].n = calls[k].n
                           /\ calls'[k].at = "answered" /\ calls'[k].ok = ok
<1>1. calls[k] \in Call
  OBVIOUS
<1>2. Ended(k, ok) \in Call
  BY <1>1, IdleType DEF Ended, Call, Places
<1>3. calls'[k] = Ended(k, ok) /\ \A j \in Calls : j # k => calls'[j] = calls[j]
  BY DEF Ends
<1>4. calls' \in [Calls -> Call]
  BY <1>2 DEF Ends
<1>5. waiting = k => /\ calls'[k].op = calls[k].op /\ calls'[k].n = calls[k].n
                     /\ calls'[k].at = "answered" /\ calls'[k].ok = ok
  BY <1>1, <1>3 DEF Ended, Call
<1>6. QED
  BY <1>3, <1>4, <1>5 DEF Ended

LEMMA GoesEffect ==
  ASSUME calls \in [Calls -> Call], NEW k \in Calls, NEW place \in Places, Goes(k, place)
  PROVE  /\ calls' \in [Calls -> Call]
         /\ \A j \in Calls : j # k => calls'[j] = calls[j]
         /\ calls'[k].op = calls[k].op /\ calls'[k].n = calls[k].n
         /\ calls'[k].at = place /\ calls'[k].whole = calls[k].whole
         /\ calls'[k].attached = calls[k].attached
<1>1. calls[k] \in Call
  OBVIOUS
<1>2. calls' = [calls EXCEPT ![k] = [calls[k] EXCEPT !.at = place]]
  BY DEF Goes
<1>3. [calls[k] EXCEPT !.at = place] \in Call
  BY <1>1 DEF Call
<1>4. QED
  BY <1>1, <1>2, <1>3 DEF Call

LEMMA CreatedCall ==
  ASSUME NEW c \in Call
  PROVE  LET new == [c EXCEPT !.at = "copy", !.n = 0, !.attached = TRUE]
         IN  /\ new \in Call
             /\ new.op = c.op /\ new.n = 0 /\ new.at = "copy"
             /\ new.whole = c.whole /\ new.attached = TRUE
<1>1. 0 \in 0 .. Total /\ "copy" \in Places
  BY TotalAssumption DEF Places
<1>2. QED
  BY <1>1 DEF Call

LEMMA VerifiedCall ==
  ASSUME NEW c \in Call, NEW place \in Places
  PROVE  LET new == [c EXCEPT !.n = 0, !.at = place]
         IN  new \in Call /\ new.op = c.op /\ new.n = 0 /\ new.at = place
<1>1. 0 \in 0 .. Total
  BY TotalAssumption
<1>2. QED
  BY <1>1 DEF Call

LEMMA CreateEffect ==
  ASSUME calls \in [Calls -> Call], NEW k \in Calls, CreateFinal(k)
  PROVE  /\ calls' \in [Calls -> Call]
         /\ \A j \in Calls : j # k => calls'[j] = calls[j]
         /\ calls'[k].op = calls[k].op /\ calls'[k].n = 0 /\ calls'[k].at = "copy"
         /\ calls'[k].whole = calls[k].whole /\ calls'[k].attached = TRUE
<1>1. calls[k] \in Call
  OBVIOUS
<1> DEFINE new == [calls[k] EXCEPT !.at = "copy", !.n = 0, !.attached = TRUE]
<1>2. calls' = [calls EXCEPT ![k] = new]
  BY DEF CreateFinal
<1>3. /\ new \in Call
      /\ new.op = calls[k].op /\ new.n = 0 /\ new.at = "copy"
      /\ new.whole = calls[k].whole /\ new.attached = TRUE
  BY <1>1, CreatedCall
<1>4. QED
  BY <1>2, <1>3

LEMMA CopyEffect ==
  ASSUME calls \in [Calls -> Call], NEW k \in Calls, CopyChunk(k), calls[k].n \in Chunks
  PROVE  /\ calls' \in [Calls -> Call]
         /\ \A j \in Calls : j # k => calls'[j] = calls[j]
         /\ calls'[k].op = calls[k].op /\ calls'[k].n = calls[k].n + 1
         /\ calls'[k].at = IF calls[k].n + 1 = Total THEN "verify" ELSE "copy"
         /\ calls'[k].whole = (calls[k].whole /\ staged[calls[k].n] = "whole")
         /\ calls'[k].attached = calls[k].attached
<1>1. calls[k] \in Call
  OBVIOUS
<1>2. PICK good \in BOOLEAN : good = (calls[k].whole /\ staged[calls[k].n] = "whole")
  OBVIOUS
<1> DEFINE place == IF calls[k].n + 1 = Total THEN "verify" ELSE "copy"
           following == calls[k].n + 1
           new == [calls[k] EXCEPT !.n = following, !.whole = good, !.at = place]
<1>3. calls' = [calls EXCEPT ![k] = new]
  BY <1>2 DEF CopyChunk
<1>4. place \in Places /\ following \in 0 .. Total
  BY <1>1, TotalAssumption DEF Call, Places, Chunks
<1> HIDE DEF place, following
<1>5. /\ new \in Call
      /\ new.op = calls[k].op /\ new.n = following /\ new.at = place
      /\ new.whole = good /\ new.attached = calls[k].attached
  BY <1>1, <1>2, <1>4 DEF Call
<1>6. calls'[k] = new /\ \A j \in Calls : j # k => calls'[j] = calls[j]
  BY <1>3
<1>7. calls' \in [Calls -> Call]
  BY <1>3, <1>5
<1>8. QED
  BY <1>2, <1>5, <1>6, <1>7 DEF place, following

LEMMA CopyFailsEffect ==
  ASSUME calls \in [Calls -> Call], NEW k \in Calls, CopyFails(k)
  PROVE  /\ calls' \in [Calls -> Call]
         /\ \A j \in Calls : j # k => /\ calls'[j].op = calls[j].op /\ calls'[j].at = calls[j].at
                                      /\ calls'[j].n = calls[j].n /\ calls'[j].ok = calls[j].ok
                                      /\ calls'[j].whole = calls[j].whole
         /\ waiting # k => calls'[k] = Idle
         /\ waiting = k => /\ calls'[k].op = calls[k].op /\ calls'[k].n = calls[k].n
                           /\ calls'[k].at = "answered" /\ calls'[k].ok = FALSE
<1>1. \A j \in Calls : calls[j] \in Call
  OBVIOUS
<1>2. Ended(k, FALSE) \in Call
  BY <1>1, IdleType DEF Ended, Call, Places
<1>3. \A j \in Calls : [calls[j] EXCEPT !.attached = FALSE] \in Call
  BY <1>1 DEF Call
<1>4. calls' = [j \in Calls |-> IF j = k THEN Ended(k, FALSE)
                               ELSE [calls[j] EXCEPT !.attached = FALSE]]
  BY DEF CopyFails
<1>5. calls' \in [Calls -> Call]
  BY <1>2, <1>3, <1>4
<1>6. ASSUME NEW j \in Calls, j # k
      PROVE  /\ calls'[j].op = calls[j].op /\ calls'[j].at = calls[j].at
             /\ calls'[j].n = calls[j].n /\ calls'[j].ok = calls[j].ok
             /\ calls'[j].whole = calls[j].whole
  <2>1. calls'[j] = [calls[j] EXCEPT !.attached = FALSE]
    BY <1>4, <1>6
  <2>2. QED
    BY <1>1, <2>1 DEF Call
<1>7. calls'[k] = Ended(k, FALSE)
  BY <1>4
<1>8. waiting = k => /\ calls'[k].op = calls[k].op /\ calls'[k].n = calls[k].n
                     /\ calls'[k].at = "answered" /\ calls'[k].ok = FALSE
  BY <1>1, <1>7 DEF Ended, Call
<1>9. QED
  BY <1>5, <1>6, <1>7, <1>8 DEF Ended

LEMMA VerifyEffect ==
  ASSUME calls \in [Calls -> Call], NEW k \in Calls, Verify(k)
  PROVE  /\ calls' \in [Calls -> Call]
         /\ \A j \in Calls : j # k => calls'[j] = calls[j]
         /\ calls'[k].op = calls[k].op /\ calls'[k].n = 0
         /\ calls'[k].at = IF Verified(calls[k]) THEN "commit" ELSE "discard"
<1>1. calls[k] \in Call
  OBVIOUS
<1> DEFINE place == IF Verified(calls[k]) THEN "commit" ELSE "discard"
           new == [calls[k] EXCEPT !.n = 0, !.at = place]
<1>2. calls' = [calls EXCEPT ![k] = new]
  BY DEF Verify
<1>3. place \in Places
  BY DEF Places
<1> HIDE DEF place
<1>4. new \in Call /\ new.op = calls[k].op /\ new.n = 0 /\ new.at = place
  BY <1>1, <1>3, VerifiedCall
<1>5. QED
  BY <1>2, <1>4 DEF place

LEMMA RemoveEffect ==
  ASSUME calls \in [Calls -> Call], NEW k \in Calls, RemoveChunk(k)
  PROVE  /\ calls' \in [Calls -> Call]
         /\ \A j \in Calls : j # k => calls'[j] = calls[j]
         /\ calls'[k].op = calls[k].op /\ calls'[k].at = calls[k].at
         /\ calls[k].n \in Chunks
<1>1. calls[k] \in Call
  OBVIOUS
<1> DEFINE new == [calls[k] EXCEPT !.n = calls[k].n + 1]
<1>2. calls' = [calls EXCEPT ![k] = new] /\ calls[k].n < Total
  BY DEF RemoveChunk
<1>3. /\ new \in Call /\ new.op = calls[k].op /\ new.at = calls[k].at
      /\ calls[k].n \in Chunks
  BY <1>1, <1>2, TotalAssumption DEF Call, Chunks
<1>4. QED
  BY <1>2, <1>3

-----------------------------------------------------------------------------
(* Types.  A call that copies has a chunk to copy, and the device waits for *)
(* requests only.                                                          *)

CopyInv == \A k \in Calls : calls[k].at = "copy" => calls[k].n \in Chunks
WaitInv == waiting # NoCall => at \in Requests
AudioTypeInv == TypeOK /\ CopyInv /\ WaitInv

LEMMA CaseIsTyped == Init => recording \in Recordings /\ setting \in Settings
<1> SUFFICES ASSUME Init PROVE recording \in Recordings /\ setting \in Settings
  OBVIOUS
<1>1. PICK case \in Cases : recording = case[1] /\ setting = case[2]
  BY DEF Init
<1>2. case \in Recordings \X Settings
  BY CasesAssumption
<1>3. QED
  BY <1>1, <1>2

LEMMA TypeInit == Init => AudioTypeInv
<1> SUFFICES ASSUME Init PROVE AudioTypeInv
  OBVIOUS
<1>1. calls \in [Calls -> Call] /\ \A k \in Calls : calls[k].at = "start"
  BY IdleType DEF Init
<1>2. QED
  BY <1>1, CaseIsTyped, AudioBounds DEF Init, AudioTypeInv, TypeOK, CopyInv, WaitInv

LEMMA EndsTypes ==
  ASSUME AudioTypeInv, NEW k \in Calls, NEW ok \in BOOLEAN, Ends(k, ok)
  PROVE  calls' \in [Calls -> Call] /\ CopyInv'
<1>1. calls \in [Calls -> Call]
  BY DEF AudioTypeInv, TypeOK
<1>2. calls'[k].at # "copy"
  BY <1>1, EndsEffect, IdleType
<1>3. QED
  BY <1>1, <1>2, EndsEffect DEF CopyInv, AudioTypeInv, Chunks

LEMMA GoesTypes ==
  ASSUME AudioTypeInv, NEW k \in Calls, NEW place \in Places \ {"copy"}, Goes(k, place)
  PROVE  calls' \in [Calls -> Call] /\ CopyInv'
<1>1. calls \in [Calls -> Call]
  BY DEF AudioTypeInv, TypeOK
<1>2. calls'[k].at # "copy"
  BY <1>1, GoesEffect
<1>3. QED
  BY <1>1, <1>2, GoesEffect DEF CopyInv, AudioTypeInv, Chunks

LEMMA HandlerTypes ==
  ASSUME AudioTypeInv, NEW k \in Calls, Handles(k)
  PROVE  AudioTypeInv'
<1> USE DEF AudioTypeInv
<1>0. calls \in [Calls -> Call] /\ calls[k] \in Call
  BY DEF TypeOK
<1> SUFFICES calls' \in [Calls -> Call] /\ CopyInv' /\ TypeOK' /\ WaitInv'
  OBVIOUS
<1>1. CASE Initiate(k)
  <2>1. calls' \in [Calls -> Call] /\ CopyInv'
    BY <1>1, EndsTypes DEF Initiate
  <2>2. QED
    BY <1>1, <2>1 DEF Initiate, Initiated, TypeOK, WaitInv, texts, device, Chunks
<1>2. CASE ReadAsset(k)
  <2>1. NextPlace(calls[k]) \in Places \ {"copy"}
    BY <1>2 DEF ReadAsset, NextPlace, Places
  <2>2. calls' \in [Calls -> Call] /\ CopyInv'
    BY <1>2, <2>1, EndsTypes, GoesTypes DEF ReadAsset
  <2>3. QED
    BY <1>2, <2>2 DEF ReadAsset, TypeOK, WaitInv, texts, device, Chunks
<1>3. CASE Refuse(k) \/ StagingRemoved(k)
  <2>1. calls' \in [Calls -> Call] /\ CopyInv'
    BY <1>3, EndsTypes DEF Refuse, StagingRemoved
  <2>2. QED
    BY <1>3, <2>1 DEF Refuse, StagingRemoved, TypeOK, WaitInv, texts, device, Chunks
<1>4. CASE TruncateChunk(k)
  <2>1. calls' \in [Calls -> Call] /\ CopyInv'
    BY <1>4, GoesTypes DEF TruncateChunk, Places
  <2>2. staged' \in [Chunks -> {"absent", "torn", "whole"}]
    BY <1>4 DEF TruncateChunk, TypeOK
  <2>3. QED
    BY <1>4, <2>1, <2>2 DEF TruncateChunk, TypeOK, WaitInv, texts, device, Chunks
<1>5. CASE WriteChunk(k)
  <2>1. calls' \in [Calls -> Call] /\ CopyInv'
    BY <1>5, GoesTypes DEF WriteChunk, Places
  <2>2. staged' \in [Chunks -> {"absent", "torn", "whole"}]
    BY <1>5 DEF WriteChunk, Content, TypeOK
  <2>3. QED
    BY <1>5, <2>1, <2>2 DEF WriteChunk, TypeOK, WaitInv, texts, device, Chunks
<1>6. CASE UpdateChunkProgress(k)
  <2>1. calls' \in [Calls -> Call] /\ CopyInv'
    BY <1>6, EndsTypes DEF UpdateChunkProgress
  <2>2. QED
    BY <1>6, <2>1 DEF UpdateChunkProgress, TypeOK, WaitInv, texts, device, Chunks
<1>7. CASE ListStagedChunks(k)
  <2>1. calls' \in [Calls -> Call] /\ CopyInv'
    BY <1>7, GoesTypes DEF ListStagedChunks, Places
  <2>2. QED
    BY <1>7, <2>1 DEF ListStagedChunks, TypeOK, WaitInv, texts, device, Chunks
<1>8. CASE CreateFinal(k)
  <2>0. 0 \in Chunks
    BY TotalAssumption DEF Chunks
  <2>1. calls'[k].n \in Chunks
    BY <1>0, <1>8, <2>0, CreateEffect DEF Chunks
  <2>2. CopyInv'
    BY <1>0, <1>8, <2>1, CreateEffect DEF CopyInv, Chunks
  <2>3. QED
    BY <1>0, <1>8, <2>2, CreateEffect DEF CreateFinal, TypeOK, WaitInv, texts, device, Chunks
<1>9. CASE CopyChunk(k)
  <2>1. calls[k].n \in Chunks
    BY <1>9 DEF CopyChunk, Runs, CopyInv
  <2>2. calls'[k].at = "copy" => calls'[k].n \in Chunks
    BY <1>0, <1>9, <2>1, CopyEffect, TotalAssumption DEF Chunks
  <2>3. CopyInv'
    BY <1>0, <1>9, <2>1, <2>2, CopyEffect DEF CopyInv, Chunks
  <2>4. final' \subseteq Chunks
    BY <1>9, <2>1 DEF CopyChunk, Copied, TypeOK
  <2>5. calls' \in [Calls -> Call]
    BY <1>0, <1>9, <2>1, CopyEffect
  <2>6. UNCHANGED <<asset, staged, transcripts, title, at, waiting, uploaded, recording,
                    setting, faults, corrections>>
    BY <1>9 DEF CopyChunk, texts, device
  <2>7. TypeOK'
    BY <2>4, <2>5, <2>6 DEF TypeOK
  <2>8. QED
    BY <1>0, <1>9, <2>1, <2>3, <2>6, <2>7, CopyEffect DEF WaitInv
<1>10. CASE CopyFails(k)
  <2>1. calls'[k].at # "copy"
    BY <1>0, <1>10, CopyFailsEffect, IdleType
  <2>2. CopyInv'
    BY <1>0, <1>10, <2>1, CopyFailsEffect DEF CopyInv, Chunks
  <2>3. faults' \in 0 .. MaxFaults
    BY <1>10, AudioBounds DEF CopyFails, Fault, TypeOK
  <2>4. QED
    BY <1>0, <1>10, <2>2, <2>3, CopyFailsEffect DEF CopyFails, TypeOK, WaitInv, texts, device, Chunks
<1>11. CASE Verify(k)
  <2>1. CopyInv'
    BY <1>0, <1>11, VerifyEffect DEF CopyInv, Chunks
  <2>2. QED
    BY <1>0, <1>11, <2>1, VerifyEffect DEF Verify, TypeOK, WaitInv, texts, device, Chunks
<1>12. CASE Commit(k)
  <2>1. calls' \in [Calls -> Call] /\ CopyInv'
    BY <1>12, GoesTypes DEF Commit, Places
  <2>2. QED
    BY <1>12, <2>1 DEF Commit, TypeOK, WaitInv, texts, device, Chunks
<1>13. CASE RemoveChunk(k)
  <2>1. calls'[k].at # "copy"
    BY <1>0, <1>13, RemoveEffect DEF RemoveChunk
  <2>2. CopyInv'
    BY <1>0, <1>13, <2>1, RemoveEffect DEF CopyInv, Chunks
  <2>3. staged' \in [Chunks -> {"absent", "torn", "whole"}]
    BY <1>13 DEF RemoveChunk, TypeOK
  <2>4. QED
    BY <1>0, <1>13, <2>2, <2>3, RemoveEffect DEF RemoveChunk, TypeOK, WaitInv, texts, device, Chunks
<1>14. CASE Recognize(k)
  <2>1. calls' \in [Calls -> Call] /\ CopyInv'
    BY <1>14, EndsTypes, GoesTypes DEF Recognize, Places
  <2>2. QED
    BY <1>14, <2>1 DEF Recognize, TypeOK, WaitInv, texts, device, Chunks
<1>15. CASE AppendTranscript(k)
  <2>1. calls' \in [Calls -> Call] /\ CopyInv'
    BY <1>15, GoesTypes DEF AppendTranscript, Places
  <2>2. Source(calls[k]) \in {"stt", "user"}
    BY DEF Source
  <2>3. transcripts' \in Seq({"stt", "user"})
    BY <1>15, <2>2 DEF AppendTranscript, TypeOK
  <2>4. QED
    BY <1>15, <2>1, <2>3 DEF AppendTranscript, TypeOK, WaitInv, texts, device, Chunks
<1>16. CASE UpdateCardTitle(k)
  <2>1. calls' \in [Calls -> Call] /\ CopyInv'
    BY <1>16, EndsTypes DEF UpdateCardTitle
  <2>2. QED
    BY <1>16, <2>1 DEF UpdateCardTitle, Source, TypeOK, WaitInv, texts, device, Chunks
<1>17. QED
  BY <1>1, <1>2, <1>3, <1>4, <1>5, <1>6, <1>7, <1>8, <1>9, <1>10, <1>11, <1>12, <1>13,
     <1>14, <1>15, <1>16 DEF Handles

\* What the steps of the device, the user and the faults do to the calls.
LEMMA NewCallEffect ==
  ASSUME calls \in [Calls -> Call], NEW k \in Calls, NEW op \in Requests \cup {"correct"},
         NEW n \in 0 .. Total, calls' = [calls EXCEPT ![k] = Started(op, n)]
  PROVE  /\ calls' \in [Calls -> Call]
         /\ \A j \in Calls : j # k => calls'[j] = calls[j]
         /\ calls'[k].op = op /\ calls'[k].at = "start" /\ calls'[k].n = n
         /\ calls'[k].whole = TRUE
<1>1. /\ Started(op, n) \in Call
      /\ Started(op, n).op = op /\ Started(op, n).at = "start" /\ Started(op, n).n = n
      /\ Started(op, n).whole = TRUE
  BY StartedType
<1>2. calls'[k] = Started(op, n) /\ \A j \in Calls : j # k => calls'[j] = calls[j]
  OBVIOUS
<1>3. calls' \in [Calls -> Call]
  BY <1>1
<1>4. QED
  BY <1>1, <1>2, <1>3

LEMMA CrashEffect ==
  ASSUME TypeOK, ServerCrash
  PROVE  /\ calls' \in [Calls -> Call]
         /\ \A j \in Calls : calls'[j] = IF calls[j].at = "answered" THEN calls[j] ELSE Idle
BY IdleType DEF ServerCrash, TypeOK

LEMMA PassFailsEffect ==
  ASSUME TypeOK, PassFails
  PROVE  /\ calls' \in [Calls -> Call]
         /\ \A j \in Calls : calls'[j] = IF Answered /\ waiting = j THEN Idle ELSE calls[j]
<1>1. CASE Answered
  <2>1. waiting \in Calls
    BY <1>1 DEF Answered, TypeOK
  <2>2. calls' = [calls EXCEPT ![waiting] = Idle]
    BY <1>1 DEF PassFails
  <2>3. QED
    BY <1>1, <2>1, <2>2, IdleType DEF TypeOK
<1>2. CASE ~ Answered
  BY <1>2 DEF PassFails, TypeOK
<1>3. QED
  BY <1>1, <1>2

LEMMA ReceiveEffect ==
  ASSUME TypeOK, Receive
  PROVE  /\ waiting \in Calls
         /\ calls' \in [Calls -> Call]
         /\ calls'[waiting] = Idle
         /\ \A j \in Calls : j # waiting => calls'[j] = calls[j]
<1>1. waiting \in Calls
  BY DEF Receive, Answered, TypeOK
<1>2. QED
  BY <1>1, IdleType DEF Receive, TypeOK

LEMMA SendEffect ==
  ASSUME TypeOK, NEW k \in Calls, Send(k)
  PROVE  /\ calls' \in [Calls -> Call]
         /\ \A j \in Calls : j # k => calls'[j] = calls[j]
         /\ calls'[k].op = at /\ calls'[k].at = "start" /\ calls'[k].whole = TRUE
         /\ at = "chunk" => calls'[k].n \in FirstMissing
<1>1. PICK n \in IF at = "chunk" THEN FirstMissing ELSE {0} :
        calls' = [calls EXCEPT ![k] = Started(at, n)]
  BY DEF Send
<1>2. n \in 0 .. Total
  BY <1>1, TotalAssumption DEF FirstMissing, Missing, Chunks
<1>3. at \in Requests
  BY DEF Send
<1>4. /\ calls' \in [Calls -> Call]
      /\ \A j \in Calls : j # k => calls'[j] = calls[j]
      /\ calls'[k].op = at /\ calls'[k].at = "start" /\ calls'[k].n = n
      /\ calls'[k].whole = TRUE
  BY <1>1, <1>2, <1>3, NewCallEffect DEF TypeOK
<1>5. QED
  BY <1>1, <1>4

LEMMA TypeStep == AudioTypeInv /\ [Next]_vars => AudioTypeInv'
<1> SUFFICES ASSUME AudioTypeInv, [Next]_vars PROVE AudioTypeInv'
  OBVIOUS
<1> USE DEF AudioTypeInv
<1>0. calls \in [Calls -> Call]
  BY DEF TypeOK
<1>1. ASSUME NEW k \in Calls, Handles(k) PROVE AudioTypeInv'
  BY <1>1, HandlerTypes
<1>2. ASSUME NEW k \in Calls, Correct(k) PROVE AudioTypeInv'
  <2>1. 0 \in 0 .. Total /\ corrections' \in 0 .. MaxCorrections
    BY <1>2, TotalAssumption, AudioBounds DEF Correct, TypeOK
  <2>2. calls' \in [Calls -> Call] /\ CopyInv'
    BY <1>0, <1>2, <2>1, NewCallEffect DEF Correct, CopyInv, Chunks
  <2>3. QED
    BY <1>2, <2>1, <2>2 DEF Correct, TypeOK, WaitInv, texts, device, Chunks
<1>3. ASSUME NEW k \in Calls, HandlerFails(k) PROVE AudioTypeInv'
  <2>1. calls' \in [Calls -> Call] /\ CopyInv'
    BY <1>3, EndsTypes DEF HandlerFails
  <2>2. faults' \in 0 .. MaxFaults
    BY <1>3, AudioBounds DEF HandlerFails, Fault, TypeOK
  <2>3. QED
    BY <1>3, <2>1, <2>2 DEF HandlerFails, TypeOK, WaitInv, texts, device, Chunks
<1>4. CASE Begin \/ SaveTranscript \/ ApplyServerRevision
  BY <1>4 DEF Begin, SaveTranscript, ApplyServerRevision, TypeOK, CopyInv, WaitInv, texts, Chunks, Requests
<1>5. ASSUME NEW k \in Calls, Send(k) PROVE AudioTypeInv'
  <2>1. CopyInv'
    BY <1>5, SendEffect DEF CopyInv, Chunks
  <2>2. QED
    BY <1>5, <2>1, SendEffect DEF Send, TypeOK, WaitInv, texts, Chunks
<1>6. CASE Receive
  <2>1. AfterAnswer(calls[waiting].ok)
          \in Requests \cup {"rest", "keep", "save", "settle", "done"}
    BY <1>6 DEF WaitInv, Receive, Answered, AfterAnswer, AfterSuccess, AfterChunks, Requests
  <2>2. CopyInv'
    BY <1>6, ReceiveEffect, IdleType DEF CopyInv, Chunks
  <2>3. QED
    BY <1>6, <2>1, <2>2, ReceiveEffect DEF Receive, TypeOK, WaitInv, texts, Chunks
<1>7. CASE KeepProgress
  <2>1. uploaded' \subseteq Chunks
    BY <1>7 DEF KeepProgress, Sent, FirstMissing, Missing, TypeOK
  <2>2. at' \in Requests
    BY <1>7 DEF KeepProgress, AfterChunks, Requests
  <2>3. QED
    BY <1>7, <2>1, <2>2 DEF KeepProgress, TypeOK, CopyInv, WaitInv, texts, Chunks
<1>8. CASE PassFails
  <2>1. CopyInv'
    BY <1>8, PassFailsEffect, IdleType DEF CopyInv, Chunks
  <2>2. faults' \in 0 .. MaxFaults
    BY <1>8, AudioBounds DEF PassFails, Fault, TypeOK
  <2>3. QED
    BY <1>8, <2>1, <2>2, PassFailsEffect DEF PassFails, TypeOK, WaitInv, texts, Chunks
<1>9. CASE ServerCrash
  <2>1. CopyInv'
    BY <1>9, CrashEffect, IdleType DEF CopyInv, Chunks
  <2>2. faults' \in 0 .. MaxFaults
    BY <1>9, AudioBounds DEF ServerCrash, Fault, TypeOK
  <2>3. at' \in Requests \cup {"rest", "keep", "save", "settle", "done"} /\ waiting' \in Calls \cup {NoCall}
    BY <1>9 DEF ServerCrash, TypeOK
  <2>4. QED
    BY <1>9, <2>1, <2>2, <2>3, CrashEffect DEF ServerCrash, TypeOK, WaitInv, texts, Chunks
<1>10. CASE UNCHANGED vars
  BY <1>10 DEF vars, texts, device, TypeOK, CopyInv, WaitInv, Chunks
<1>11. QED
  BY <1>1, <1>2, <1>3, <1>4, <1>5, <1>6, <1>7, <1>8, <1>9, <1>10 DEF Next, Device

\* Every reachable state is well-typed, for any number of chunks and of calls
\* and whatever outlives its request.
THEOREM AudioTypes == Spec => []TypeOK
<1>1. AudioTypeInv => TypeOK
  BY DEF AudioTypeInv
<1>2. QED
  BY <1>1, TypeInit, TypeStep, PTL DEF Spec

-----------------------------------------------------------------------------
(* What holds when nothing that writes outlives its request.  OpInv: a call *)
(* is at a place of its operation.  AnswerInv: only the awaited call holds  *)
(* an answer, and it is the one the device sent.  OneUpload: one call at a  *)
(* time writes chunks or completes.  RowInv: only such a call that has      *)
(* found the asset incomplete goes on, and it removes chunks as completed   *)
(* only after the commit.  FileInv: what the call that completes has        *)
(* verified stays so until it commits.                                      *)

Sends(call) == call.op \in {"chunk", "complete"}

Fits(op, place) ==
  /\ place \in {"truncate", "write", "progress"} => op = "chunk"
  /\ place \in {"list", "create", "copy", "verify", "commit", "remove", "discard"}
       => op = "complete"
  /\ place \in {"recognize", "append"} => op = "transcribe"
  /\ place = "title" => op \in {"transcribe", "correct"}

OpInv == \A k \in Calls : Fits(calls[k].op, calls[k].at)

AnswerInv ==
  /\ \A k \in Calls : calls[k].at = "answered" => waiting = k
  /\ waiting # NoCall => calls[waiting].op = at

OneUpload == \A j, k \in Calls : Sends(calls[j]) /\ Sends(calls[k]) => j = k

ProtocolInv == OpInv /\ AnswerInv /\ OneUpload

RowInv == \A k \in Calls :
  /\ calls[k].at \in {"truncate", "write", "progress", "list", "create", "copy",
                      "verify", "commit", "discard"} => asset # "complete"
  /\ calls[k].at = "remove" => asset = "complete"

FileInv ==
  /\ CompleteKeepsAudio
  /\ staged[Total - 1] = "whole" => recording.intact
  /\ \A k \in Calls :
       /\ calls[k].at = "verify" /\ calls[k].whole => recording.intact
       /\ calls[k].at = "commit" => recording.intact /\ final = Chunks

UploadInv == ProtocolInv /\ RowInv /\ FileInv

(* SendInv: what the device and its calls know of the chunks.  StagedInv:   *)
(* chunks are whole before the device learns that they are there.  WholeInv:*)
(* completing an intact recording cannot fail for what it finds.            *)

Asked(k) ==
  /\ calls[k].op = "complete" => uploaded = Chunks
  /\ calls[k].op = "chunk" => calls[k].n \in FirstMissing

SendInv ==
  /\ at = "complete" => uploaded = Chunks
  /\ at = "keep" => \A k \in Calls : ~ Sends(calls[k])
  /\ \A k \in Calls : Asked(k)

Written(call) ==
  call.at = "progress" \/ (call.op = "chunk" /\ call.at = "answered" /\ call.ok)

StagedInv ==
  asset # "complete" /\ recording.intact =>
    /\ \A c \in uploaded : staged[c] = "whole"
    /\ at = "keep" => \A c \in FirstMissing : staged[c] = "whole"
    /\ \A k \in Calls : Written(calls[k]) => staged[calls[k].n] = "whole"

Copies(k) ==
  /\ calls[k].op = "complete" /\ calls[k].at \in {"start", "list", "create"} => calls[k].whole
  /\ recording.intact =>
       /\ calls[k].at = "copy" => /\ calls[k].attached /\ calls[k].whole
                                 /\ final = 0 .. calls[k].n - 1
       /\ calls[k].at = "verify" => calls[k].whole /\ final = Chunks
       /\ calls[k].at # "discard"

WholeInv == \A k \in Calls : Copies(k)

ChunksInv == SendInv /\ StagedInv /\ WholeInv

(* DoneInv: an answer, and what the device goes on to do, tell what has     *)
(* been stored.                                                            *)

HasStt == \E i \in DOMAIN transcripts : transcripts[i] = "stt"

Tells(k) ==
  /\ calls[k].at = "answered" /\ calls[k].ok =>
       /\ calls[k].op = "complete" => asset = "complete"
       /\ calls[k].op = "transcribe" => HasStt
  /\ calls[k].at = "title" /\ calls[k].op = "transcribe" => HasStt

DoneInv ==
  /\ at \in {"transcribe", "save", "settle", "done"} => asset = "complete"
  /\ at = "save" => HasStt
  /\ at \in {"settle", "done"} /\ recording.stt => HasStt
  /\ \A k \in Calls : Tells(k)

-----------------------------------------------------------------------------
(* Calls that end and calls that go on, for all the handlers alike         *)

OthersStay(k) == \A j \in Calls : j # k =>
  /\ calls'[j].op = calls[j].op /\ calls'[j].at = calls[j].at
  /\ calls'[j].n = calls[j].n /\ calls'[j].ok = calls[j].ok
  /\ calls'[j].whole = calls[j].whole

EndsLike(k, ok) ==
  /\ OthersStay(k)
  /\ waiting # k => calls'[k].op = "none" /\ calls'[k].at = "start"
  /\ waiting = k => /\ calls'[k].op = calls[k].op /\ calls'[k].n = calls[k].n
                    /\ calls'[k].at = "answered" /\ calls'[k].ok = ok

GoesLike(k, place) ==
  OthersStay(k) /\ calls'[k].op = calls[k].op /\ calls'[k].at = place

LEMMA EndsLikeEnds ==
  ASSUME TypeOK, NEW k \in Calls, NEW ok \in BOOLEAN, Ends(k, ok)
  PROVE  EndsLike(k, ok)
BY EndsEffect, IdleType DEF TypeOK, EndsLike, OthersStay

LEMMA CopyFailsEnds ==
  ASSUME TypeOK, NEW k \in Calls, CopyFails(k)
  PROVE  EndsLike(k, FALSE)
BY CopyFailsEffect, IdleType DEF TypeOK, EndsLike, OthersStay

LEMMA GoesLikeGoes ==
  ASSUME TypeOK, NEW k \in Calls, NEW place \in Places, Goes(k, place)
  PROVE  GoesLike(k, place) /\ calls'[k].n = calls[k].n
BY GoesEffect DEF TypeOK, GoesLike, OthersStay

LEMMA EndingProtocol ==
  ASSUME TypeOK, ProtocolInv, UNCHANGED device,
         NEW k \in Calls, NEW ok \in BOOLEAN, EndsLike(k, ok)
  PROVE  ProtocolInv'
<1>1. OpInv'
  BY DEF ProtocolInv, OpInv, Fits, EndsLike, OthersStay
<1>2. AnswerInv'
  <2>1. \A j \in Calls : calls'[j].at = "answered" => waiting = j
    BY DEF ProtocolInv, AnswerInv, EndsLike, OthersStay
  <2>2. waiting # NoCall => waiting \in Calls
    BY DEF TypeOK
  <2>3. waiting # NoCall => calls'[waiting].op = at
    BY <2>2 DEF ProtocolInv, AnswerInv, EndsLike, OthersStay
  <2>4. QED
    BY <2>1, <2>3 DEF AnswerInv, device
<1>3. OneUpload'
  BY DEF ProtocolInv, OneUpload, Sends, EndsLike, OthersStay
<1>4. QED
  BY <1>1, <1>2, <1>3 DEF ProtocolInv

LEMMA GoingProtocol ==
  ASSUME TypeOK, ProtocolInv, UNCHANGED device,
         NEW k \in Calls, NEW place, place # "answered", Fits(calls[k].op, place),
         GoesLike(k, place)
  PROVE  ProtocolInv'
<1>1. OpInv'
  BY DEF ProtocolInv, OpInv, Fits, GoesLike, OthersStay
<1>2. AnswerInv'
  <2>1. \A j \in Calls : calls'[j].at = "answered" => waiting = j
    BY DEF ProtocolInv, AnswerInv, GoesLike, OthersStay
  <2>2. waiting # NoCall => waiting \in Calls
    BY DEF TypeOK
  <2>3. waiting # NoCall => calls'[waiting].op = at
    BY <2>2 DEF ProtocolInv, AnswerInv, GoesLike, OthersStay
  <2>4. QED
    BY <2>1, <2>3 DEF AnswerInv, device
<1>3. OneUpload'
  BY DEF ProtocolInv, OneUpload, Sends, GoesLike, OthersStay
<1>4. QED
  BY <1>1, <1>2, <1>3 DEF ProtocolInv

LEMMA LikeCreate ==
  ASSUME TypeOK, NEW k \in Calls, CreateFinal(k)
  PROVE  GoesLike(k, "copy")
BY CreateEffect DEF TypeOK, GoesLike, OthersStay

LEMMA LikeVerify ==
  ASSUME TypeOK, NEW k \in Calls, Verify(k)
  PROVE  GoesLike(k, IF Verified(calls[k]) THEN "commit" ELSE "discard")
BY VerifyEffect DEF TypeOK, GoesLike, OthersStay

LEMMA LikeRemove ==
  ASSUME TypeOK, NEW k \in Calls, RemoveChunk(k)
  PROVE  GoesLike(k, calls[k].at)
BY RemoveEffect DEF TypeOK, GoesLike, OthersStay

LEMMA LikeCopy ==
  ASSUME AudioTypeInv, NEW k \in Calls, CopyChunk(k)
  PROVE  /\ calls[k].n \in Chunks
         /\ GoesLike(k, IF calls[k].n + 1 = Total THEN "verify" ELSE "copy")
<1>1. calls[k].n \in Chunks
  BY DEF CopyChunk, Runs, AudioTypeInv, CopyInv
<1>2. QED
  BY <1>1, CopyEffect DEF AudioTypeInv, TypeOK, GoesLike, OthersStay

-----------------------------------------------------------------------------
(* UploadInv is preserved                                                  *)

LEMMA UploadInit == Init => UploadInv
<1> SUFFICES ASSUME Init PROVE UploadInv
  OBVIOUS
<1>1. \A k \in Calls : calls[k].op = "none" /\ calls[k].at = "start"
  BY IdleType DEF Init
<1>2. Total - 1 \in Chunks
  BY TotalAssumption DEF Chunks
<1>3. ProtocolInv /\ RowInv
  BY <1>1 DEF Init, ProtocolInv, OpInv, Fits, AnswerInv, OneUpload, Sends, RowInv
<1>4. FileInv
  BY <1>1, <1>2 DEF Init, FileInv, CompleteKeepsAudio
<1>5. QED
  BY <1>3, <1>4 DEF UploadInv

\* A call that ends, changing neither rows nor files.
LEMMA EndingUpload ==
  ASSUME AudioTypeInv, UploadInv, UNCHANGED <<asset, staged, final, device, recording>>,
         NEW k \in Calls, NEW ok \in BOOLEAN, EndsLike(k, ok)
  PROVE  UploadInv'
<1>1. ProtocolInv'
  BY EndingProtocol DEF AudioTypeInv, UploadInv
<1>2. RowInv'
  BY DEF UploadInv, RowInv, EndsLike, OthersStay
<1>3. FileInv'
  BY DEF UploadInv, FileInv, CompleteKeepsAudio, Chunks, EndsLike, OthersStay
<1>4. QED
  BY <1>1, <1>2, <1>3 DEF UploadInv

LEMMA HandlerUpload ==
  ASSUME AudioTypeInv, UploadInv, NEW k \in Calls, Handles(k)
  PROVE  UploadInv'
<1>0. TypeOK /\ ProtocolInv /\ RowInv /\ FileInv /\ calls[k] \in Call
  BY DEF AudioTypeInv, TypeOK, UploadInv
<1> SUFFICES ProtocolInv' /\ RowInv' /\ FileInv'
  BY DEF UploadInv
<1> USE DEF Chunks
<1>1. CASE Initiate(k)
  <2>1. EndsLike(k, TRUE)
    BY <1>0, <1>1, EndsLikeEnds DEF Initiate
  <2>2. ProtocolInv'
    BY <1>0, <1>1, <2>1, EndingProtocol DEF Initiate
  <2>3. asset' = "complete" <=> asset = "complete"
    BY <1>1 DEF Initiate, Initiated
  <2>4. RowInv'
    BY <1>0, <2>1, <2>3 DEF RowInv, EndsLike, OthersStay
  <2>5. FileInv'
    BY <1>0, <1>1, <2>1, <2>3 DEF Initiate, FileInv, CompleteKeepsAudio, EndsLike, OthersStay
  <2>6. QED
    BY <2>2, <2>4, <2>5
<1>2. CASE ReadAsset(k)
  <2>1. CASE AlreadyDone(calls[k])
    <3>1. EndsLike(k, TRUE)
      BY <1>0, <1>2, <2>1, EndsLikeEnds DEF ReadAsset
    <3>2. QED
      BY <1>2, <3>1, EndingUpload DEF ReadAsset, UploadInv
  <2>2. CASE ~ AlreadyDone(calls[k])
    <3>1. PICK place \in {"truncate", "list", "recognize"} :
            /\ place = NextPlace(calls[k]) /\ Fits(calls[k].op, place)
            /\ place # "recognize" => asset # "complete"
      BY <1>2, <2>2 DEF ReadAsset, NextPlace, Fits, AlreadyDone
    <3>2. GoesLike(k, place)
      BY <1>0, <1>2, <2>2, <3>1, GoesLikeGoes DEF ReadAsset, Places
    <3>3. ProtocolInv'
      BY <1>0, <1>2, <3>1, <3>2, GoingProtocol DEF ReadAsset
    <3>4. RowInv'
      BY <1>0, <1>2, <3>1, <3>2 DEF ReadAsset, RowInv, GoesLike, OthersStay
    <3>5. FileInv'
      BY <1>0, <1>2, <3>1, <3>2 DEF ReadAsset, FileInv, CompleteKeepsAudio, GoesLike, OthersStay
    <3>6. QED
      BY <3>3, <3>4, <3>5
  <2>3. QED
    BY <2>1, <2>2
<1>3. CASE Refuse(k)
  <2>1. EndsLike(k, FALSE)
    BY <1>0, <1>3, EndsLikeEnds DEF Refuse
  <2>2. QED
    BY <1>3, <2>1, EndingUpload DEF Refuse, UploadInv
<1>4. CASE TruncateChunk(k) \/ WriteChunk(k)
  <2>1. PICK place \in {"write", "progress"} : GoesLike(k, place)
    BY <1>0, <1>4, GoesLikeGoes DEF TruncateChunk, WriteChunk, Places
  <2>2. calls[k].op = "chunk" /\ calls[k].at \in {"truncate", "write"}
    BY <1>4 DEF TruncateChunk, WriteChunk, Runs
  <2>3. ProtocolInv'
    BY <1>0, <1>4, <2>1, <2>2, GoingProtocol DEF TruncateChunk, WriteChunk, Fits
  <2>4. RowInv'
    BY <1>0, <1>4, <2>1, <2>2 DEF TruncateChunk, WriteChunk, RowInv, GoesLike, OthersStay
  <2>5. staged'[Total - 1] = "whole" => recording.intact
    <3>1. Total - 1 \in DOMAIN staged
      BY <1>0, TotalAssumption DEF TypeOK
    <3>2. CASE TruncateChunk(k)
      BY <1>0, <3>1, <3>2 DEF TruncateChunk, FileInv
    <3>3. CASE WriteChunk(k)
      BY <1>0, <3>1, <3>3 DEF WriteChunk, Content, FileInv
    <3>4. QED
      BY <1>4, <3>2, <3>3
  <2>6. FileInv'
    BY <1>0, <1>4, <2>1, <2>2, <2>5
       DEF TruncateChunk, WriteChunk, FileInv, CompleteKeepsAudio, GoesLike, OthersStay
  <2>7. QED
    BY <2>3, <2>4, <2>6
<1>5. CASE UpdateChunkProgress(k)
  <2>1. EndsLike(k, TRUE)
    BY <1>0, <1>5, EndsLikeEnds DEF UpdateChunkProgress
  <2>2. ProtocolInv'
    BY <1>0, <1>5, <2>1, EndingProtocol DEF UpdateChunkProgress
  <2>3. \A j \in Calls : calls[j].at # "remove"
    BY <1>0, <1>5 DEF UpdateChunkProgress, Runs, RowInv
  <2>4. RowInv'
    BY <1>0, <1>5, <2>1, <2>3 DEF UpdateChunkProgress, RowInv, EndsLike, OthersStay
  <2>5. FileInv'
    BY <1>0, <1>5, <2>1
       DEF UpdateChunkProgress, FileInv, CompleteKeepsAudio, EndsLike, OthersStay
  <2>6. QED
    BY <2>2, <2>4, <2>5
<1>6. CASE ListStagedChunks(k)
  <2>1. GoesLike(k, "create")
    BY <1>0, <1>6, GoesLikeGoes DEF ListStagedChunks, Places
  <2>2. ProtocolInv'
    BY <1>0, <1>6, <2>1, GoingProtocol DEF ListStagedChunks, Runs, Fits
  <2>3. RowInv'
    BY <1>0, <1>6, <2>1 DEF ListStagedChunks, Runs, RowInv, GoesLike, OthersStay
  <2>4. FileInv'
    BY <1>0, <1>6, <2>1 DEF ListStagedChunks, FileInv, CompleteKeepsAudio, GoesLike, OthersStay
  <2>5. QED
    BY <2>2, <2>3, <2>4
<1>7. CASE CreateFinal(k)
  <2>1. GoesLike(k, "copy") /\ asset # "complete" /\ Sends(calls[k])
    BY <1>0, <1>7, LikeCreate DEF CreateFinal, Runs, RowInv, Sends
  <2>2. ProtocolInv'
    BY <1>0, <1>7, <2>1, GoingProtocol DEF CreateFinal, Runs, Fits
  <2>3. RowInv'
    BY <1>0, <1>7, <2>1 DEF CreateFinal, Runs, RowInv, GoesLike, OthersStay
  <2>4. \A j \in Calls : calls'[j].at # "commit"
    BY <1>0, <2>1 DEF ProtocolInv, OneUpload, OpInv, Fits, Sends, GoesLike, OthersStay
  <2>5. FileInv'
    BY <1>0, <1>7, <2>1, <2>4 DEF CreateFinal, FileInv, CompleteKeepsAudio, GoesLike, OthersStay
  <2>6. QED
    BY <2>2, <2>3, <2>5
<1>8. CASE CopyChunk(k)
  <2>1. PICK place \in {"verify", "copy"} : GoesLike(k, place)
    BY <1>8, LikeCopy
  <2>2. asset # "complete" /\ Sends(calls[k]) /\ calls[k].op = "complete" /\ calls[k].at = "copy"
    BY <1>0, <1>8 DEF CopyChunk, Runs, RowInv, Sends
  <2>3. ProtocolInv'
    BY <1>0, <1>8, <2>1, <2>2, GoingProtocol DEF CopyChunk, Fits
  <2>4. RowInv'
    BY <1>0, <1>8, <2>1, <2>2 DEF CopyChunk, RowInv, GoesLike, OthersStay
  <2>5. \A j \in Calls : calls'[j].at # "commit"
    BY <1>0, <2>1, <2>2 DEF ProtocolInv, OneUpload, OpInv, Fits, Sends, GoesLike, OthersStay
  <2>6. calls'[k].at = "verify" /\ calls'[k].whole => recording.intact
    <3>1. calls[k].n \in Chunks /\ calls \in [Calls -> Call]
      BY <1>0, <1>8, LikeCopy DEF TypeOK
    <3>2. SUFFICES ASSUME calls'[k].at = "verify", calls'[k].whole PROVE recording.intact
      OBVIOUS
    <3>3. calls[k].n + 1 = Total /\ staged[calls[k].n] = "whole"
      BY <1>8, <3>1, <3>2, CopyEffect
    <3>4. calls[k].n = Total - 1
      BY <3>1, <3>3, TotalAssumption
    <3>5. QED
      BY <1>0, <3>3, <3>4 DEF FileInv
  <2>7. FileInv'
    BY <1>0, <1>8, <2>1, <2>2, <2>5, <2>6
       DEF CopyChunk, FileInv, CompleteKeepsAudio, GoesLike, OthersStay
  <2>8. QED
    BY <2>3, <2>4, <2>7
<1>9. CASE CopyFails(k)
  <2>1. EndsLike(k, FALSE)
    BY <1>0, <1>9, CopyFailsEnds
  <2>2. asset # "complete" /\ Sends(calls[k])
    BY <1>0, <1>9 DEF CopyFails, Runs, RowInv, Sends
  <2>3. ProtocolInv'
    BY <1>0, <1>9, <2>1, EndingProtocol DEF CopyFails
  <2>4. RowInv'
    BY <1>0, <1>9, <2>1 DEF CopyFails, RowInv, EndsLike, OthersStay
  <2>5. \A j \in Calls : calls'[j].at # "commit"
    BY <1>0, <2>1, <2>2 DEF ProtocolInv, OneUpload, OpInv, Fits, Sends, EndsLike, OthersStay
  <2>6. FileInv'
    BY <1>0, <1>9, <2>1, <2>2, <2>5
       DEF CopyFails, FileInv, CompleteKeepsAudio, EndsLike, OthersStay
  <2>7. QED
    BY <2>3, <2>4, <2>6
<1>10. CASE Verify(k)
  <2>1. PICK place \in {"commit", "discard"} :
          GoesLike(k, place) /\ (place = "commit" => Verified(calls[k]))
    BY <1>0, <1>10, LikeVerify
  <2>2. calls[k].op = "complete" /\ calls[k].at = "verify" /\ asset # "complete"
    BY <1>0, <1>10 DEF Verify, Runs, RowInv
  <2>3. ProtocolInv'
    BY <1>0, <1>10, <2>1, <2>2, GoingProtocol DEF Verify, Fits
  <2>4. RowInv'
    BY <1>0, <1>10, <2>1, <2>2 DEF Verify, RowInv, GoesLike, OthersStay
  <2>5. place = "commit" => recording.intact /\ final = Chunks
    BY <1>0, <2>1, <2>2 DEF FileInv, Verified
  <2>6. FileInv'
    BY <1>0, <1>10, <2>1, <2>2, <2>5
       DEF Verify, FileInv, CompleteKeepsAudio, GoesLike, OthersStay
  <2>7. QED
    BY <2>3, <2>4, <2>6
<1>11. CASE Commit(k)
  <2>1. GoesLike(k, "remove")
    BY <1>0, <1>11, GoesLikeGoes DEF Commit, Places
  <2>2. calls[k].op = "complete" /\ recording.intact /\ final = Chunks
    BY <1>0, <1>11 DEF Commit, Runs, FileInv
  <2>3. ProtocolInv'
    BY <1>0, <1>11, <2>1, <2>2, GoingProtocol DEF Commit, Fits
  <2>4. \A j \in Calls : j # k => ~ Sends(calls[j])
    BY <1>0, <2>2 DEF ProtocolInv, OneUpload, Sends
  <2>5. RowInv'
    BY <1>0, <1>11, <2>1, <2>4
       DEF Commit, RowInv, ProtocolInv, OpInv, Fits, Sends, GoesLike, OthersStay
  <2>6. FileInv'
    BY <1>0, <1>11, <2>1, <2>2 DEF Commit, FileInv, CompleteKeepsAudio, GoesLike, OthersStay
  <2>7. QED
    BY <2>3, <2>5, <2>6
<1>12. CASE RemoveChunk(k)
  <2>1. GoesLike(k, calls[k].at) /\ calls[k].at \in {"remove", "discard"}
    BY <1>0, <1>12, LikeRemove DEF RemoveChunk
  <2>2. ProtocolInv'
    BY <1>0, <1>12, <2>1, GoingProtocol DEF RemoveChunk, ProtocolInv, OpInv
  <2>3. RowInv'
    BY <1>0, <1>12, <2>1 DEF RemoveChunk, RowInv, GoesLike, OthersStay
  <2>4. staged'[Total - 1] = "whole" => recording.intact
    BY <1>0, <1>12 DEF RemoveChunk, FileInv, TypeOK
  <2>5. FileInv'
    BY <1>0, <1>12, <2>1, <2>4
       DEF RemoveChunk, FileInv, CompleteKeepsAudio, GoesLike, OthersStay
  <2>6. QED
    BY <2>2, <2>3, <2>5
<1>13. CASE StagingRemoved(k)
  <2>1. PICK ok \in BOOLEAN : EndsLike(k, ok)
    BY <1>0, <1>13, EndsLikeEnds DEF StagingRemoved
  <2>2. QED
    BY <1>13, <2>1, EndingUpload DEF StagingRemoved, UploadInv
<1>14. CASE Recognize(k)
  <2>1. CASE ProviderReads = {} \/ ~ recording.audible
    <3>1. EndsLike(k, FALSE)
      BY <1>0, <1>14, <2>1, EndsLikeEnds DEF Recognize
    <3>2. QED
      BY <1>14, <3>1, EndingUpload DEF Recognize, UploadInv
  <2>2. CASE ~ (ProviderReads = {} \/ ~ recording.audible)
    <3>1. GoesLike(k, "append")
      BY <1>0, <1>14, <2>2, GoesLikeGoes DEF Recognize, Places
    <3>2. ProtocolInv'
      BY <1>0, <1>14, <3>1, GoingProtocol DEF Recognize, Runs, Fits
    <3>3. RowInv' /\ FileInv'
      BY <1>0, <1>14, <3>1
         DEF Recognize, RowInv, FileInv, CompleteKeepsAudio, GoesLike, OthersStay
    <3>4. QED
      BY <3>2, <3>3
  <2>3. QED
    BY <2>1, <2>2
<1>15. CASE AppendTranscript(k)
  <2>1. GoesLike(k, "title")
    BY <1>0, <1>15, GoesLikeGoes DEF AppendTranscript, Places
  <2>2. ProtocolInv'
    BY <1>0, <1>15, <2>1, GoingProtocol DEF AppendTranscript, Runs, Fits
  <2>3. RowInv' /\ FileInv'
    BY <1>0, <1>15, <2>1
       DEF AppendTranscript, RowInv, FileInv, CompleteKeepsAudio, GoesLike, OthersStay
  <2>4. QED
    BY <2>2, <2>3
<1>16. CASE UpdateCardTitle(k)
  <2>1. EndsLike(k, TRUE)
    BY <1>0, <1>16, EndsLikeEnds DEF UpdateCardTitle
  <2>2. QED
    BY <1>16, <2>1, EndingUpload DEF UpdateCardTitle, UploadInv
<1>17. QED
  BY <1>1, <1>2, <1>3, <1>4, <1>5, <1>6, <1>7, <1>8, <1>9, <1>10, <1>11, <1>12, <1>13,
     <1>14, <1>15, <1>16 DEF Handles

\* What the device does, and what stops, changes neither rows nor files, and
\* leaves a call as it is or with nothing done.
LEMMA RestUpload ==
  ASSUME UploadInv, UNCHANGED <<asset, staged, final, recording>>,
         \A j \in Calls : calls'[j] = calls[j] \/ calls'[j].at = "start"
  PROVE  RowInv' /\ FileInv'
<1>1. RowInv'
  BY DEF UploadInv, RowInv
<1>2. FileInv'
  BY DEF UploadInv, FileInv, CompleteKeepsAudio, Chunks
<1>3. QED
  BY <1>1, <1>2

\* A call is there for what the device waits for, or it waits for none.
LEMMA NothingAwaited ==
  ASSUME TypeOK, AnswerInv, at \notin Requests
  PROVE  waiting = NoCall
BY DEF TypeOK, AnswerInv, Call, Requests

LEMMA DeviceUpload ==
  ASSUME NothingOverlaps, AudioTypeInv, UploadInv, Device
  PROVE  UploadInv'
<1>0. TypeOK /\ ProtocolInv /\ OpInv /\ AnswerInv /\ OneUpload
  BY DEF AudioTypeInv, UploadInv, ProtocolInv
<1> SUFFICES ProtocolInv' /\ RowInv' /\ FileInv'
  BY DEF UploadInv
<1>1. CASE Begin \/ KeepProgress \/ SaveTranscript \/ ApplyServerRevision
  <2>1. waiting = NoCall /\ waiting' = NoCall /\ calls' = calls
    BY <1>0, <1>1, NothingAwaited
       DEF Begin, KeepProgress, SaveTranscript, ApplyServerRevision, Requests
  <2>2. ProtocolInv'
    BY <1>0, <2>1 DEF ProtocolInv, OpInv, AnswerInv, OneUpload
  <2>3. RowInv' /\ FileInv'
    BY <1>1, <2>1, RestUpload DEF Begin, KeepProgress, SaveTranscript, ApplyServerRevision
  <2>4. QED
    BY <2>2, <2>3
<1>2. ASSUME NEW k \in Calls, Send(k) PROVE ProtocolInv' /\ RowInv' /\ FileInv'
  <2>1. /\ \A j \in Calls : j # k => calls'[j] = calls[j]
        /\ calls'[k].op = at /\ calls'[k].at = "start"
        /\ waiting = NoCall /\ waiting' = k /\ at' = at
    BY <1>0, <1>2, SendEffect DEF Send
  <2>2. OpInv'
    BY <1>0, <2>1 DEF OpInv, Fits
  <2>3. AnswerInv'
    BY <1>0, <2>1, CallsAssumption DEF AnswerInv
  <2>4. \A j \in Calls : ~ Sends(calls[j])
    BY <1>2 DEF Send, NothingOverlaps, Sends
  <2>5. OneUpload'
    BY <2>1, <2>4 DEF OneUpload, Sends
  <2>6. RowInv' /\ FileInv'
    BY <1>2, <2>1, RestUpload DEF Send
  <2>7. QED
    BY <2>2, <2>3, <2>5, <2>6 DEF ProtocolInv
<1>3. CASE Receive
  <2>1. /\ waiting \in Calls /\ waiting' = NoCall
        /\ calls'[waiting] = Idle
        /\ \A j \in Calls : j # waiting => calls'[j] = calls[j]
    BY <1>0, <1>3, ReceiveEffect DEF Receive
  <2>2. OpInv'
    BY <1>0, <2>1, IdleType DEF OpInv, Fits
  <2>3. AnswerInv'
    BY <1>0, <2>1, IdleType DEF AnswerInv
  <2>4. OneUpload'
    BY <1>0, <2>1, IdleType DEF OneUpload, Sends
  <2>5. RowInv' /\ FileInv'
    BY <1>3, <2>1, IdleType, RestUpload DEF Receive
  <2>6. QED
    BY <2>2, <2>3, <2>4, <2>5 DEF ProtocolInv
<1>4. QED
  BY <1>1, <1>2, <1>3 DEF Device

LEMMA UploadStep == NothingOverlaps /\ AudioTypeInv /\ UploadInv /\ [Next]_vars => UploadInv'
<1> SUFFICES ASSUME NothingOverlaps, AudioTypeInv, UploadInv, [Next]_vars PROVE UploadInv'
  OBVIOUS
<1>0. TypeOK /\ ProtocolInv /\ OpInv /\ AnswerInv /\ OneUpload
  BY DEF AudioTypeInv, UploadInv, ProtocolInv
<1>1. ASSUME NEW k \in Calls, Handles(k) PROVE UploadInv'
  BY <1>1, HandlerUpload
<1>2. ASSUME NEW k \in Calls, HandlerFails(k) PROVE UploadInv'
  <2>1. PICK ok \in BOOLEAN : EndsLike(k, ok)
    BY <1>0, <1>2, EndsLikeEnds DEF HandlerFails
  <2>2. QED
    BY <1>2, <2>1, EndingUpload DEF HandlerFails
<1>3. ASSUME NEW k \in Calls, Correct(k) PROVE UploadInv'
  <2>1. /\ calls[k].op = "none" /\ calls'[k].op = "correct" /\ calls'[k].at = "start"
        /\ \A j \in Calls : j # k => calls'[j] = calls[j]
    <3>1. 0 \in 0 .. Total
      BY TotalAssumption
    <3>2. QED
      BY <1>0, <1>3, <3>1, IdleType, NewCallEffect DEF Correct, TypeOK
  <2>2. waiting # k
    BY <1>0, <2>1, NothingAwaited, CallsAssumption DEF AnswerInv, Requests
  <2>3. OpInv'
    BY <1>0, <2>1 DEF OpInv, Fits
  <2>4. AnswerInv'
    <3>1. waiting # NoCall => waiting \in Calls
      BY <1>0 DEF TypeOK
    <3>2. QED
      BY <1>0, <1>3, <2>1, <2>2, <3>1 DEF Correct, device, AnswerInv
  <2>5. OneUpload'
    BY <1>0, <2>1 DEF OneUpload, Sends
  <2>6. RowInv' /\ FileInv'
    BY <1>3, <2>1, RestUpload DEF Correct
  <2>7. QED
    BY <2>3, <2>4, <2>5, <2>6 DEF UploadInv, ProtocolInv
<1>4. CASE Device
  BY <1>4, DeviceUpload
<1>5. CASE PassFails
  <2>1. \A j \in Calls : calls'[j] = IF Answered /\ waiting = j THEN Idle ELSE calls[j]
    BY <1>0, <1>5, PassFailsEffect
  <2>2. \A j \in Calls : calls'[j] = Idle \/ (calls'[j] = calls[j] /\ calls[j].at # "answered")
    BY <1>0, <2>1, CallsAssumption DEF AnswerInv, Answered
  <2>3. ProtocolInv'
    BY <1>0, <1>5, <2>2, IdleType
       DEF PassFails, ProtocolInv, OpInv, Fits, AnswerInv, OneUpload, Sends
  <2>4. RowInv' /\ FileInv'
    BY <1>5, <2>2, IdleType, RestUpload DEF PassFails
  <2>5. QED
    BY <2>3, <2>4 DEF UploadInv
<1>6. CASE ServerCrash
  <2>1. \A j \in Calls : calls'[j] = IF calls[j].at = "answered" THEN calls[j] ELSE Idle
    BY <1>0, <1>6, CrashEffect
  <2>2. OpInv'
    BY <1>0, <2>1, IdleType DEF OpInv, Fits
  <2>3. AnswerInv'
    <3>1. waiting # NoCall => waiting \in Calls
      BY <1>0 DEF TypeOK
    <3>2. CASE waiting = NoCall \/ Answered
      BY <1>0, <1>6, <2>1, <3>1, <3>2, IdleType DEF ServerCrash, AnswerInv, Answered
    <3>3. CASE waiting # NoCall /\ ~ Answered
      BY <1>0, <1>6, <2>1, <3>3, IdleType DEF ServerCrash, AnswerInv, Answered
    <3>4. QED
      BY <3>2, <3>3
  <2>4. OneUpload'
    BY <1>0, <2>1, IdleType DEF OneUpload, Sends
  <2>5. RowInv' /\ FileInv'
    BY <1>6, <2>1, IdleType, RestUpload DEF ServerCrash
  <2>6. QED
    BY <2>2, <2>3, <2>4, <2>5 DEF UploadInv, ProtocolInv
<1>7. CASE UNCHANGED vars
  BY <1>7 DEF vars, device, UploadInv, ProtocolInv, OpInv, AnswerInv, OneUpload, RowInv, FileInv,
              CompleteKeepsAudio, Chunks
<1>8. QED
  BY <1>1, <1>2, <1>3, <1>4, <1>5, <1>6, <1>7 DEF Next

\* When neither a completion nor a chunk outlives its request, an asset that the
\* row calls complete has its whole audio, for any number of chunks and of
\* calls, whatever fails, stops or is sent again.
THEOREM CompleteAudioIsKept ==
  ASSUME NothingOverlaps
  PROVE  Spec => []CompleteKeepsAudio
<1>1. AudioTypeInv /\ UploadInv /\ [Next]_vars => UploadInv'
  BY UploadStep
<1>2. UploadInv => CompleteKeepsAudio
  BY DEF UploadInv, FileInv
<1>3. QED
  BY <1>1, <1>2, TypeInit, UploadInit, TypeStep, PTL DEF Spec

-----------------------------------------------------------------------------
(* DoneInv is preserved                                                    *)

LEMMA DoneInit == Init => DoneInv
<1> SUFFICES ASSUME Init PROVE DoneInv
  OBVIOUS
<1>1. \A k \in Calls : calls[k].at = "start"
  BY IdleType DEF Init
<1>2. QED
  BY <1>1 DEF Init, DoneInv, Tells

LEMMA EndingDone ==
  ASSUME DoneInv, UNCHANGED <<at, recording>>,
         asset = "complete" => asset' = "complete", HasStt => HasStt',
         NEW k \in Calls, NEW ok \in BOOLEAN, EndsLike(k, ok),
         ok => /\ calls[k].op = "complete" => asset' = "complete"
               /\ calls[k].op = "transcribe" => HasStt'
  PROVE  DoneInv'
<1>1. Tells(k)'
  BY DEF Tells, EndsLike
<1>2. ASSUME NEW j \in Calls, j # k PROVE Tells(j)'
  BY <1>2 DEF DoneInv, Tells, EndsLike, OthersStay
<1>3. QED
  BY <1>1, <1>2 DEF DoneInv

LEMMA GoingDone ==
  ASSUME DoneInv, UNCHANGED <<at, recording>>,
         asset = "complete" => asset' = "complete", HasStt => HasStt',
         NEW k \in Calls, NEW place, place # "answered", GoesLike(k, place),
         place = "title" /\ calls[k].op = "transcribe" => HasStt'
  PROVE  DoneInv'
<1>1. Tells(k)'
  BY DEF Tells, GoesLike
<1>2. ASSUME NEW j \in Calls, j # k PROVE Tells(j)'
  BY <1>2 DEF DoneInv, Tells, GoesLike, OthersStay
<1>3. QED
  BY <1>1, <1>2 DEF DoneInv

LEMMA AppendKeeps ==
  ASSUME TypeOK, NEW s \in {"stt", "user"}, transcripts' = Append(transcripts, s)
  PROVE  /\ HasStt => HasStt'
         /\ s = "stt" => HasStt'
<1>1. /\ DOMAIN transcripts = 1 .. Len(transcripts) /\ Len(transcripts) \in Nat
      /\ DOMAIN transcripts' = 1 .. Len(transcripts) + 1
      /\ transcripts'[Len(transcripts) + 1] = s
      /\ \A i \in 1 .. Len(transcripts) : transcripts'[i] = transcripts[i]
  BY DEF TypeOK
<1>2. QED
  BY <1>1 DEF HasStt

\* What is stored stays stored: a handler finds the asset incomplete before it
\* writes the row, and transcripts are only appended.
LEMMA HandlerKeeps ==
  ASSUME TypeOK, RowInv, NEW k \in Calls, Handles(k)
  PROVE  /\ UNCHANGED <<device, recording>>
         /\ asset = "complete" => asset' = "complete"
         /\ HasStt => HasStt'
<1>1. UNCHANGED <<device, recording>>
  BY DEF Handles, Initiate, ReadAsset, Refuse, TruncateChunk, WriteChunk,
         UpdateChunkProgress, ListStagedChunks, CreateFinal, CopyChunk, CopyFails, Verify,
         Commit, RemoveChunk, StagingRemoved, Recognize, AppendTranscript, UpdateCardTitle
<1>2. CASE Initiate(k) \/ UpdateChunkProgress(k) \/ Commit(k)
  BY <1>1, <1>2 DEF Initiate, Initiated, UpdateChunkProgress, Runs, RowInv, Commit, texts, HasStt
<1>3. CASE AppendTranscript(k)
  <2>1. Source(calls[k]) \in {"stt", "user"}
    BY DEF Source
  <2>2. QED
    BY <1>1, <1>3, <2>1, AppendKeeps DEF AppendTranscript
<1>4. CASE ReadAsset(k) \/ Refuse(k) \/ TruncateChunk(k) \/ WriteChunk(k) \/ ListStagedChunks(k)
           \/ CreateFinal(k) \/ CopyChunk(k) \/ CopyFails(k) \/ Verify(k) \/ RemoveChunk(k)
           \/ StagingRemoved(k) \/ Recognize(k) \/ UpdateCardTitle(k)
  BY <1>1, <1>4 DEF ReadAsset, Refuse, TruncateChunk, WriteChunk, ListStagedChunks, CreateFinal,
         CopyChunk, CopyFails, Verify, RemoveChunk, StagingRemoved, Recognize, UpdateCardTitle,
         texts, HasStt
<1>5. QED
  BY <1>2, <1>3, <1>4 DEF Handles

LEMMA HandlerDone ==
  ASSUME AudioTypeInv, UploadInv, DoneInv, NEW k \in Calls, Handles(k)
  PROVE  DoneInv'
<1>0. TypeOK /\ OpInv /\ RowInv /\ calls[k] \in Call
  BY DEF AudioTypeInv, TypeOK, UploadInv, ProtocolInv
<1>1. /\ UNCHANGED <<at, recording>>
      /\ asset = "complete" => asset' = "complete"
      /\ HasStt => HasStt'
  BY <1>0, HandlerKeeps DEF device
<1>2. CASE Initiate(k) \/ UpdateChunkProgress(k)
  <2>1. EndsLike(k, TRUE) /\ calls[k].op \notin {"complete", "transcribe"}
    BY <1>0, <1>2, EndsLikeEnds DEF Initiate, UpdateChunkProgress, Runs
  <2>2. QED
    BY <1>1, <2>1, EndingDone
<1>3. CASE ReadAsset(k)
  <2>1. CASE AlreadyDone(calls[k])
    <3>1. EndsLike(k, TRUE) /\ calls[k].op # "transcribe" /\ asset = "complete"
      BY <1>0, <1>3, <2>1, EndsLikeEnds DEF ReadAsset, AlreadyDone
    <3>2. QED
      BY <1>1, <3>1, EndingDone
  <2>2. CASE ~ AlreadyDone(calls[k])
    <3>1. PICK place \in {"truncate", "list", "recognize"} : GoesLike(k, place)
      BY <1>0, <1>3, <2>2, GoesLikeGoes DEF ReadAsset, NextPlace, Places
    <3>2. QED
      BY <1>1, <3>1, GoingDone
  <2>3. QED
    BY <2>1, <2>2
<1>4. CASE Refuse(k) \/ CopyFails(k)
  <2>1. EndsLike(k, FALSE)
    BY <1>0, <1>4, EndsLikeEnds, CopyFailsEnds DEF Refuse
  <2>2. QED
    BY <1>1, <2>1, EndingDone
<1>5. CASE TruncateChunk(k) \/ WriteChunk(k) \/ ListStagedChunks(k) \/ CreateFinal(k)
           \/ CopyChunk(k) \/ Verify(k) \/ Commit(k) \/ RemoveChunk(k)
  <2>1. PICK place \in Places \ {"answered", "title"} : GoesLike(k, place)
    <3>1. CASE TruncateChunk(k) \/ WriteChunk(k) \/ ListStagedChunks(k) \/ Commit(k)
      BY <1>0, <3>1, GoesLikeGoes DEF TruncateChunk, WriteChunk, ListStagedChunks, Commit, Places
    <3>2. CASE CreateFinal(k) \/ CopyChunk(k) \/ Verify(k)
      BY <1>0, <3>2, LikeCreate, LikeCopy, LikeVerify DEF Places
    <3>3. CASE RemoveChunk(k)
      BY <1>0, <3>3, LikeRemove DEF RemoveChunk, Places
    <3>4. QED
      BY <1>5, <3>1, <3>2, <3>3
  <2>2. QED
    BY <1>1, <2>1, GoingDone
<1>6. CASE StagingRemoved(k)
  <2>1. PICK ok \in BOOLEAN : EndsLike(k, ok) /\ (ok => calls[k].at = "remove")
    BY <1>0, <1>6, EndsLikeEnds DEF StagingRemoved
  <2>2. calls[k].op = "complete"
    BY <1>0, <1>6 DEF StagingRemoved, OpInv, Fits
  <2>3. ok => asset = "complete"
    BY <1>0, <2>1 DEF RowInv
  <2>4. QED
    BY <1>1, <2>1, <2>2, <2>3, EndingDone
<1>7. CASE Recognize(k)
  <2>1. EndsLike(k, FALSE) \/ GoesLike(k, "append")
    BY <1>0, <1>7, EndsLikeEnds, GoesLikeGoes DEF Recognize, Places
  <2>2. QED
    BY <1>1, <2>1, EndingDone, GoingDone
<1>8. CASE AppendTranscript(k)
  <2>1. GoesLike(k, "title")
    BY <1>0, <1>8, GoesLikeGoes DEF AppendTranscript, Places
  <2>2. calls[k].op = "transcribe" => HasStt'
    BY <1>0, <1>8, AppendKeeps DEF AppendTranscript, Source
  <2>3. QED
    BY <1>1, <2>1, <2>2, GoingDone
<1>9. CASE UpdateCardTitle(k)
  <2>1. EndsLike(k, TRUE) /\ calls[k].op # "complete" /\ (calls[k].op = "transcribe" => HasStt)
    BY <1>0, <1>9, EndsLikeEnds DEF UpdateCardTitle, OpInv, Fits, DoneInv, Tells
  <2>2. QED
    BY <1>1, <2>1, EndingDone
<1>10. QED
  BY <1>2, <1>3, <1>4, <1>5, <1>6, <1>7, <1>8, <1>9 DEF Handles

LEMMA DoneStep == AudioTypeInv /\ UploadInv /\ DoneInv /\ [Next]_vars => DoneInv'
<1> SUFFICES ASSUME AudioTypeInv, UploadInv, DoneInv, [Next]_vars PROVE DoneInv'
  OBVIOUS
<1>0. TypeOK /\ OpInv /\ AnswerInv /\ RowInv
  BY DEF AudioTypeInv, UploadInv, ProtocolInv
<1>1. ASSUME NEW k \in Calls, Handles(k) PROVE DoneInv'
  BY <1>1, HandlerDone
<1>2. ASSUME NEW k \in Calls, HandlerFails(k) PROVE DoneInv'
  <2>1. PICK ok \in BOOLEAN : EndsLike(k, ok) /\ (ok => calls[k].at \in {"remove", "title"})
    BY <1>0, <1>2, EndsLikeEnds DEF HandlerFails
  <2>2. UNCHANGED <<at, recording, asset>> /\ HasStt' = HasStt
    BY <1>2 DEF HandlerFails, device, texts, HasStt
  <2>3. ok => /\ calls[k].op = "complete" => asset = "complete"
              /\ calls[k].op = "transcribe" => HasStt
    BY <1>0, <2>1 DEF RowInv, OpInv, Fits, DoneInv, Tells
  <2>4. QED
    BY <2>1, <2>2, <2>3, EndingDone
<1>3. ASSUME UNCHANGED <<asset, recording>>, HasStt' = HasStt,
             \A j \in Calls : calls'[j] = calls[j] \/ calls'[j].at = "start"
      PROVE  \A j \in Calls : Tells(j)'
  BY <1>3 DEF DoneInv, Tells
<1>4. ASSUME NEW k \in Calls, Correct(k) \/ Send(k) PROVE DoneInv'
  <2>1. /\ UNCHANGED <<at, asset, recording>>
        /\ \A j \in Calls : calls'[j] = calls[j] \/ calls'[j].at = "start"
        /\ HasStt' = HasStt
    <3>1. CASE Correct(k)
      <4>1. 0 \in 0 .. Total
        BY TotalAssumption
      <4>2. \A j \in Calls : calls'[j] = calls[j] \/ calls'[j].at = "start"
        BY <1>0, <3>1, <4>1, NewCallEffect DEF Correct, TypeOK
      <4>3. QED
        BY <3>1, <4>2 DEF Correct, device, texts, HasStt
    <3>2. CASE Send(k)
      <4>1. \A j \in Calls : calls'[j] = calls[j] \/ calls'[j].at = "start"
        BY <1>0, <3>2, SendEffect
      <4>2. QED
        BY <3>2, <4>1 DEF Send, texts, HasStt
    <3>3. QED
      BY <1>4, <3>1, <3>2
  <2>2. \A j \in Calls : Tells(j)'
    BY <1>3, <2>1
  <2>3. QED
    BY <2>1, <2>2 DEF DoneInv
<1>5. CASE Begin \/ KeepProgress \/ SaveTranscript \/ ApplyServerRevision
  <2>1. UNCHANGED <<asset, recording, calls>> /\ HasStt' = HasStt
    BY <1>5 DEF Begin, KeepProgress, SaveTranscript, ApplyServerRevision, texts, HasStt
  <2>2. \A j \in Calls : Tells(j)'
    BY <1>3, <2>1
  <2>3. QED
    BY <1>5, <2>1, <2>2
       DEF DoneInv, Begin, KeepProgress, AfterChunks, SaveTranscript, ApplyServerRevision
<1>6. CASE Receive
  <2>1. /\ waiting \in Calls /\ waiting # NoCall /\ at \in Requests
        /\ calls'[waiting] = Idle
        /\ \A j \in Calls : j # waiting => calls'[j] = calls[j]
    BY <1>0, <1>6, ReceiveEffect, CallsAssumption DEF AudioTypeInv, WaitInv
  <2>2. UNCHANGED <<asset, recording>> /\ HasStt' = HasStt
    BY <1>6 DEF Receive, texts, HasStt
  <2>3. \A j \in Calls : Tells(j)'
    BY <1>3, <2>1, <2>2, IdleType
  <2>4. calls[waiting].op = at /\ calls[waiting].at = "answered" /\ Tells(waiting)
    BY <1>0, <1>6, <2>1 DEF AnswerInv, Receive, Answered, DoneInv
  <2>5. at' = AfterAnswer(calls[waiting].ok)
    BY <1>6 DEF Receive
  <2>6. CASE ~ calls[waiting].ok
    BY <2>2, <2>3, <2>5, <2>6 DEF AfterAnswer, DoneInv
  <2>7. CASE calls[waiting].ok
    BY <2>1, <2>2, <2>3, <2>4, <2>5, <2>7 DEF AfterAnswer, AfterSuccess, AfterChunks, Requests, DoneInv, Tells
  <2>8. QED
    BY <2>6, <2>7
<1>7. CASE PassFails
  <2>1. UNCHANGED <<asset, recording>> /\ HasStt' = HasStt /\ at' = "rest"
    BY <1>7 DEF PassFails, texts, HasStt
  <2>2. \A j \in Calls : Tells(j)'
    BY <1>0, <1>3, <1>7, <2>1, PassFailsEffect, IdleType
  <2>3. QED
    BY <2>1, <2>2 DEF DoneInv
<1>8. CASE ServerCrash
  <2>1. UNCHANGED <<asset, recording>> /\ HasStt' = HasStt /\ at' \in {at, "rest"}
    BY <1>8 DEF ServerCrash, texts, HasStt
  <2>2. \A j \in Calls : Tells(j)'
    BY <1>0, <1>3, <1>8, <2>1, CrashEffect, IdleType
  <2>3. QED
    BY <2>1, <2>2 DEF DoneInv
<1>9. CASE UNCHANGED vars
  BY <1>9 DEF vars, device, texts, DoneInv, Tells, HasStt
<1>10. QED
  BY <1>1, <1>2, <1>4, <1>5, <1>6, <1>7, <1>8, <1>9 DEF Next, Device

\* When neither a completion nor a chunk outlives its request, the app is through
\* with a recording only when the server has stored it and, if wanted, what the
\* recognizer made of it.
THEOREM DoneIsStored ==
  ASSUME NothingOverlaps
  PROVE  Spec => []DoneMeansStored
<1>1. AudioTypeInv /\ UploadInv /\ [Next]_vars => UploadInv'
  BY UploadStep
<1>2. DoneInv => DoneMeansStored
  BY DEF DoneInv, DoneMeansStored, HasStt
<1>3. QED
  BY <1>1, <1>2, TypeInit, UploadInit, DoneInit, TypeStep, DoneStep, PTL DEF Spec

-----------------------------------------------------------------------------
(* ChunksInv is preserved                                                  *)

LEMMA ChunksInit == Init => ChunksInv
<1> SUFFICES ASSUME Init PROVE ChunksInv
  OBVIOUS
<1>1. \A k \in Calls : calls[k].op = "none" /\ calls[k].at = "start"
  BY IdleType DEF Init
<1>2. QED
  BY <1>1 DEF Init, ChunksInv, SendInv, Asked, Sends, StagedInv, Written, WholeInv, Copies

\* A call that has written nothing, and has nothing to copy.
Quiet(k) ==
  /\ \A j \in Calls : j # k => calls'[j] = calls[j]
  /\ \/ calls'[k].op = "none" /\ calls'[k].at = "start"
     \/ /\ calls'[k].op = calls[k].op /\ calls'[k].n = calls[k].n
        /\ calls'[k].at \notin {"start", "copy", "verify", "discard"}
        /\ calls'[k].at \in {"list", "create"} =>
             calls[k].at \in {"start", "list"} /\ calls'[k].whole = calls[k].whole
        /\ Written(calls'[k]) => Written(calls[k]) \/ asset' = "complete"

LEMMA QuietChunks ==
  ASSUME ChunksInv, UNCHANGED <<staged, final, at, uploaded, recording>>,
         asset = "complete" => asset' = "complete",
         NEW k \in Calls, Quiet(k)
  PROVE  ChunksInv'
<1>1. FirstMissing' = FirstMissing /\ Chunks' = Chunks
  BY DEF FirstMissing, Missing, Chunks
<1>2. SendInv'
  <2>1. Asked(k)' /\ (Sends(calls'[k]) => Sends(calls[k]))
    BY <1>1 DEF ChunksInv, SendInv, Asked, Sends, Quiet
  <2>2. \A j \in Calls : j # k => Asked(j)'
    BY <1>1 DEF ChunksInv, SendInv, Asked, Quiet
  <2>3. QED
    BY <1>1, <2>1, <2>2 DEF ChunksInv, SendInv, Quiet
<1>3. StagedInv'
  <2>1. SUFFICES ASSUME asset' # "complete", recording.intact PROVE StagedInv'
    BY DEF StagedInv
  <2>2. Written(calls'[k]) => staged[calls'[k].n] = "whole"
    BY <2>1 DEF ChunksInv, StagedInv, Written, Quiet
  <2>3. \A j \in Calls : Written(calls'[j]) => staged'[calls'[j].n] = "whole"
    BY <2>1, <2>2 DEF ChunksInv, StagedInv, Quiet
  <2>4. QED
    BY <1>1, <2>1, <2>3 DEF ChunksInv, StagedInv
<1>4. WholeInv'
  <2>1. Copies(k)'
    BY DEF ChunksInv, WholeInv, Copies, Quiet
  <2>2. \A j \in Calls : j # k => Copies(j)'
    BY <1>1 DEF ChunksInv, WholeInv, Copies, Quiet
  <2>3. QED
    BY <2>1, <2>2 DEF WholeInv
<1>5. QED
  BY <1>2, <1>3, <1>4 DEF ChunksInv

LEMMA EndsQuiet ==
  ASSUME TypeOK, NEW k \in Calls, NEW ok \in BOOLEAN, Ends(k, ok),
         ok /\ calls[k].op = "chunk" => Written(calls[k]) \/ asset' = "complete"
  PROVE  Quiet(k)
BY EndsEffect, IdleType DEF TypeOK, Quiet, Written

LEMMA GoesQuiet ==
  ASSUME TypeOK, NEW k \in Calls, NEW place \in Places, Goes(k, place),
         place \notin {"start", "copy", "verify", "discard", "progress", "answered"},
         place \in {"list", "create"} => calls[k].at \in {"start", "list"}
  PROVE  Quiet(k)
BY GoesEffect DEF TypeOK, Quiet, Written

\* The handlers that neither write nor remove a file.
LEMMA QuietHandlers ==
  ASSUME TypeOK, RowInv, OpInv, NEW k \in Calls,
         \/ Initiate(k) \/ ReadAsset(k) \/ Refuse(k) \/ UpdateChunkProgress(k)
         \/ ListStagedChunks(k) \/ Commit(k) \/ StagingRemoved(k)
         \/ Recognize(k) \/ AppendTranscript(k) \/ UpdateCardTitle(k)
  PROVE  Quiet(k) /\ UNCHANGED <<staged, final>>
<1>0. calls[k] \in Call
  BY DEF TypeOK
<1>1. CASE Initiate(k)
  BY <1>1, EndsQuiet DEF Initiate, Runs
<1>2. CASE ReadAsset(k)
  <2>1. CASE AlreadyDone(calls[k])
    BY <1>2, <2>1, EndsQuiet DEF ReadAsset, AlreadyDone
  <2>2. CASE ~ AlreadyDone(calls[k])
    <3>1. PICK place \in {"truncate", "list", "recognize"} : Goes(k, place)
      BY <1>2, <2>2 DEF ReadAsset, NextPlace
    <3>2. QED
      BY <1>2, <3>1, GoesQuiet DEF ReadAsset, Places
  <2>3. QED
    BY <2>1, <2>2
<1>3. CASE Refuse(k)
  BY <1>3, EndsQuiet DEF Refuse
<1>4. CASE UpdateChunkProgress(k)
  BY <1>4, EndsQuiet DEF UpdateChunkProgress, Runs, Written
<1>5. CASE ListStagedChunks(k) \/ Commit(k)
  BY <1>5, GoesQuiet DEF ListStagedChunks, Commit, Runs, Places
<1>6. CASE StagingRemoved(k)
  <2>1. calls[k].op # "chunk"
    BY <1>6 DEF StagingRemoved, OpInv, Fits
  <2>2. PICK ok \in BOOLEAN : Ends(k, ok)
    BY <1>6 DEF StagingRemoved
  <2>3. QED
    BY <1>6, <2>1, <2>2, EndsQuiet DEF StagingRemoved
<1>7. CASE Recognize(k)
  BY <1>7, EndsQuiet, GoesQuiet DEF Recognize, Places
<1>8. CASE AppendTranscript(k)
  BY <1>8, GoesQuiet DEF AppendTranscript, Places
<1>9. CASE UpdateCardTitle(k)
  BY <1>9, EndsQuiet DEF UpdateCardTitle, OpInv, Fits
<1>10. QED
  BY <1>1, <1>2, <1>3, <1>4, <1>5, <1>6, <1>7, <1>8, <1>9

\* Only one call at a time writes files.
LEMMA OnlyWriter ==
  ASSUME OpInv, OneUpload, SendInv, NEW k \in Calls, Sends(calls[k])
  PROVE  /\ at # "keep"
         /\ \A j \in Calls : j # k =>
              /\ ~ Sends(calls[j]) /\ ~ Written(calls[j])
              /\ calls[j].at \notin {"copy", "verify", "discard"}
<1>1. \A j \in Calls : j # k => ~ Sends(calls[j])
  BY DEF OneUpload
<1>2. QED
  BY <1>1 DEF SendInv, OpInv, Fits, Sends, Written

LEMMA WritingChunks ==
  ASSUME TypeOK, OpInv, OneUpload, RowInv, ChunksInv, NEW k \in Calls,
         TruncateChunk(k) \/ WriteChunk(k)
  PROVE  ChunksInv'
<1>1. /\ calls[k].op = "chunk" /\ Sends(calls[k]) /\ asset # "complete"
      /\ UNCHANGED <<asset, final, at, uploaded, recording>>
      /\ FirstMissing' = FirstMissing /\ Chunks' = Chunks
  BY DEF TruncateChunk, WriteChunk, Runs, Sends, RowInv, device, FirstMissing, Missing, Chunks
<1>2. /\ at # "keep"
      /\ \A j \in Calls : j # k =>
           ~ Written(calls[j]) /\ calls[j].at \notin {"copy", "verify", "discard"}
  BY <1>1, OnlyWriter DEF ChunksInv
<1>3. calls[k].n \in FirstMissing /\ calls[k].n \in Chunks /\ calls[k].n \notin uploaded
  BY <1>1 DEF ChunksInv, SendInv, Asked, FirstMissing, Missing
<1>4. PICK place \in {"write", "progress"} :
        /\ calls'[k].op = "chunk" /\ calls'[k].n = calls[k].n /\ calls'[k].at = place
        /\ \A j \in Calls : j # k => calls'[j] = calls[j]
        /\ place = "progress" => WriteChunk(k)
  BY <1>1, GoesEffect DEF TypeOK, TruncateChunk, WriteChunk, Places
<1>5. \A c \in uploaded : staged'[c] = staged[c]
  BY <1>3 DEF TruncateChunk, WriteChunk, TypeOK
<1>6. recording.intact /\ WriteChunk(k) => staged'[calls[k].n] = "whole"
  BY <1>3 DEF WriteChunk, Content, TypeOK
<1>7. SendInv'
  <2>1. \A j \in Calls : Asked(j)'
    BY <1>1, <1>3, <1>4 DEF ChunksInv, SendInv, Asked
  <2>2. QED
    BY <1>1, <1>2, <2>1 DEF ChunksInv, SendInv
<1>8. StagedInv'
  BY <1>1, <1>2, <1>4, <1>5, <1>6 DEF ChunksInv, StagedInv, Written
<1>9. WholeInv'
  BY <1>1, <1>4 DEF ChunksInv, WholeInv, Copies
<1>10. QED
  BY <1>7, <1>8, <1>9 DEF ChunksInv

\* The steps of a completion leave the staged chunks of an incomplete intact
\* recording alone.
LEMMA CompletionChunks ==
  ASSUME ChunksInv, OneUpload, OpInv, UNCHANGED <<asset, at, uploaded, recording>>,
         asset # "complete" /\ recording.intact => staged' = staged,
         NEW k \in Calls, calls[k].op = "complete", calls'[k].op \in {"complete", "none"},
         calls'[k].at # "progress",
         \A j \in Calls : j # k => calls'[j].op = calls[j].op /\ calls'[j].n = calls[j].n,
         \A j \in Calls : j # k => ~ Written(calls'[j])
  PROVE  SendInv' /\ StagedInv'
<1>1. FirstMissing' = FirstMissing /\ Chunks' = Chunks
  BY DEF FirstMissing, Missing, Chunks
<1>2. SendInv'
  <2>1. Asked(k)' /\ (Sends(calls'[k]) => Sends(calls[k]))
    BY <1>1 DEF ChunksInv, SendInv, Asked, Sends
  <2>2. \A j \in Calls : j # k => Asked(j)' /\ (Sends(calls'[j]) => Sends(calls[j]))
    BY <1>1 DEF ChunksInv, SendInv, Asked, Sends
  <2>3. QED
    BY <1>1, <2>1, <2>2 DEF ChunksInv, SendInv
<1>3. \A j \in Calls : ~ Written(calls'[j])
  BY DEF Written
<1>4. StagedInv'
  BY <1>1, <1>3 DEF ChunksInv, StagedInv
<1>5. QED
  BY <1>2, <1>4

LEMMA CreateChunks ==
  ASSUME TypeOK, OpInv, OneUpload, ChunksInv, NEW k \in Calls, CreateFinal(k)
  PROVE  ChunksInv'
<1>1. /\ calls[k].op = "complete" /\ calls[k].at = "create" /\ Sends(calls[k])
      /\ UNCHANGED <<asset, staged, at, uploaded, recording>> /\ final' = {}
      /\ Chunks' = Chunks
  BY DEF CreateFinal, Runs, Sends, device, Chunks
<1>2. \A j \in Calls : j # k =>
           ~ Written(calls[j]) /\ calls[j].at \notin {"copy", "verify", "discard"}
  BY <1>1, OnlyWriter DEF ChunksInv
<1>3. /\ \A j \in Calls : j # k => calls'[j] = calls[j]
      /\ calls'[k].op = "complete" /\ calls'[k].n = 0 /\ calls'[k].at = "copy"
      /\ calls'[k].whole = calls[k].whole /\ calls'[k].attached = TRUE
  BY <1>1, CreateEffect DEF TypeOK
<1>4. SendInv' /\ StagedInv'
  BY <1>1, <1>2, <1>3, CompletionChunks
<1>5. final' = 0 .. calls'[k].n - 1
  BY <1>1, <1>3
<1>6. Copies(k)'
  BY <1>1, <1>3, <1>5 DEF ChunksInv, WholeInv, Copies
<1>7. \A j \in Calls : j # k => Copies(j)'
  BY <1>1, <1>2, <1>3 DEF ChunksInv, WholeInv, Copies
<1>8. QED
  BY <1>4, <1>6, <1>7 DEF ChunksInv, WholeInv

LEMMA CopyChunks ==
  ASSUME AudioTypeInv, OpInv, OneUpload, RowInv, ChunksInv, NEW k \in Calls, CopyChunk(k)
  PROVE  ChunksInv'
<1>0. TypeOK /\ calls[k].n \in Chunks
  BY LikeCopy DEF AudioTypeInv
<1>1. /\ calls[k].op = "complete" /\ calls[k].at = "copy" /\ Sends(calls[k])
      /\ asset # "complete"
      /\ UNCHANGED <<asset, staged, at, uploaded, recording>> /\ Chunks' = Chunks
  BY DEF CopyChunk, Runs, Sends, RowInv, device, Chunks
<1>2. \A j \in Calls : j # k =>
           ~ Written(calls[j]) /\ calls[j].at \notin {"copy", "verify", "discard"}
  BY <1>1, OnlyWriter DEF ChunksInv
<1>3. /\ \A j \in Calls : j # k => calls'[j] = calls[j]
      /\ calls'[k].op = "complete" /\ calls'[k].n = calls[k].n + 1
      /\ calls'[k].at = IF calls[k].n + 1 = Total THEN "verify" ELSE "copy"
      /\ calls'[k].whole = (calls[k].whole /\ staged[calls[k].n] = "whole")
      /\ calls'[k].attached = calls[k].attached
  BY <1>0, <1>1, CopyEffect DEF TypeOK
<1>4. SendInv' /\ StagedInv'
  BY <1>1, <1>2, <1>3, CompletionChunks
<1>5. ASSUME recording.intact
      PROVE  /\ calls'[k].whole /\ calls'[k].attached /\ final' = 0 .. calls'[k].n - 1
             /\ calls'[k].at = "verify" => final' = Chunks
  <2>1. uploaded = Chunks
    BY <1>1 DEF ChunksInv, SendInv, Asked
  <2>2. staged[calls[k].n] = "whole"
    BY <1>0, <1>1, <1>5, <2>1 DEF ChunksInv, StagedInv
  <2>3. calls[k].attached /\ calls[k].whole /\ final = 0 .. calls[k].n - 1
    BY <1>1, <1>5 DEF ChunksInv, WholeInv, Copies
  <2>4. final' = final \cup {calls[k].n}
    BY <2>2, <2>3 DEF CopyChunk, Copied
  <2>5. final' = 0 .. calls[k].n
    BY <1>0, <2>3, <2>4 DEF Chunks
  <2>6. calls[k].n \in Nat /\ calls'[k].n - 1 = calls[k].n
    BY <1>0, <1>3 DEF Chunks
  <2>7. calls'[k].at = "verify" => calls[k].n = Total - 1
    BY <1>3, <2>6, TotalAssumption
  <2>8. QED
    BY <1>3, <2>2, <2>3, <2>5, <2>6, <2>7 DEF Chunks
<1>6. Copies(k)'
  BY <1>1, <1>3, <1>5 DEF Copies
<1>7. \A j \in Calls : j # k => Copies(j)'
  BY <1>1, <1>2, <1>3 DEF ChunksInv, WholeInv, Copies
<1>8. QED
  BY <1>4, <1>6, <1>7 DEF ChunksInv, WholeInv

LEMMA CopyFailsChunks ==
  ASSUME TypeOK, OpInv, OneUpload, ChunksInv, NEW k \in Calls, CopyFails(k)
  PROVE  ChunksInv'
<1>1. /\ calls[k].op = "complete" /\ Sends(calls[k])
      /\ UNCHANGED <<asset, staged, at, uploaded, recording>> /\ Chunks' = Chunks
  BY DEF CopyFails, Runs, Sends, device, Chunks
<1>2. \A j \in Calls : j # k =>
           ~ Written(calls[j]) /\ calls[j].at \notin {"copy", "verify", "discard"}
  BY <1>1, OnlyWriter DEF ChunksInv
<1>3. /\ calls'[k].op \in {"complete", "none"} /\ calls'[k].at \in {"start", "answered"}
      /\ calls'[k].at = "start" => calls'[k].op = "none"
  BY <1>1, CopyFailsEffect, IdleType DEF TypeOK
<1>4. \A j \in Calls : j # k =>
        /\ calls'[j].op = calls[j].op /\ calls'[j].at = calls[j].at /\ calls'[j].n = calls[j].n
        /\ calls'[j].ok = calls[j].ok /\ calls'[j].whole = calls[j].whole
  <2>1. calls \in [Calls -> Call]
    BY DEF TypeOK
  <2>2. QED
    BY <2>1, CopyFailsEffect, Zenon
<1>5. \A j \in Calls : j # k => ~ Written(calls'[j])
  BY <1>2, <1>4 DEF Written
<1>6. SendInv' /\ StagedInv'
  BY <1>1, <1>3, <1>4, <1>5, CompletionChunks
<1>7. Copies(k)'
  BY <1>3 DEF Copies
<1>8. \A j \in Calls : j # k => Copies(j)'
  BY <1>1, <1>2, <1>4 DEF ChunksInv, WholeInv, Copies
<1>9. QED
  BY <1>6, <1>7, <1>8 DEF ChunksInv, WholeInv

LEMMA VerifyChunks ==
  ASSUME TypeOK, OpInv, OneUpload, ChunksInv, NEW k \in Calls, Verify(k)
  PROVE  ChunksInv'
<1>1. /\ calls[k].op = "complete" /\ calls[k].at = "verify" /\ Sends(calls[k])
      /\ UNCHANGED <<asset, staged, final, at, uploaded, recording>> /\ Chunks' = Chunks
  BY DEF Verify, Runs, Sends, device, Chunks
<1>2. \A j \in Calls : j # k =>
           ~ Written(calls[j]) /\ calls[j].at \notin {"copy", "verify", "discard"}
  BY <1>1, OnlyWriter DEF ChunksInv
<1>3. PICK place \in {"commit", "discard"} :
        /\ calls'[k].op = "complete" /\ calls'[k].at = place
        /\ place = "discard" => ~ Verified(calls[k])
        /\ \A j \in Calls : j # k => calls'[j] = calls[j]
  BY <1>1, VerifyEffect DEF TypeOK
<1>4. SendInv' /\ StagedInv'
  BY <1>1, <1>2, <1>3, CompletionChunks
<1>5. recording.intact => place = "commit"
  BY <1>1, <1>3 DEF ChunksInv, WholeInv, Copies, Verified
<1>6. Copies(k)'
  BY <1>1, <1>3, <1>5 DEF Copies
<1>7. \A j \in Calls : j # k => Copies(j)'
  BY <1>1, <1>2, <1>3 DEF ChunksInv, WholeInv, Copies
<1>8. QED
  BY <1>4, <1>6, <1>7 DEF ChunksInv, WholeInv

LEMMA RemoveChunks ==
  ASSUME TypeOK, OpInv, OneUpload, RowInv, ChunksInv, NEW k \in Calls, RemoveChunk(k)
  PROVE  ChunksInv'
<1>1. /\ calls[k].op = "complete" /\ calls[k].at \in {"remove", "discard"} /\ Sends(calls[k])
      /\ UNCHANGED <<asset, final, at, uploaded, recording>> /\ Chunks' = Chunks
  BY DEF RemoveChunk, OpInv, Fits, Sends, device, Chunks
<1>2. \A j \in Calls : j # k =>
           ~ Written(calls[j]) /\ calls[j].at \notin {"copy", "verify", "discard"}
  BY <1>1, OnlyWriter DEF ChunksInv
<1>3. /\ calls'[k].op = "complete" /\ calls'[k].at = calls[k].at
      /\ \A j \in Calls : j # k => calls'[j] = calls[j]
  BY <1>1, RemoveEffect DEF TypeOK
<1>4. asset = "complete" \/ ~ recording.intact
  BY <1>1 DEF RowInv, ChunksInv, WholeInv, Copies
<1>5. SendInv' /\ StagedInv'
  BY <1>1, <1>2, <1>3, <1>4, CompletionChunks
<1>6. Copies(k)'
  BY <1>1, <1>3 DEF ChunksInv, WholeInv, Copies
<1>7. \A j \in Calls : j # k => Copies(j)'
  BY <1>1, <1>2, <1>3 DEF ChunksInv, WholeInv, Copies
<1>8. QED
  BY <1>5, <1>6, <1>7 DEF ChunksInv, WholeInv

LEMMA HandlerChunks ==
  ASSUME AudioTypeInv, UploadInv, ChunksInv, NEW k \in Calls, Handles(k)
  PROVE  ChunksInv'
<1>0. TypeOK /\ OpInv /\ OneUpload /\ RowInv
  BY DEF AudioTypeInv, UploadInv, ProtocolInv
<1>1. CASE TruncateChunk(k) \/ WriteChunk(k)
  BY <1>0, <1>1, WritingChunks
<1>2. CASE CreateFinal(k) \/ CopyChunk(k) \/ CopyFails(k) \/ Verify(k) \/ RemoveChunk(k)
  BY <1>0, <1>2, CreateChunks, CopyChunks, CopyFailsChunks, VerifyChunks, RemoveChunks
<1>3. CASE \/ Initiate(k) \/ ReadAsset(k) \/ Refuse(k) \/ UpdateChunkProgress(k)
           \/ ListStagedChunks(k) \/ Commit(k) \/ StagingRemoved(k)
           \/ Recognize(k) \/ AppendTranscript(k) \/ UpdateCardTitle(k)
  <2>1. Quiet(k) /\ UNCHANGED <<staged, final>>
    BY <1>0, <1>3, QuietHandlers
  <2>2. UNCHANGED <<device, recording>> /\ (asset = "complete" => asset' = "complete")
    BY <1>0, HandlerKeeps
  <2>3. QED
    BY <2>1, <2>2, QuietChunks DEF device
<1>4. QED
  BY <1>1, <1>2, <1>3 DEF Handles

\* Calls are forgotten and the device stays where it is, or goes where nothing
\* is claimed of the chunks.
LEMMA RestChunks ==
  ASSUME ChunksInv, UNCHANGED <<asset, staged, final, uploaded, recording>>,
         at' = at \/ at' \notin {"complete", "keep"},
         \A j \in Calls : \/ calls'[j] = calls[j]
                          \/ calls'[j].op = "none" /\ calls'[j].at = "start"
  PROVE  ChunksInv'
<1>1. FirstMissing' = FirstMissing /\ Chunks' = Chunks
  BY DEF FirstMissing, Missing, Chunks
<1>2. SendInv'
  BY <1>1 DEF ChunksInv, SendInv, Asked, Sends
<1>3. StagedInv'
  BY <1>1 DEF ChunksInv, StagedInv, Written
<1>4. WholeInv'
  BY <1>1 DEF ChunksInv, WholeInv, Copies
<1>5. QED
  BY <1>2, <1>3, <1>4 DEF ChunksInv

LEMMA SendChunks ==
  ASSUME TypeOK, ChunksInv, NEW k \in Calls, Send(k)
  PROVE  ChunksInv'
<1>1. /\ UNCHANGED <<asset, staged, final, at, uploaded, recording>>
      /\ FirstMissing' = FirstMissing /\ Chunks' = Chunks /\ at # "keep"
  BY DEF Send, Requests, FirstMissing, Missing, Chunks
<1>2. /\ \A j \in Calls : j # k => calls'[j] = calls[j]
      /\ calls'[k].op = at /\ calls'[k].at = "start" /\ calls'[k].whole = TRUE
      /\ at = "chunk" => calls'[k].n \in FirstMissing
  BY SendEffect
<1>3. SendInv'
  BY <1>1, <1>2 DEF ChunksInv, SendInv, Asked
<1>4. StagedInv'
  BY <1>1, <1>2 DEF ChunksInv, StagedInv, Written
<1>5. WholeInv'
  BY <1>1, <1>2 DEF ChunksInv, WholeInv, Copies
<1>6. QED
  BY <1>3, <1>4, <1>5 DEF ChunksInv

LEMMA KeepChunks ==
  ASSUME OpInv, ChunksInv, KeepProgress
  PROVE  ChunksInv'
<1>1. /\ at = "keep" /\ uploaded' = uploaded \cup FirstMissing
      /\ UNCHANGED <<asset, staged, final, calls, recording>> /\ Chunks' = Chunks
      /\ at' \in {"complete", "chunk"} /\ (at' = "complete" => uploaded' = Chunks)
  BY DEF KeepProgress, Sent, AfterChunks, Chunks
<1>2. \A j \in Calls : ~ Sends(calls[j]) /\ ~ Written(calls[j])
  BY <1>1 DEF ChunksInv, SendInv, OpInv, Fits, Sends, Written
<1>3. SendInv'
  BY <1>1, <1>2 DEF SendInv, Asked, Sends
<1>4. StagedInv'
  BY <1>1, <1>2 DEF ChunksInv, StagedInv
<1>5. WholeInv'
  BY <1>1 DEF ChunksInv, WholeInv, Copies
<1>6. QED
  BY <1>3, <1>4, <1>5 DEF ChunksInv

LEMMA ReceiveChunks ==
  ASSUME AudioTypeInv, AnswerInv, OpInv, OneUpload, ChunksInv, Receive
  PROVE  ChunksInv'
<1>1. /\ waiting \in Calls /\ waiting # NoCall /\ calls[waiting].at = "answered"
      /\ calls'[waiting] = Idle
      /\ \A j \in Calls : j # waiting => calls'[j] = calls[j]
  BY ReceiveEffect, CallsAssumption DEF AudioTypeInv, Receive, Answered
<1>2. calls[waiting].op = at /\ at \in Requests
  BY <1>1 DEF AnswerInv, AudioTypeInv, WaitInv
<1>3. /\ UNCHANGED <<asset, staged, final, uploaded, recording>>
      /\ FirstMissing' = FirstMissing /\ Chunks' = Chunks
      /\ at' = AfterAnswer(calls[waiting].ok)
  BY DEF Receive, FirstMissing, Missing, Chunks
<1>4. /\ at' = "complete" => uploaded = Chunks
      /\ at' = "keep" => at = "chunk" /\ calls[waiting].ok
  BY <1>2, <1>3 DEF AfterAnswer, AfterSuccess, AfterChunks, Requests
<1>5. SendInv'
  <2>1. \A j \in Calls : Asked(j)'
    BY <1>1, <1>3, IdleType DEF ChunksInv, SendInv, Asked
  <2>2. at' = "keep" => \A j \in Calls : ~ Sends(calls'[j])
    BY <1>1, <1>2, <1>4, IdleType DEF OneUpload, Sends
  <2>3. QED
    BY <1>3, <1>4, <2>1, <2>2 DEF SendInv
<1>6. StagedInv'
  <2>1. SUFFICES ASSUME asset # "complete", recording.intact PROVE StagedInv'
    BY <1>3 DEF StagedInv
  <2>2. at' = "keep" => \A c \in FirstMissing : staged[c] = "whole"
    <3>1. SUFFICES ASSUME at' = "keep", NEW c \in FirstMissing PROVE staged[c] = "whole"
      OBVIOUS
    <3>2. staged[calls[waiting].n] = "whole" /\ calls[waiting].n \in FirstMissing
      BY <1>1, <1>2, <1>4, <2>1, <3>1 DEF ChunksInv, StagedInv, Written, SendInv, Asked
    <3>3. calls[waiting].n = c
      BY <3>1, <3>2, TotalAssumption DEF FirstMissing, Missing, Chunks
    <3>4. QED
      BY <3>2, <3>3
  <2>3. \A j \in Calls : Written(calls'[j]) => staged[calls'[j].n] = "whole"
    BY <1>1, <2>1, IdleType DEF ChunksInv, StagedInv, Written
  <2>4. QED
    BY <1>3, <2>1, <2>2, <2>3 DEF ChunksInv, StagedInv
<1>7. WholeInv'
  BY <1>1, <1>3, IdleType DEF ChunksInv, WholeInv, Copies
<1>8. QED
  BY <1>5, <1>6, <1>7 DEF ChunksInv

LEMMA ChunksStep == AudioTypeInv /\ UploadInv /\ ChunksInv /\ [Next]_vars => ChunksInv'
<1> SUFFICES ASSUME AudioTypeInv, UploadInv, ChunksInv, [Next]_vars PROVE ChunksInv'
  OBVIOUS
<1>0. TypeOK /\ OpInv /\ AnswerInv /\ OneUpload
  BY DEF AudioTypeInv, UploadInv, ProtocolInv
<1>1. ASSUME NEW k \in Calls, Handles(k) PROVE ChunksInv'
  BY <1>1, HandlerChunks
<1>2. ASSUME NEW k \in Calls, HandlerFails(k) PROVE ChunksInv'
  <2>1. PICK ok \in BOOLEAN : Ends(k, ok) /\ (ok => calls[k].at \in {"remove", "title"})
    BY <1>2 DEF HandlerFails
  <2>2. ok => calls[k].op # "chunk"
    BY <1>0, <2>1 DEF OpInv, Fits
  <2>3. Quiet(k)
    BY <1>0, <2>1, <2>2, EndsQuiet
  <2>4. QED
    BY <1>2, <2>3, QuietChunks DEF HandlerFails, device
<1>3. ASSUME NEW k \in Calls, Correct(k) PROVE ChunksInv'
  <2>1. 0 \in 0 .. Total
    BY TotalAssumption
  <2>2. /\ \A j \in Calls : j # k => calls'[j] = calls[j]
        /\ calls'[k].op = "correct" /\ calls'[k].at = "start"
    BY <1>0, <1>3, <2>1, NewCallEffect DEF Correct, TypeOK
  <2>3. UNCHANGED <<asset, staged, final, at, uploaded, recording>> /\ Chunks' = Chunks
        /\ FirstMissing' = FirstMissing
    BY <1>3 DEF Correct, device, Chunks, FirstMissing, Missing
  <2>4. SendInv' /\ StagedInv' /\ WholeInv'
    BY <2>2, <2>3 DEF ChunksInv, SendInv, Asked, Sends, StagedInv, Written, WholeInv, Copies
  <2>5. QED
    BY <2>4 DEF ChunksInv
<1>4. ASSUME NEW k \in Calls, Send(k) PROVE ChunksInv'
  BY <1>0, <1>4, SendChunks
<1>5. CASE Begin \/ SaveTranscript \/ ApplyServerRevision
  BY <1>5, RestChunks DEF Begin, SaveTranscript, ApplyServerRevision
<1>6. CASE Receive \/ KeepProgress
  BY <1>0, <1>6, ReceiveChunks, KeepChunks
<1>7. CASE PassFails
  <2>1. \A j \in Calls : \/ calls'[j] = calls[j]
                         \/ calls'[j].op = "none" /\ calls'[j].at = "start"
    BY <1>0, <1>7, PassFailsEffect, IdleType
  <2>2. QED
    BY <1>7, <2>1, RestChunks DEF PassFails
<1>8. CASE ServerCrash
  <2>1. \A j \in Calls : \/ calls'[j] = calls[j]
                         \/ calls'[j].op = "none" /\ calls'[j].at = "start"
    BY <1>0, <1>8, CrashEffect, IdleType
  <2>2. QED
    BY <1>8, <2>1, RestChunks DEF ServerCrash
<1>9. CASE UNCHANGED vars
  BY <1>9, RestChunks DEF vars, device
<1>10. QED
  BY <1>1, <1>2, <1>3, <1>4, <1>5, <1>6, <1>7, <1>8, <1>9 DEF Next, Device

\* When neither a completion nor a chunk outlives its request, what the device
\* will not send again is on the server until the asset is complete, so that a
\* pass that starts from the kept progress finds all the chunks it needs.
THEOREM KeptProgressIsStaged ==
  ASSUME NothingOverlaps
  PROVE  Spec => []ProgressIsStaged
<1>1. AudioTypeInv /\ UploadInv /\ [Next]_vars => UploadInv'
  BY UploadStep
<1>2. ChunksInv => ProgressIsStaged
  BY DEF ChunksInv, StagedInv, ProgressIsStaged
<1>3. QED
  BY <1>1, <1>2, TypeInit, UploadInit, ChunksInit, TypeStep, ChunksStep, PTL DEF Spec
-----------------------------------------------------------------------------
(* The abstract recording                                                  *)

\* What is transcribed is complete, and stays so.
SttInv ==
  \A k \in Calls : calls[k].at \in {"recognize", "append"} => asset = "complete" /\ recording.stt

LEMMA SttInit == Init => SttInv
<1> SUFFICES ASSUME Init PROVE SttInv
  OBVIOUS
<1>1. \A k \in Calls : calls[k].at = "start"
  BY IdleType DEF Init
<1>2. QED
  BY <1>1 DEF SttInv

LEMMA QuietStt ==
  ASSUME SttInv, UNCHANGED recording, asset = "complete" => asset' = "complete",
         \A j \in Calls : calls'[j].at \in {"recognize", "append"} =>
           calls[j].at \in {"recognize", "append"} \/ (asset = "complete" /\ recording.stt)
  PROVE  SttInv'
BY DEF SttInv

LEMMA HandlerStt ==
  ASSUME AudioTypeInv, UploadInv, SttInv, NEW k \in Calls, Handles(k)
  PROVE  SttInv'
<1>0. TypeOK /\ OpInv /\ RowInv /\ calls[k] \in Call
  BY DEF AudioTypeInv, TypeOK, UploadInv, ProtocolInv
<1>1. UNCHANGED recording /\ (asset = "complete" => asset' = "complete")
  BY <1>0, HandlerKeeps
<1>2. ASSUME NEW ok \in BOOLEAN, EndsLike(k, ok) PROVE SttInv'
  BY <1>1, <1>2, QuietStt DEF EndsLike, OthersStay
<1>3. ASSUME NEW place, GoesLike(k, place),
             place \in {"recognize", "append"} =>
               calls[k].at \in {"recognize", "append"} \/ (asset = "complete" /\ recording.stt)
      PROVE  SttInv'
  BY <1>1, <1>3, QuietStt DEF GoesLike, OthersStay
<1>4. CASE ReadAsset(k)
  <2>1. CASE AlreadyDone(calls[k])
    BY <1>0, <1>2, <1>4, <2>1, EndsLikeEnds DEF ReadAsset
  <2>2. CASE ~ AlreadyDone(calls[k])
    <3>1. PICK place \in {"truncate", "list", "recognize"} :
            GoesLike(k, place) /\ (place = "recognize" => calls[k].op = "transcribe")
      BY <1>0, <1>4, <2>2, GoesLikeGoes DEF ReadAsset, NextPlace, Places
    <3>2. calls[k].op = "transcribe" => asset = "complete" /\ recording.stt
      BY <1>4 DEF ReadAsset, Refused
    <3>3. QED
      BY <1>3, <3>1, <3>2
  <2>3. QED
    BY <2>1, <2>2
<1>5. CASE Refuse(k) \/ CopyFails(k)
  BY <1>0, <1>2, <1>5, EndsLikeEnds, CopyFailsEnds DEF Refuse
<1>6. CASE Initiate(k) \/ UpdateChunkProgress(k) \/ StagingRemoved(k) \/ UpdateCardTitle(k)
  BY <1>0, <1>2, <1>6, EndsLikeEnds
     DEF Initiate, UpdateChunkProgress, StagingRemoved, UpdateCardTitle
<1>7. CASE TruncateChunk(k) \/ WriteChunk(k) \/ ListStagedChunks(k) \/ Commit(k) \/ AppendTranscript(k)
  BY <1>0, <1>3, <1>7, GoesLikeGoes
     DEF TruncateChunk, WriteChunk, ListStagedChunks, Commit, AppendTranscript, Places
<1>8. CASE CreateFinal(k) \/ CopyChunk(k) \/ Verify(k) \/ RemoveChunk(k)
  <2>1. PICK place \in Places \ {"recognize", "append"} : GoesLike(k, place)
    <3>1. CASE CreateFinal(k) \/ CopyChunk(k) \/ Verify(k)
      BY <1>0, <3>1, LikeCreate, LikeCopy, LikeVerify DEF Places
    <3>2. CASE RemoveChunk(k)
      BY <1>0, <3>2, LikeRemove DEF RemoveChunk, Places
    <3>3. QED
      BY <1>8, <3>1, <3>2
  <2>2. QED
    BY <1>3, <2>1
<1>9. CASE Recognize(k)
  <2>1. calls[k].at = "recognize"
    BY <1>9 DEF Recognize, Runs
  <2>2. EndsLike(k, FALSE) \/ GoesLike(k, "append")
    BY <1>0, <1>9, EndsLikeEnds, GoesLikeGoes DEF Recognize, Places
  <2>3. QED
    BY <1>2, <1>3, <2>1, <2>2
<1>10. QED
  BY <1>4, <1>5, <1>6, <1>7, <1>8, <1>9 DEF Handles

LEMMA SttStep == AudioTypeInv /\ UploadInv /\ SttInv /\ [Next]_vars => SttInv'
<1> SUFFICES ASSUME AudioTypeInv, UploadInv, SttInv, [Next]_vars PROVE SttInv'
  OBVIOUS
<1>0. TypeOK
  BY DEF AudioTypeInv
<1>1. ASSUME NEW k \in Calls, Handles(k) PROVE SttInv'
  BY <1>1, HandlerStt
<1>2. ASSUME UNCHANGED <<asset, recording>>,
             \A j \in Calls : calls'[j].at = calls[j].at \/ calls'[j].at \in {"start", "answered"}
      PROVE  SttInv'
  BY <1>2, QuietStt
<1>3. ASSUME NEW k \in Calls, HandlerFails(k) PROVE SttInv'
  <2>1. PICK ok \in BOOLEAN : EndsLike(k, ok)
    BY <1>0, <1>3, EndsLikeEnds DEF HandlerFails
  <2>2. QED
    BY <1>2, <1>3, <2>1 DEF HandlerFails, EndsLike, OthersStay
<1>4. ASSUME NEW k \in Calls, Correct(k) \/ Send(k) PROVE SttInv'
  <2>1. \A j \in Calls : calls'[j] = calls[j] \/ calls'[j].at = "start"
    <3>1. CASE Correct(k)
      <4>1. calls' = [calls EXCEPT ![k] = Started("correct", 0)] /\ 0 \in 0 .. Total
        BY <3>1, TotalAssumption DEF Correct
      <4>2. calls \in [Calls -> Call] /\ "correct" \in Requests \cup {"correct"}
        BY <1>0 DEF TypeOK
      <4>3. QED
        BY <4>1, <4>2, NewCallEffect
    <3>2. CASE Send(k)
      BY <1>0, <3>2, SendEffect
    <3>3. QED
      BY <1>4, <3>1, <3>2
  <2>2. QED
    BY <1>2, <1>4, <2>1 DEF Correct, Send
<1>5. CASE Begin \/ KeepProgress \/ SaveTranscript \/ ApplyServerRevision
  BY <1>2, <1>5 DEF Begin, KeepProgress, SaveTranscript, ApplyServerRevision
<1>6. CASE Receive
  <2>1. \A j \in Calls : calls'[j] = calls[j] \/ calls'[j].at = "start"
    BY <1>0, <1>6, ReceiveEffect, IdleType
  <2>2. QED
    BY <1>2, <1>6, <2>1 DEF Receive
<1>7. CASE PassFails
  <2>1. \A j \in Calls : calls'[j] = calls[j] \/ calls'[j].at = "start"
    BY <1>0, <1>7, PassFailsEffect, IdleType
  <2>2. QED
    BY <1>2, <1>7, <2>1 DEF PassFails
<1>8. CASE ServerCrash
  <2>1. \A j \in Calls : calls'[j] = calls[j] \/ calls'[j].at = "start"
    BY <1>0, <1>8, CrashEffect, IdleType
  <2>2. QED
    BY <1>2, <1>8, <2>1 DEF ServerCrash
<1>9. CASE UNCHANGED vars
  BY <1>2, <1>9 DEF vars
<1>10. QED
  BY <1>1, <1>3, <1>4, <1>5, <1>6, <1>7, <1>8, <1>9 DEF Next, Device

LEMMA InitRecords == Init => Recording!Init
BY CaseIsTyped DEF Init, Recording!Init

\* The abstract recording is a function of these alone.
LEMMA Unrecorded ==
  ASSUME UNCHANGED <<uploaded, transcripts, recording>>,
         asset' = "complete" <=> asset = "complete",
         asset = "complete" => final' = final,
         at' = "done" <=> at = "done"
  PROVE  UNCHANGED Recording!vars
BY DEF Recording!vars

\* A row that becomes complete is one that a completion commits.
LEMMA HandlerRecords ==
  ASSUME AudioTypeInv, UploadInv, SendInv, SttInv, NEW k \in Calls, Handles(k)
  PROVE  Recording!Next \/ UNCHANGED Recording!vars
<1>0. TypeOK /\ OpInv /\ RowInv /\ FileInv
  BY DEF AudioTypeInv, UploadInv, ProtocolInv
<1>1. CASE Initiate(k) \/ UpdateChunkProgress(k)
  BY <1>0, <1>1, Unrecorded
     DEF Initiate, Initiated, UpdateChunkProgress, Runs, RowInv, device, texts
<1>2. CASE CreateFinal(k) \/ CopyChunk(k) \/ CopyFails(k)
  BY <1>0, <1>2, Unrecorded DEF CreateFinal, CopyChunk, CopyFails, Runs, RowInv, device, texts
<1>3. CASE ReadAsset(k) \/ Refuse(k) \/ TruncateChunk(k) \/ WriteChunk(k) \/ ListStagedChunks(k)
           \/ Verify(k) \/ RemoveChunk(k) \/ StagingRemoved(k) \/ Recognize(k) \/ UpdateCardTitle(k)
  BY <1>3, Unrecorded
     DEF ReadAsset, Refuse, TruncateChunk, WriteChunk, ListStagedChunks, Verify, RemoveChunk,
         StagingRemoved, Recognize, UpdateCardTitle, device, texts
<1>4. CASE Commit(k)
  <2>1. asset # "complete" /\ asset' = "complete"
    BY <1>0, <1>4 DEF Commit, Runs, RowInv
  <2>2. recording.intact /\ final = Chunks /\ uploaded = Chunks
    BY <1>0, <1>4 DEF Commit, Runs, FileInv, SendInv, Asked
  <2>3. UNCHANGED <<final, uploaded, transcripts, recording, at>>
    BY <1>4 DEF Commit, device, texts
  <2>4. Recording!Store
    BY <2>1, <2>2, <2>3 DEF Recording!Store
  <2>5. QED
    BY <2>4 DEF Recording!Next
<1>5. CASE AppendTranscript(k)
  <2>1. UNCHANGED <<asset, final, uploaded, recording, at>>
        /\ transcripts' = Append(transcripts, Source(calls[k]))
    BY <1>5 DEF AppendTranscript, device
  <2>2. CASE Runs(k, "transcribe", "append")
    <3>1. asset = "complete" /\ recording.stt /\ Source(calls[k]) = "stt"
      BY <2>2 DEF Runs, SttInv, Source
    <3>2. Recording!Transcribe
      BY <2>1, <3>1 DEF Recording!Transcribe
    <3>3. QED
      BY <3>2 DEF Recording!Next
  <2>3. CASE Runs(k, "correct", "start")
    <3>1. Source(calls[k]) = "user"
      BY <2>3 DEF Runs, Source
    <3>2. Recording!Correct
      BY <2>1, <3>1 DEF Recording!Correct
    <3>3. QED
      BY <3>2 DEF Recording!Next
  <2>4. QED
    BY <1>5, <2>2, <2>3 DEF AppendTranscript
<1>6. QED
  BY <1>1, <1>2, <1>3, <1>4, <1>5 DEF Handles

\* The chunk whose number is kept is the first that was missing.
LEMMA KeepRecords ==
  ASSUME TypeOK, KeepProgress
  PROVE  Recording!Next \/ UNCHANGED Recording!vars
<1>1. /\ UNCHANGED <<asset, final, transcripts, recording>> /\ uploaded' = uploaded \cup FirstMissing
      /\ at' # "done" /\ at # "done"
  BY DEF KeepProgress, Sent, AfterChunks, texts
<1>2. CASE FirstMissing = {}
  BY <1>1, <1>2, Unrecorded
<1>3. ASSUME NEW c \in FirstMissing PROVE Recording!Next
  <2>1. c \in Chunks /\ c \notin uploaded /\ \A d \in Chunks \ uploaded : c <= d
    BY <1>3 DEF FirstMissing, Missing
  <2>2. ASSUME NEW d \in FirstMissing PROVE d = c
    <3>1. d \in Chunks /\ d \in Chunks \ uploaded /\ d <= c /\ c <= d
      BY <1>3, <2>2 DEF FirstMissing, Missing
    <3>2. QED
      BY <2>1, <3>1, TotalAssumption DEF Chunks
  <2>3. uploaded' = uploaded \cup {c}
    BY <1>1, <1>3, <2>2
  <2>4. Recording!Confirm(c)
    BY <1>1, <2>1, <2>3 DEF Recording!Confirm
  <2>5. QED
    BY <2>1, <2>4 DEF Recording!Next
<1>4. QED
  BY <1>2, <1>3

LEMMA StepRecords ==
  ASSUME AudioTypeInv, UploadInv, SendInv, DoneInv, SttInv, [Next]_vars
  PROVE  Recording!Next \/ UNCHANGED Recording!vars
<1>0. TypeOK /\ WaitInv
  BY DEF AudioTypeInv
<1>1. ASSUME NEW k \in Calls, Handles(k) PROVE Recording!Next \/ UNCHANGED Recording!vars
  BY <1>1, HandlerRecords
<1>2. ASSUME NEW k \in Calls, HandlerFails(k) \/ Correct(k) \/ Send(k)
      PROVE  UNCHANGED Recording!vars
  BY <1>2, Unrecorded DEF HandlerFails, Correct, Send, device, texts
<1>3. CASE Begin \/ SaveTranscript \/ PassFails
  BY <1>3, Unrecorded DEF Begin, SaveTranscript, PassFails, texts
<1>4. CASE Receive
  <2>1. at \in Requests
    BY <1>0, <1>4 DEF Receive, Answered, WaitInv
  <2>2. at # "done" /\ at' # "done"
    BY <1>4, <2>1 DEF Receive, AfterAnswer, AfterSuccess, AfterChunks, Requests
  <2>3. QED
    BY <1>4, <2>2, Unrecorded DEF Receive, texts
<1>5. CASE KeepProgress
  BY <1>0, <1>5, KeepRecords
<1>6. CASE ApplyServerRevision
  <2>1. asset = "complete" /\ (recording.stt => HasStt) /\ at = "settle"
    BY <1>6 DEF ApplyServerRevision, DoneInv
  <2>2. Recording!Finish
    BY <1>6, <2>1 DEF ApplyServerRevision, HasStt, Recording!Finish, texts
  <2>3. QED
    BY <2>2 DEF Recording!Next
<1>7. CASE ServerCrash
  <2>1. at' = "done" <=> at = "done"
    BY <1>0, <1>7 DEF ServerCrash, WaitInv, Requests
  <2>2. QED
    BY <1>7, <2>1, Unrecorded DEF ServerCrash, texts
<1>8. CASE UNCHANGED vars
  BY <1>8, Unrecorded DEF vars, device, texts
<1>9. QED
  BY <1>1, <1>2, <1>3, <1>4, <1>5, <1>6, <1>7, <1>8 DEF Next, Device

\* When neither a completion nor a chunk outlives its request, all that the
\* statements, files, calls and repetitions of an upload come to is the abstract
\* recording: it is stored once, whole and after every chunk was confirmed, never
\* changes or goes away, and the device is through for ever.
THEOREM UploadImplementsRecording ==
  ASSUME NothingOverlaps
  PROVE  Spec => ImplementsRecording
<1>1. AudioTypeInv /\ UploadInv /\ [Next]_vars => UploadInv'
  BY UploadStep
<1>2. ChunksInv => SendInv
  BY DEF ChunksInv
<1>3. AudioTypeInv /\ UploadInv /\ SendInv /\ DoneInv /\ SttInv /\ [Next]_vars
        => [Recording!Next]_(Recording!vars)
  BY StepRecords
<1>4. QED
  BY <1>1, <1>2, <1>3, TypeInit, UploadInit, DoneInit, ChunksInit, SttInit, InitRecords,
     TypeStep, DoneStep, ChunksStep, SttStep, PTL
     DEF Spec, ImplementsRecording, Recording!Spec
=============================================================================
