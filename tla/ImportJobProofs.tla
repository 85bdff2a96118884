--------------------------- MODULE ImportJobProofs ---------------------------
(***************************************************************************)
(* Proofs about ImportJob, for any jobs, texts, fields and requests, and   *)
(* whatever overlaps or fails.  ImportInv: a row that is settled stays     *)
(* so, and no row of a job is left to do when a commit has completed it.   *)
(* RowsAreParsed: the rows of a job are those of its text.  CarefulInv,    *)
(* for a client that waits for its answers: what a commit has read still   *)
(* holds when it writes, so that counts, captures and cards agree.         *)
(***************************************************************************)
EXTENDS ImportJob, SequenceTheorems, FiniteSetTheorems, WellFoundedInduction, TLAPS

ParsedOf == {ParsedRows(text)[n] : text \in Texts, n \in 1 .. MaxRows}

Proposals == UNION {[D -> ProposalStatuses] : D \in SUBSET Fields}

ImportRow ==
  [ext : {p.external_id : p \in ParsedOf}, content : {p.content : p \in ParsedOf},
   given : {p.given : p \in ParsedOf}, errors : {p.errors : p \in ParsedOf},
   dedupe : DedupeStatuses, status : RowStatuses, captured : BOOLEAN, proposals : Proposals]

\* What a completion reads of a row.
Briefs == [errors : {p.errors : p \in ParsedOf}, content : {p.content : p \in ParsedOf},
           given : {p.given : p \in ParsedOf}]

\* Jobs and requests are records with these fields, whatever is in them.
IsJob(job) == DOMAIN job = {"status", "counts", "text"}

IsRequest(q) == DOMAIN q = {"at", "counts", "copy", "id", "chosen", "next", "tally"}

IsSettled(j, n) == rows[j][n].status \in Settled

\* A commit has settled the rows before the next one, and a row that was
\* settled when it listed them still is.
CommitSoFar(q) ==
  /\ q.copy \in Seq(ImportRow)
  /\ q.next \in Nat \ {0}
  /\ Len(q.copy) + q.next = Len(rows[q.id]) + 1
  /\ \A n \in 1 .. Len(rows[q.id]) : n < q.next => IsSettled(q.id, n)
  /\ \A i \in 1 .. Len(q.copy) : q.copy[i].status \in Settled => IsSettled(q.id, q.next + i - 1)

\* What a request that is served knows.
RequestInv(q) ==
  /\ q.at # "idle" => q.id \in Jobs /\ jobs[q.id].status # "none"
  /\ q.at = "listing" => q.next = 1
  /\ q.at = "completing" => q.copy \in Seq(Briefs)
  /\ q.at = "applying" => q.copy \in Seq(Proposals)
  /\ q.at = "committing" => CommitSoFar(q)

TablesInv ==
  /\ DOMAIN jobs = Jobs /\ \A j \in Jobs : IsJob(jobs[j])
  /\ rows \in [Jobs -> Seq(ImportRow)]
  /\ DOMAIN request = Requests /\ \A r \in Requests : IsRequest(request[r])

ImportInv ==
  /\ TablesInv
  /\ \A r \in Requests : RequestInv(request[r])
  /\ CompletedIsSettled

-----------------------------------------------------------------------------
(* Rows                                                                    *)

\* Rows keep their numbers, and those that are settled stay settled.
RowsKept ==
  /\ rows' \in [Jobs -> Seq(ImportRow)]
  /\ \A j \in Jobs : /\ Len(rows'[j]) = Len(rows[j])
                     /\ \A n \in 1 .. Len(rows[j]) : IsSettled(j, n) => rows'[j][n].status \in Settled

LEMMA RowsType ==
  ASSUME TablesInv, NEW j \in Jobs
  PROVE  /\ rows[j] \in Seq(ImportRow)
         /\ DOMAIN rows[j] = 1 .. Len(rows[j]) /\ Len(rows[j]) \in Nat
         /\ \A n \in 1 .. Len(rows[j]) : rows[j][n] \in ImportRow
<1>1. rows[j] \in Seq(ImportRow)
  BY DEF TablesInv
<1>2. QED
  BY <1>1

LEMMA RowsUnchanged ==
  ASSUME TablesInv, UNCHANGED rows
  PROVE  RowsKept
BY DEF TablesInv, RowsKept, IsSettled

\* One row is written, if there is one with that number.
LEMMA RowWritten ==
  ASSUME TablesInv, NEW r \in Requests, NEW row, Write(r, row), request[r].id \in Jobs,
         request[r].next \in 1 .. Len(rows[request[r].id]) =>
           row \in ImportRow /\ (Stored(r).status \in Settled => row.status \in Settled)
  PROVE  /\ RowsKept
         /\ request[r].next \in 1 .. Len(rows[request[r].id]) =>
              rows'[request[r].id][request[r].next] = row
<1> DEFINE j == request[r].id
           n == request[r].next
           written == [rows[j] EXCEPT ![n] = row]
<1>1. rows' = [rows EXCEPT ![j] = written] /\ rows \in [Jobs -> Seq(ImportRow)] /\ j \in Jobs
  BY DEF Write, TablesInv
<1>2. /\ rows[j] \in Seq(ImportRow) /\ DOMAIN rows[j] = 1 .. Len(rows[j]) /\ Len(rows[j]) \in Nat
  BY RowsType
<1>3. n \in 1 .. Len(rows[j]) =>
        row \in ImportRow /\ (rows[j][n].status \in Settled => row.status \in Settled)
  BY DEF Stored
<1> HIDE DEF j, n
<1>4. /\ written \in Seq(ImportRow) /\ Len(written) = Len(rows[j])
      /\ \A k \in 1 .. Len(rows[j]) : written[k] = IF k = n THEN row ELSE rows[j][k]
  <2>1. \A k \in 1 .. Len(rows[j]) : written[k] = IF k = n THEN row ELSE rows[j][k]
    BY <1>2
  <2>2. written = [k \in 1 .. Len(rows[j]) |-> IF k = n THEN row ELSE rows[j][k]]
    BY <1>2
  <2> HIDE DEF written
  <2>3. written \in [1 .. Len(rows[j]) -> ImportRow] /\ DOMAIN written = 1 .. Len(rows[j])
    <3>1. \A k \in 1 .. Len(rows[j]) : rows[j][k] \in ImportRow
      BY <1>2
    <3>2. QED
      BY <1>3, <2>2, <3>1
  <2>4. written \in Seq(ImportRow) /\ Len(written) = Len(rows[j])
    BY <1>2, <2>3
  <2>5. QED
    BY <2>1, <2>4
<1> HIDE DEF written
<1>5. rows' \in [Jobs -> Seq(ImportRow)] /\ rows'[j] = written
      /\ \A k \in Jobs \ {j} : rows'[k] = rows[k]
  BY <1>1, <1>4
<1>6. RowsKept
  BY <1>3, <1>4, <1>5 DEF RowsKept, IsSettled
<1>7. QED
  BY <1>4, <1>5, <1>6 DEF j, n

LEMMA CompletionWritten ==
  ASSUME TablesInv, NEW r \in Requests, NEW proposals \in Proposals,
         Write(r, SetRowCompletion(Stored(r), proposals)), request[r].id \in Jobs
  PROVE  RowsKept
<1> DEFINE row == SetRowCompletion(Stored(r), proposals)
<1>1. ASSUME request[r].next \in 1 .. Len(rows[request[r].id])
      PROVE  row \in ImportRow /\ row.status = Stored(r).status
  <2>1. Stored(r) \in ImportRow
    BY <1>1, RowsType DEF Stored
  <2>2. QED
    BY <2>1 DEF SetRowCompletion, ImportRow
<1> HIDE DEF row
<1>2. QED
  BY <1>1, RowWritten DEF row

LEMMA StateWritten ==
  ASSUME TablesInv, NEW r \in Requests, NEW status \in Settled,
         Write(r, MarkRowState(Stored(r), status)), request[r].id \in Jobs
  PROVE  /\ RowsKept
         /\ request[r].next \in 1 .. Len(rows[request[r].id]) =>
              rows'[request[r].id][request[r].next].status \in Settled
<1> DEFINE row == MarkRowState(Stored(r), status)
           imported == status = "imported"
<1>1. ASSUME request[r].next \in 1 .. Len(rows[request[r].id])
      PROVE  row \in ImportRow /\ row.status = status
  <2>1. Stored(r) \in ImportRow
    BY <1>1, RowsType DEF Stored
  <2>2. row = [Stored(r) EXCEPT !.status = status, !.captured = imported]
    BY DEF MarkRowState
  <2>3. imported \in BOOLEAN /\ status \in RowStatuses
    BY DEF Settled, RowStatuses
  <2> HIDE DEF imported, row
  <2>4. QED
    BY <2>1, <2>2, <2>3 DEF ImportRow
<1> HIDE DEF row
<1>2. QED
  BY <1>1, RowWritten DEF row

-----------------------------------------------------------------------------
(* Steps of a request                                                      *)

\* Jobs stay jobs, and none of them goes away.
JobsKept ==
  /\ DOMAIN jobs' = Jobs /\ \A j \in Jobs : IsJob(jobs'[j])
  /\ \A j \in Jobs : jobs[j].status # "none" => jobs'[j].status # "none"

LEMMA JobsUnchanged ==
  ASSUME TablesInv, UNCHANGED jobs
  PROVE  JobsKept
BY DEF TablesInv, JobsKept

LEMMA RequestKept ==
  ASSUME TablesInv, RowsKept, JobsKept, NEW q, RequestInv(q)
  PROVE  RequestInv(q)'
<1>1. CASE q.at = "committing"
  <2>1. q.id \in Jobs /\ CommitSoFar(q)
    BY <1>1 DEF RequestInv
  <2>2. /\ Len(rows'[q.id]) = Len(rows[q.id]) /\ Len(rows[q.id]) \in Nat
        /\ \A n \in 1 .. Len(rows[q.id]) : IsSettled(q.id, n) => IsSettled(q.id, n)'
    BY <2>1, RowsType DEF RowsKept, IsSettled
  <2>3. Len(q.copy) \in Nat /\ q.next \in Nat \ {0}
    BY <2>1 DEF CommitSoFar
  <2>4. \A i \in 1 .. Len(q.copy) : q.next + i - 1 \in 1 .. Len(rows[q.id])
    BY <2>1, <2>2, <2>3 DEF CommitSoFar
  <2>5. CommitSoFar(q)'
    BY <2>1, <2>2, <2>4 DEF CommitSoFar
  <2>6. QED
    BY <1>1, <2>5 DEF RequestInv, JobsKept
<1>2. CASE q.at # "committing"
  BY <1>2 DEF RequestInv, JobsKept
<1>3. QED
  BY <1>1, <1>2

LEMMA CompletedKept ==
  ASSUME TablesInv, CompletedIsSettled, RowsKept, NEW j \in Jobs, jobs[j].status = "completed"
  PROVE  \A n \in DOMAIN rows'[j] : rows'[j][n].status \in Settled
<1>1. DOMAIN rows[j] = 1 .. Len(rows[j]) /\ Len(rows'[j]) = Len(rows[j]) /\ rows'[j] \in Seq(ImportRow)
  BY RowsType DEF RowsKept
<1>2. DOMAIN rows'[j] = 1 .. Len(rows[j])
  BY <1>1
<1>3. QED
  BY <1>1, <1>2 DEF CompletedIsSettled, RowsKept, IsSettled

\* A request goes on, and does not complete a job.
LEMMA RequestStep ==
  ASSUME ImportInv, RowsKept, JobsKept, NEW r \in Requests, NEW x, IsRequest(x), RequestInv(x)',
         request' = [request EXCEPT ![r] = x],
         \A j \in Jobs : jobs'[j].status = "completed" => jobs[j].status = "completed"
  PROVE  ImportInv'
<1>1. \A q \in Requests : request'[q] = IF q = r THEN x ELSE request[q]
  BY DEF ImportInv, TablesInv
<1>2. TablesInv'
  BY <1>1 DEF ImportInv, TablesInv, RowsKept, JobsKept
<1>3. \A q \in Requests : q # r => RequestInv(request[q])'
  <2>1. ASSUME NEW q \in Requests, q # r PROVE RequestInv(request[q])'
    <3>1. RequestInv(request[q]) /\ request'[q] = request[q]
      BY <1>1, <2>1 DEF ImportInv
    <3> DEFINE w == request[q]
               v == request'[q]
    <3>2. ASSUME NEW u, RequestInv(u) PROVE RequestInv(u)'
      BY <3>2, RequestKept DEF ImportInv
    <3>3. \A u : RequestInv(u) => RequestInv(u)'
      BY <3>2
    <3>4. QED
      BY <3>1, <3>3 DEF RequestInv, CommitSoFar, IsSettled
  <2>2. QED
    BY <2>1
<1>4. RequestInv(request[r])'
  BY <1>1 DEF RequestInv, CommitSoFar, IsSettled
<1>5. \A q \in Requests : RequestInv(request[q])'
  BY <1>3, <1>4
<1>6. CompletedIsSettled'
  BY CompletedKept DEF CompletedIsSettled, ImportInv
<1>7. QED
  BY <1>2, <1>5, <1>6 DEF ImportInv

LEMMA IdleFits == IsRequest(Idle) /\ Idle.at = "idle" /\ Idle.next = 1
BY DEF IsRequest, Idle

LEMMA AnswersStep ==
  ASSUME ImportInv, NEW r \in Requests, Answers(r), RowsKept, JobsKept,
         \A j \in Jobs : jobs'[j].status = "completed" => jobs[j].status = "completed"
  PROVE  ImportInv'
<1>1. RequestInv(Idle)'
  BY IdleFits DEF RequestInv
<1>2. request' = [request EXCEPT ![r] = Idle]
  BY DEF Answers
<1>3. QED
  BY <1>1, <1>2, IdleFits, RequestStep

LEMMA JobUpdated ==
  ASSUME ImportInv, NEW r \in Requests, request[r].at # "idle", NEW status, NEW counts,
         UpdateJob(r, status, counts), status # "none"
  PROVE  /\ JobsKept
         /\ \A j \in Jobs : jobs'[j].status = IF j = request[r].id THEN status ELSE jobs[j].status
<1> DEFINE id == request[r].id
           x == [jobs[id] EXCEPT !.status = status, !.counts = counts]
<1>1. id \in Jobs /\ DOMAIN jobs = Jobs /\ \A j \in Jobs : IsJob(jobs[j])
  BY DEF ImportInv, TablesInv, RequestInv
<1>2. jobs' = [jobs EXCEPT ![id] = x]
  BY DEF UpdateJob
<1>3. IsJob(x) /\ x.status = status
  BY <1>1 DEF IsJob
<1> HIDE DEF x, id
<1>4. \A j \in Jobs : jobs'[j] = IF j = id THEN x ELSE jobs[j]
  BY <1>1, <1>2
<1>5. JobsKept
  BY <1>1, <1>2, <1>3, <1>4 DEF JobsKept
<1>6. QED
  BY <1>3, <1>4, <1>5 DEF id

\* A request that came in: what it has of the job is a free choice here.
LEMMA ServedStep ==
  ASSUME ImportInv, NEW r \in Requests, NEW j \in Jobs, NEW place, jobs[j].status # "none",
         UNCHANGED <<jobs, rows>>, NEW x, request' = [request EXCEPT ![r] = x],
         IsRequest(x), x.at = place, x.id = j,
         place = "listing" => x.next = 1,
         place = "completing" => x.copy \in Seq(Briefs),
         place = "applying" => x.copy \in Seq(Proposals),
         place # "committing"
  PROVE  ImportInv'
<1>1. RequestInv(x)'
  BY DEF RequestInv
<1>2. RowsKept /\ JobsKept
  BY RowsUnchanged, JobsUnchanged DEF ImportInv
<1>3. QED
  BY <1>1, <1>2, RequestStep

LEMMA StartsFits ==
  ASSUME NEW r, NEW j, NEW place
  PROVE  /\ IsRequest(Starts(r, j, place))
         /\ Starts(r, j, place).at = place /\ Starts(r, j, place).id = j
         /\ Starts(r, j, place).next = 1
BY IdleFits DEF Starts, IsRequest

LEMMA StartsStep ==
  ASSUME ImportInv, NEW r \in Requests, NEW j \in Jobs, GetPreview(r, j) \/ Cancel(r, j) \/ Commit(r, j)
  PROVE  ImportInv'
<1>1. PICK place \in {"previewing", "cancelling", "listing"} :
        request' = [request EXCEPT ![r] = Starts(r, j, place)]
  BY DEF GetPreview, Cancel, Commit
<1>2. UNCHANGED <<jobs, rows>> /\ jobs[j].status # "none"
  BY DEF GetPreview, Cancel, Commit, GetJob
<1> DEFINE x == Starts(r, j, place)
<1>3. IsRequest(x) /\ x.at = place /\ x.id = j /\ x.next = 1
  BY StartsFits
<1> HIDE DEF x
<1>4. QED
  BY <1>1, <1>2, <1>3, ServedStep DEF x

LEMMA DecidedFits ==
  ASSUME NEW proposals \in Proposals, NEW wanted
  PROVE  Decided(proposals, wanted) \in Proposals
<1>1. PICK D \in SUBSET Fields : proposals \in [D -> ProposalStatuses]
  BY DEF Proposals
<1>2. Decided(proposals, wanted) \in [D -> ProposalStatuses]
  BY <1>1 DEF Decided, ProposalStatuses
<1>3. QED
  BY <1>2 DEF Proposals

LEMMA LoadStep ==
  ASSUME ImportInv, NEW r \in Requests, NEW j \in Jobs, NEW copy, NEW chosen,
         NEW place \in {"completing", "applying"}, LoadRows(r, j, place, copy, chosen),
         jobs[j].status # "none", UNCHANGED <<jobs, rows>>,
         place = "completing" => copy \in Seq(Briefs),
         place = "applying" => copy \in Seq(Proposals)
  PROVE  ImportInv'
<1> DEFINE x == [Idle EXCEPT !.at = place, !.id = j, !.copy = copy, !.chosen = chosen]
<1>1. IsRequest(x) /\ x.at = place /\ x.id = j /\ x.copy = copy
  BY IdleFits DEF IsRequest
<1>2. request' = [request EXCEPT ![r] = x]
  BY DEF LoadRows
<1> HIDE DEF x
<1>3. QED
  BY <1>1, <1>2, ServedStep

LEMMA CompletionStarts ==
  ASSUME ImportInv, NEW r \in Requests, NEW j \in Jobs, RequestsPreview(r, j) \/ RequestsApply(r, j)
  PROVE  ImportInv'
<1>1. CASE RequestsPreview(r, j)
  <2> DEFINE copy == [n \in DOMAIN rows[j] |->
                        [errors |-> rows[j][n].errors, content |-> rows[j][n].content,
                         given |-> rows[j][n].given]]
  <2>1. PICK chosen : LoadRows(r, j, "completing", copy, chosen)
    BY <1>1 DEF RequestsPreview, CompletionPreview
  <2>2. jobs[j].status # "none" /\ UNCHANGED <<jobs, rows>>
    BY <1>1 DEF RequestsPreview, CompletionPreview, GetJob
  <2>3. DOMAIN rows[j] = 1 .. Len(rows[j]) /\ Len(rows[j]) \in Nat
        /\ \A n \in 1 .. Len(rows[j]) : rows[j][n] \in ImportRow
    BY RowsType DEF ImportInv
  <2>4. copy \in [1 .. Len(rows[j]) -> Briefs]
    BY <2>3 DEF ImportRow, Briefs
  <2> HIDE DEF copy
  <2>5. copy \in Seq(Briefs)
    BY <2>3, <2>4
  <2>6. QED
    BY <2>1, <2>2, <2>5, LoadStep
<1>2. CASE RequestsApply(r, j)
  <2>1. PICK chosen, wanted : CompletionApply(r, j, chosen, wanted)
    BY <1>2 DEF RequestsApply
  <2> DEFINE copy == [n \in DOMAIN rows[j] |-> Decided(rows[j][n].proposals, wanted)]
  <2>2. /\ LoadRows(r, j, "applying", copy, chosen) /\ jobs[j].status # "none"
        /\ UNCHANGED <<jobs, rows>>
    BY <2>1 DEF CompletionApply, GetJob
  <2>3. DOMAIN rows[j] = 1 .. Len(rows[j]) /\ Len(rows[j]) \in Nat
        /\ \A n \in 1 .. Len(rows[j]) : rows[j][n].proposals \in Proposals
    BY RowsType DEF ImportInv, ImportRow
  <2>4. \A n \in 1 .. Len(rows[j]) : Decided(rows[j][n].proposals, wanted) \in Proposals
    BY <2>3, DecidedFits
  <2>5. copy \in [1 .. Len(rows[j]) -> Proposals]
    BY <2>3, <2>4
  <2> HIDE DEF copy
  <2>6. copy \in Seq(Proposals)
    BY <2>3, <2>5
  <2>7. QED
    BY <2>2, <2>6, LoadStep
<1>3. QED
  BY <1>1, <1>2

LEMMA AdvancedFits ==
  ASSUME ImportInv, NEW r \in Requests
  PROVE  \E x : /\ Advanced(r) = [request EXCEPT ![r] = x] /\ IsRequest(x)
                /\ x.at = request[r].at /\ x.id = request[r].id
                /\ x.copy = Tail(request[r].copy) /\ x.next = request[r].next + 1
<1> DEFINE q == request[r]
           x == [q EXCEPT !.copy = Tail(@), !.next = @ + 1]
<1>1. Advanced(r) = [request EXCEPT ![r] = x]
  BY DEF Advanced
<1>2. IsRequest(q)
  BY DEF ImportInv, TablesInv
<1> HIDE DEF q
<1>3. IsRequest(x) /\ x.at = q.at /\ x.id = q.id /\ x.copy = Tail(q.copy) /\ x.next = q.next + 1
  BY <1>2 DEF IsRequest
<1> HIDE DEF x
<1>4. QED
  BY <1>1, <1>3 DEF q

\* A completion goes on to its next row.
LEMMA AdvanceStep ==
  ASSUME ImportInv, NEW r \in Requests, request' = Advanced(r), RowsKept, UNCHANGED jobs,
         \/ Working(r, "completing")
         \/ Working(r, "applying")
  PROVE  ImportInv'
<1>1. PICK x : /\ request' = [request EXCEPT ![r] = x] /\ IsRequest(x)
               /\ x.at = request[r].at /\ x.id = request[r].id /\ x.copy = Tail(request[r].copy)
  BY AdvancedFits
<1>2. /\ x.at = "completing" => x.copy \in Seq(Briefs)
      /\ x.at = "applying" => x.copy \in Seq(Proposals)
  <2>1. /\ x.at = "completing" => request[r].copy \in Seq(Briefs)
        /\ x.at = "applying" => request[r].copy \in Seq(Proposals)
        /\ request[r].copy # <<>>
    BY <1>1 DEF ImportInv, RequestInv, Working
  <2>2. QED
    BY <1>1, <2>1
<1>3. x.id \in Jobs /\ jobs[x.id].status # "none" /\ x.at \in {"completing", "applying"}
  BY <1>1 DEF ImportInv, RequestInv, Working
<1>4. RequestInv(x)'
  BY <1>2, <1>3 DEF RequestInv
<1>5. QED
  BY <1>1, <1>4, JobsUnchanged, RequestStep DEF ImportInv

LEMMA CompletesStep ==
  ASSUME ImportInv, NEW r \in Requests, Completes(r)
  PROVE  ImportInv'
<1>1. ASSUME NEW fields \in SUBSET Fields, GenerateFieldProposals(r, fields) PROVE ImportInv'
  <2> DEFINE proposals == [f \in fields |-> "pending"]
  <2>1. proposals \in [fields -> ProposalStatuses]
    BY DEF ProposalStatuses
  <2>2. proposals \in Proposals
    BY <2>1 DEF Proposals
  <2>3. /\ Write(r, SetRowCompletion(Stored(r), proposals)) /\ Working(r, "completing")
        /\ request' = Advanced(r) /\ UNCHANGED jobs
    BY <1>1 DEF GenerateFieldProposals, Completable
  <2>4. request[r].id \in Jobs
    BY <2>3 DEF ImportInv, RequestInv, Working
  <2> HIDE DEF proposals
  <2>5. RowsKept
    BY <2>2, <2>3, <2>4, CompletionWritten DEF ImportInv
  <2>6. QED
    BY <2>3, <2>5, AdvanceStep
<1>2. CASE GenerateNothing(r)
  BY <1>2, RowsUnchanged, AdvanceStep DEF GenerateNothing, ImportInv
<1>3. CASE ApplyRow(r)
  <2>1. Working(r, "applying") /\ request' = Advanced(r) /\ UNCHANGED jobs
    BY <1>3 DEF ApplyRow
  <2>2. request[r].id \in Jobs /\ request[r].copy \in Seq(Proposals) /\ request[r].copy # <<>>
    BY <2>1 DEF ImportInv, RequestInv, Working
  <2>3. Row(r) \in Proposals
    BY <2>2 DEF Row
  <2>4. UNCHANGED rows \/ Write(r, SetRowCompletion(Stored(r), Row(r)))
    BY <1>3 DEF ApplyRow
  <2>5. RowsKept
    BY <2>2, <2>3, <2>4, CompletionWritten, RowsUnchanged DEF ImportInv
  <2>6. QED
    BY <2>1, <2>5, AdvanceStep
<1>4. CASE CompletionAnswers(r)
  BY <1>4, AnswersStep, RowsUnchanged, JobsUnchanged DEF CompletionAnswers, ImportInv
<1>5. QED
  BY <1>1, <1>2, <1>3, <1>4 DEF Completes

LEMMA MarkStep ==
  ASSUME ImportInv, NEW r \in Requests, MarkPreviewed(r) \/ MarkCancelled(r)
  PROVE  ImportInv'
<1>1. PICK status \in {"previewed", "cancelled"} : UpdateJob(r, status, request[r].counts)
  BY DEF MarkPreviewed, MarkCancelled
<1>2. request[r].at # "idle" /\ Answers(r) /\ UNCHANGED rows
  BY DEF MarkPreviewed, MarkCancelled
<1>3. /\ JobsKept
      /\ \A j \in Jobs : jobs'[j].status = "completed" => jobs[j].status = "completed"
  BY <1>1, <1>2, JobUpdated
<1>4. QED
  BY <1>2, <1>3, AnswersStep, RowsUnchanged DEF ImportInv

-----------------------------------------------------------------------------
(* Steps of a commit                                                       *)

\* A commit that goes on by a row, in numbers.
LEMMA OneRowOn ==
  ASSUME NEW next \in Nat \ {0}, NEW left \in Nat \ {0}, NEW length \in Nat,
         left + next = length + 1
  PROVE  /\ next + 1 \in Nat \ {0} /\ (left - 1) + (next + 1) = length + 1
         /\ \A i \in 1 .. left - 1 :
              /\ i + 1 \in 1 .. left
              /\ next + (i + 1) - 1 = (next + 1) + i - 1
              /\ next + (i + 1) - 1 \in 1 .. length
OBVIOUS

LEMMA ListRowsStep ==
  ASSUME ImportInv, NEW r \in Requests, NEW skips, ListRows(r, skips)
  PROVE  ImportInv'
<1>1. PICK q : q = request[r]
  OBVIOUS
<1>2. PICK x : x = [q EXCEPT !.at = "committing", !.copy = rows[q.id], !.chosen = skips]
  OBVIOUS
<1>3. request' = [request EXCEPT ![r] = x] /\ UNCHANGED <<jobs, rows>>
  BY <1>1, <1>2 DEF ListRows
<1>4. q.id \in Jobs /\ jobs[q.id].status # "none" /\ q.next = 1
  BY <1>1 DEF ListRows, ImportInv, RequestInv
<1>5. DOMAIN q = {"at", "counts", "copy", "id", "chosen", "next", "tally"}
  BY <1>1 DEF ImportInv, TablesInv, IsRequest
<1>6. DOMAIN x = DOMAIN q
  BY <1>2
<1>7. x.at = "committing" /\ x.id = q.id /\ x.copy = rows[q.id] /\ x.next = 1
  BY <1>2, <1>4, <1>5
<1>8. IsRequest(x)
  BY <1>5, <1>6 DEF IsRequest
<1>9. rows[q.id] \in Seq(ImportRow) /\ Len(rows[q.id]) \in Nat
  BY <1>4, RowsType DEF ImportInv
<1>10. CommitSoFar(x)'
  <2>1. \A i \in 1 .. Len(x.copy) : x.next + i - 1 = i
    BY <1>7, <1>9
  <2>2. Len(x.copy) + x.next = Len(rows'[x.id]) + 1 /\ x.next \in Nat \ {0}
    BY <1>3, <1>7, <1>9
  <2>3. \A n \in 1 .. Len(rows'[x.id]) : ~ n < x.next
    BY <1>3, <1>7, <1>9
  <2>4. QED
    BY <1>3, <1>7, <1>9, <2>1, <2>2, <2>3 DEF CommitSoFar, IsSettled
<1>11. RequestInv(x)'
  BY <1>3, <1>4, <1>7, <1>10 DEF RequestInv
<1>12. QED
  BY <1>3, <1>8, <1>11, RowsUnchanged, JobsUnchanged, RequestStep DEF ImportInv

LEMMA TalliedFits ==
  ASSUME ImportInv, NEW r \in Requests, NEW status
  PROVE  \E x : /\ Tallied(r, status) = [request EXCEPT ![r] = x] /\ IsRequest(x)
                /\ x.at = request[r].at /\ x.id = request[r].id
                /\ x.copy = Tail(request[r].copy) /\ x.next = request[r].next + 1
<1> DEFINE q == request[r]
           x == [q EXCEPT !.copy = Tail(@), !.next = @ + 1, !.tally[status] = @ + 1]
<1>1. Tallied(r, status) = [request EXCEPT ![r] = x]
  BY DEF Tallied
<1>2. IsRequest(q)
  BY DEF ImportInv, TablesInv
<1> HIDE DEF q
<1>3. IsRequest(x) /\ x.at = q.at /\ x.id = q.id /\ x.copy = Tail(q.copy) /\ x.next = q.next + 1
  BY <1>2 DEF IsRequest
<1> HIDE DEF x
<1>4. QED
  BY <1>1, <1>3 DEF q

\* A commit has settled its next row, or found it settled.
LEMMA TalliedStep ==
  ASSUME ImportInv, NEW r \in Requests, NEW status, request' = Tallied(r, status), CommitsRow(r),
         RowsKept, UNCHANGED jobs, rows'[request[r].id][request[r].next].status \in Settled
  PROVE  ImportInv'
<1> PICK q : q = request[r]
  OBVIOUS
<1>1. q.at = "committing" /\ q.copy # <<>> /\ CommitSoFar(q) /\ q.id \in Jobs /\ jobs[q.id].status # "none"
  BY DEF CommitsRow, Working, ImportInv, RequestInv
<1>2. PICK x : /\ request' = [request EXCEPT ![r] = x] /\ IsRequest(x)
               /\ x.at = q.at /\ x.id = q.id /\ x.copy = Tail(q.copy) /\ x.next = q.next + 1
  BY TalliedFits
<1>3. /\ Len(rows'[q.id]) = Len(rows[q.id]) /\ Len(rows[q.id]) \in Nat
      /\ \A n \in 1 .. Len(rows[q.id]) : IsSettled(q.id, n) => IsSettled(q.id, n)'
  BY <1>1, RowsType DEF RowsKept, IsSettled, ImportInv
<1>4. IsSettled(q.id, q.next)'
  BY DEF IsSettled
<1>5. /\ q.copy \in Seq(ImportRow) /\ q.next \in Nat \ {0} /\ Len(q.copy) \in Nat \ {0}
      /\ Len(q.copy) + q.next = Len(rows[q.id]) + 1
  BY <1>1 DEF CommitSoFar
<1> DEFINE next == q.next
           left == Len(q.copy)
           length == Len(rows[q.id])
<1>6. /\ next + 1 \in Nat \ {0} /\ (left - 1) + (next + 1) = length + 1
      /\ \A i \in 1 .. left - 1 :
           /\ i + 1 \in 1 .. left
           /\ next + (i + 1) - 1 = (next + 1) + i - 1
           /\ next + (i + 1) - 1 \in 1 .. length
  <2>1. next \in Nat \ {0} /\ left \in Nat \ {0} /\ length \in Nat /\ left + next = length + 1
    BY <1>3, <1>5
  <2> HIDE DEF next, left, length
  <2>2. QED
    BY <2>1, OneRowOn
<1>7. /\ x.copy \in Seq(ImportRow) /\ Len(x.copy) = Len(q.copy) - 1
      /\ \A i \in 1 .. Len(x.copy) : x.copy[i] = q.copy[i + 1]
  <2>1. q.copy \in Seq(ImportRow) /\ q.copy # <<>> /\ x.copy = Tail(q.copy)
    BY <1>1, <1>2, <1>5
  <2>2. Tail(q.copy) \in Seq(ImportRow) /\ Len(Tail(q.copy)) = Len(q.copy) - 1
    BY <2>1
  <2>3. \A i \in 1 .. Len(Tail(q.copy)) : Tail(q.copy)[i] = q.copy[i + 1]
    BY <2>1, <2>2, HeadTailProperties
  <2>4. QED
    BY <2>1, <2>2, <2>3
<1>8. x.next \in Nat \ {0} /\ Len(x.copy) + x.next = Len(rows'[x.id]) + 1
  <2>1. x.next = q.next + 1 /\ Len(x.copy) = Len(q.copy) - 1
    BY <1>2, <1>7
  <2>2. Len(rows'[x.id]) = Len(rows[q.id])
    BY <1>2, <1>3
  <2>3. q.next + 1 \in Nat \ {0} /\ Len(q.copy) - 1 + (q.next + 1) = Len(rows[q.id]) + 1
    BY <1>6
  <2>4. QED
    BY <2>1, <2>2, <2>3
<1>9. \A n \in 1 .. Len(rows'[x.id]) : n < x.next => IsSettled(x.id, n)'
  BY <1>1, <1>2, <1>3, <1>4, <1>5 DEF CommitSoFar
<1>10. \A i \in 1 .. Len(x.copy) : x.copy[i].status \in Settled => IsSettled(x.id, x.next + i - 1)'
  <2>1. ASSUME NEW i \in 1 .. Len(x.copy), x.copy[i].status \in Settled
        PROVE  IsSettled(x.id, x.next + i - 1)'
    <3>1. Len(x.copy) = Len(q.copy) - 1
      BY <1>7
    <3>2. i + 1 \in 1 .. Len(q.copy) /\ q.next + (i + 1) - 1 = (q.next + 1) + i - 1
      BY <1>6, <3>1
    <3>3. x.copy[i] = q.copy[i + 1]
      BY <1>7
    <3>4. IsSettled(q.id, q.next + (i + 1) - 1)
      <4>1. \A k \in 1 .. Len(q.copy) :
              q.copy[k].status \in Settled => IsSettled(q.id, q.next + k - 1)
        BY <1>1 DEF CommitSoFar
      <4>2. q.copy[i + 1].status \in Settled
        BY <2>1, <3>3
      <4>3. QED
        BY <3>2, <4>1, <4>2
    <3>5. q.next + (i + 1) - 1 \in 1 .. Len(rows[q.id])
      BY <1>6, <3>1
    <3>6. IsSettled(q.id, q.next + (i + 1) - 1)'
      BY <1>3, <3>4, <3>5
    <3>7. x.next + i - 1 = q.next + (i + 1) - 1 /\ x.id = q.id
      BY <1>2, <3>2
    <3>8. QED
      BY <3>6, <3>7 DEF IsSettled
  <2>2. QED
    BY <2>1
<1>11. CommitSoFar(x)'
  BY <1>7, <1>8, <1>9, <1>10 DEF CommitSoFar
<1>12. RequestInv(x)'
  BY <1>1, <1>2, <1>11 DEF RequestInv
<1>13. QED
  BY <1>2, <1>12, JobsUnchanged, RequestStep DEF ImportInv

LEMMA CommitsStep ==
  ASSUME ImportInv, NEW r \in Requests, Commits(r)
  PROVE  ImportInv'
<1>1. ASSUME CommitsRow(r)
      PROVE  /\ request[r].id \in Jobs /\ CommitSoFar(request[r]) /\ request[r].copy # <<>>
             /\ request[r].next \in 1 .. Len(rows[request[r].id])
  <2>1. request[r].id \in Jobs /\ CommitSoFar(request[r]) /\ request[r].copy # <<>>
    BY <1>1 DEF CommitsRow, Working, ImportInv, RequestInv
  <2>2. Len(request[r].copy) \in Nat \ {0}
    BY <2>1 DEF CommitSoFar
  <2>3. Len(rows[request[r].id]) \in Nat
    BY <2>1, RowsType DEF ImportInv
  <2>4. QED
    BY <2>1, <2>2, <2>3 DEF CommitSoFar
<1>2. ASSUME NEW skips, ListRows(r, skips) PROVE ImportInv'
  BY <1>2, ListRowsStep
<1>3. CASE CountRow(r)
  <2>1. /\ CommitsRow(r) /\ Row(r).status \in Settled /\ request' = Tallied(r, Row(r).status)
        /\ UNCHANGED <<jobs, rows>>
    BY <1>3 DEF CountRow
  <2>2. /\ CommitSoFar(request[r]) /\ request[r].copy # <<>> /\ request[r].id \in Jobs
        /\ request[r].next \in 1 .. Len(rows[request[r].id])
    BY <1>1, <2>1
  <2>3. Row(r) = request[r].copy[1] /\ 1 \in 1 .. Len(request[r].copy)
    BY <2>2 DEF Row, CommitSoFar
  <2>4. IsSettled(request[r].id, request[r].next + 1 - 1)
    BY <2>1, <2>2, <2>3 DEF CommitSoFar
  <2>5. request[r].next + 1 - 1 = request[r].next
    BY <2>2 DEF CommitSoFar
  <2>6. rows'[request[r].id][request[r].next].status \in Settled
    BY <2>1, <2>4, <2>5 DEF IsSettled
  <2>7. RowsKept
    BY <2>1, RowsUnchanged DEF ImportInv
  <2>8. QED
    BY <2>1, <2>6, <2>7, TalliedStep
<1>4. CASE SkipRow(r) \/ CommitRow(r) \/ FailRow(r) \/ LoseCommitAnswer(r)
  <2>1. PICK written \in Settled, counted \in Settled :
          /\ Write(r, MarkRowState(Stored(r), written))
          /\ request' = Tallied(r, counted)
    BY <1>4 DEF SkipRow, CommitRow, FailRow, LoseCommitAnswer, Settled
  <2>2. CommitsRow(r) /\ UNCHANGED jobs
    BY <1>4 DEF SkipRow, CommitRow, FailRow, LoseCommitAnswer, Importable
  <2>3. RowsKept /\ rows'[request[r].id][request[r].next].status \in Settled
    BY <1>1, <2>1, <2>2, StateWritten DEF ImportInv
  <2>4. QED
    BY <2>1, <2>2, <2>3, TalliedStep
<1>5. CASE CompleteJob(r)
  <2>1. PICK q : q = request[r]
    OBVIOUS
  <2>2. q.at = "committing" /\ q.copy = <<>> /\ CommitSoFar(q) /\ q.id \in Jobs
    BY <1>5, <2>1 DEF CompleteJob, ImportInv, RequestInv
  <2>3. /\ UpdateJob(r, "completed", CommittedCounts(r)) /\ Answers(r) /\ UNCHANGED rows
    BY <1>5 DEF CompleteJob
  <2>4. JobsKept /\ \A j \in Jobs : jobs'[j].status = IF j = q.id THEN "completed" ELSE jobs[j].status
    BY <2>1, <2>2, <2>3, JobUpdated
  <2>5. \A n \in 1 .. Len(rows[q.id]) : IsSettled(q.id, n)
    <3>1. Len(rows[q.id]) \in Nat /\ q.next \in Nat
      BY <2>2, RowsType DEF ImportInv, CommitSoFar
    <3>2. Len(q.copy) = 0
      BY <2>2
    <3>3. q.next = Len(rows[q.id]) + 1
      BY <2>2, <3>1, <3>2 DEF CommitSoFar
    <3>4. QED
      BY <2>2, <3>1, <3>3 DEF CommitSoFar
  <2>6. DOMAIN rows[q.id] = 1 .. Len(rows[q.id])
    BY <2>2, RowsType DEF ImportInv
  <2>7. CompletedIsSettled'
    BY <2>3, <2>4, <2>5, <2>6 DEF CompletedIsSettled, ImportInv, IsSettled
  <2>8. RowsKept
    BY <2>3, RowsUnchanged DEF ImportInv
  <2>9. \A p \in Requests : request'[p] = IF p = r THEN Idle ELSE request[p]
    BY <2>3 DEF Answers, ImportInv, TablesInv
  <2>10. TablesInv'
    BY <2>4, <2>8, <2>3, <2>9, IdleFits DEF ImportInv, TablesInv, RowsKept, JobsKept, Answers
  <2>11. \A u : RequestInv(u) => RequestInv(u)'
    <3>1. ASSUME NEW u, RequestInv(u) PROVE RequestInv(u)'
      BY <2>4, <2>8, <3>1, RequestKept DEF ImportInv
    <3>2. QED
      BY <3>1
  <2>12. ASSUME NEW p \in Requests PROVE RequestInv(request[p])'
    <3>1. CASE p = r
      BY <2>9, <3>1, IdleFits DEF RequestInv
    <3>2. CASE p # r
      <4>1. RequestInv(request[p]) /\ request'[p] = request[p]
        BY <2>9, <3>2 DEF ImportInv
      <4>2. QED
        BY <2>11, <4>1 DEF RequestInv, CommitSoFar, IsSettled
    <3>3. QED
      BY <3>1, <3>2
  <2>13. QED
    BY <2>7, <2>10, <2>12 DEF ImportInv
<1>6. QED
  BY <1>2, <1>3, <1>4, <1>5 DEF Commits

-----------------------------------------------------------------------------
(* Jobs                                                                    *)

LEMMA BuiltRows ==
  ASSUME NEW text \in Texts, Accepted(text)
  PROVE  BuildImportRows(ParsedRows(text)) \in Seq(ImportRow)
<1> DEFINE parsed == ParsedRows(text)
           built == BuildImportRows(parsed)
<1>1. Len(parsed) \in 1 .. MaxRows
  BY DEF Accepted, ParsedRows
<1>2. Len(parsed) \in Nat
  BY <1>1, MaxRowsAssumption
<1>3. \A n \in 1 .. Len(parsed) : parsed[n] \in ParsedOf
  BY <1>1, <1>2, MaxRowsAssumption DEF ParsedOf
<1>4. NoProposals \in Proposals
  <2>1. NoProposals \in [{} -> ProposalStatuses]
    BY DEF NoProposals
  <2>2. {} \in SUBSET Fields
    OBVIOUS
  <2>3. QED
    BY <2>1, <2>2 DEF Proposals
<1>5. \A n : Dedupe(parsed, n) \in DedupeStatuses
  BY DEF Dedupe, DedupeStatuses
<1> DEFINE row(n) == [ext |-> parsed[n].external_id, content |-> parsed[n].content,
                      given |-> parsed[n].given, errors |-> parsed[n].errors,
                      dedupe |-> Dedupe(parsed, n),
                      status |-> IF parsed[n].errors = {} THEN "pending" ELSE "needs_input",
                      captured |-> FALSE, proposals |-> NoProposals]
<1>6. built = [n \in 1 .. Len(parsed) |-> row(n)]
  BY DEF BuildImportRows
<1> HIDE DEF parsed
<1>7. ASSUME NEW n \in 1 .. Len(parsed) PROVE row(n) \in ImportRow
  <2>1. parsed[n] \in ParsedOf
    BY <1>3
  <2>2. (IF parsed[n].errors = {} THEN "pending" ELSE "needs_input") \in RowStatuses
    BY DEF RowStatuses
  <2>3. QED
    BY <1>4, <1>5, <2>1, <2>2 DEF ImportRow
<1> HIDE DEF row, built
<1>8. built \in [1 .. Len(parsed) -> ImportRow]
  BY <1>6, <1>7
<1>9. built \in Seq(ImportRow)
  BY <1>2, <1>8
<1>10. QED
  BY <1>9 DEF built, parsed

LEMMA CreateStep ==
  ASSUME ImportInv, NEW j \in Jobs, NEW text \in Texts, CreateJob(j, text)
  PROVE  ImportInv'
<1> DEFINE built == BuildImportRows(ParsedRows(text))
           job == [status |-> "draft", counts |-> DraftCounts(built), text |-> text]
<1>1. /\ jobs[j].status = "none" /\ UNCHANGED request
      /\ jobs' = [jobs EXCEPT ![j] = job] /\ rows' = [rows EXCEPT ![j] = built]
  BY DEF CreateJob, InsertJob
<1>2. built \in Seq(ImportRow)
  BY BuiltRows DEF CreateJob
<1>3. IsJob(job) /\ job.status = "draft"
  BY DEF IsJob
<1> HIDE DEF built, job
<1>4. /\ \A k \in Jobs : jobs'[k] = IF k = j THEN job ELSE jobs[k]
      /\ \A k \in Jobs : k # j => rows'[k] = rows[k]
      /\ DOMAIN jobs' = Jobs /\ rows' \in [Jobs -> Seq(ImportRow)]
  BY <1>1, <1>2 DEF ImportInv, TablesInv
<1>5. TablesInv'
  BY <1>1, <1>3, <1>4 DEF ImportInv, TablesInv
<1>6. CompletedIsSettled'
  BY <1>3, <1>4 DEF ImportInv, CompletedIsSettled
<1>7. ASSUME NEW r \in Requests PROVE RequestInv(request[r])'
  <2>1. RequestInv(request[r]) /\ request'[r] = request[r]
    BY <1>1 DEF ImportInv
  <2>2. request[r].at # "idle" => request[r].id # j
    BY <1>1, <2>1 DEF RequestInv
  <2>3. CASE request[r].at = "idle"
    BY <2>1, <2>3 DEF RequestInv
  <2>4. CASE request[r].at # "idle"
    <3>1. request[r].id \in Jobs
      BY <2>1, <2>4 DEF RequestInv
    <3>2. /\ jobs'[request[r].id] = jobs[request[r].id]
          /\ rows'[request[r].id] = rows[request[r].id]
      BY <1>4, <2>2, <2>4, <3>1
    <3>3. QED
      BY <2>1, <2>4, <3>2 DEF RequestInv, CommitSoFar, IsSettled
  <2>5. QED
    BY <2>3, <2>4
<1>8. QED
  BY <1>5, <1>6, <1>7 DEF ImportInv

LEMMA ImportNext == ImportInv /\ [Next]_vars => ImportInv'
<1> SUFFICES ASSUME ImportInv, [Next]_vars PROVE ImportInv'
  OBVIOUS
<1>1. ASSUME UNCHANGED <<jobs, rows, request>> PROVE ImportInv'
  <2>1. TablesInv' /\ CompletedIsSettled'
    BY <1>1 DEF ImportInv, TablesInv, CompletedIsSettled
  <2>2. \A r \in Requests : RequestInv(request[r])'
    BY <1>1 DEF ImportInv, RequestInv, CommitSoFar, IsSettled
  <2>3. QED
    BY <2>1, <2>2 DEF ImportInv
<1>2. ASSUME NEW r \in Requests, Abort(r) PROVE ImportInv'
  BY <1>2, AnswersStep, RowsUnchanged, JobsUnchanged DEF Abort, ImportInv
<1>3. ASSUME NEW r \in Requests, NEW j \in Jobs, Requested(r, j) PROVE ImportInv'
  BY <1>3, StartsStep, CompletionStarts DEF Requested
<1>4. QED
  BY <1>1, <1>2, <1>3, CreateStep, MarkStep, CompletesStep, CommitsStep
  DEF Next, SetLifecycle, ImportSingle, vars

LEMMA ImportInit == Init => ImportInv
<1> SUFFICES ASSUME Init PROVE ImportInv
  OBVIOUS
<1>1. IsJob(NoJob) /\ NoJob.status = "none"
  BY DEF IsJob, NoJob
<1>2. TablesInv
  <2>1. DOMAIN jobs = Jobs /\ \A j \in Jobs : IsJob(jobs[j])
    BY <1>1 DEF Init
  <2>2. DOMAIN request = Requests /\ \A r \in Requests : IsRequest(request[r])
    BY IdleFits DEF Init
  <2>3. rows \in [Jobs -> Seq(ImportRow)]
    BY DEF Init
  <2>4. QED
    BY <2>1, <2>2, <2>3 DEF TablesInv
<1>3. \A r \in Requests : RequestInv(request[r])
  BY IdleFits DEF Init, RequestInv
<1>4. CompletedIsSettled
  BY <1>1 DEF Init, CompletedIsSettled
<1>5. QED
  BY <1>2, <1>3, <1>4 DEF ImportInv

\* No row of a completed job is left to do, however many commits overlap and
\* fail, whatever cancels, previews and completions write between their steps.
THEOREM CompletedJobsAreDone == Spec => []CompletedIsSettled
<1>1. ImportInv => CompletedIsSettled
  BY DEF ImportInv
<1>2. QED
  BY ImportInit, ImportNext, <1>1, PTL DEF Spec

-----------------------------------------------------------------------------
(* Rows, one by one                                                        *)

\* A request that goes by row is at a row that is there.
LEMMA AtARow ==
  ASSUME ImportInv, TypeInv, NEW r \in Requests, NEW place \in GoesByRow, Working(r, place)
  PROVE  /\ request[r].id \in Jobs /\ request[r].at = place
         /\ request[r].copy \in Seq(ImportRow \cup Proposals \cup Briefs) /\ request[r].copy # <<>>
         /\ Len(request[r].copy) \in Nat \ {0} /\ request[r].next \in Nat \ {0}
         /\ Len(rows[request[r].id]) \in Nat
         /\ Len(request[r].copy) + request[r].next = Len(rows[request[r].id]) + 1
         /\ request[r].next \in 1 .. Len(rows[request[r].id])
         /\ Row(r) = request[r].copy[1] /\ Stored(r) = RowAhead(request[r], 1)
         /\ Stored(r) \in ImportRow
<1>1. request[r].at = place /\ place \in {"completing", "applying", "committing"} /\ request[r].copy # <<>>
  BY DEF Working, GoesByRow
<1>2. request[r].id \in Jobs /\ RequestInv(request[r])
  BY <1>1 DEF ImportInv, RequestInv
<1>3. /\ Len(request[r].copy) + request[r].next = Len(rows[request[r].id]) + 1
      /\ request[r].next \in 1 .. MaxRows + 1
  BY <1>1 DEF TypeInv, TypeOK, HandFits
<1>4. request[r].copy \in Seq(ImportRow) \/ request[r].copy \in Seq(Proposals)
      \/ request[r].copy \in Seq(Briefs)
  BY <1>1, <1>2 DEF RequestInv, CommitSoFar
<1>5. request[r].copy \in Seq(ImportRow \cup Proposals \cup Briefs)
  BY <1>4
<1>6. Len(request[r].copy) \in Nat \ {0}
  BY <1>1, <1>5
<1>7. rows[request[r].id] \in Seq(ImportRow) /\ Len(rows[request[r].id]) \in Nat
  BY <1>2, RowsType DEF ImportInv
<1>8. request[r].next \in Nat \ {0} /\ request[r].next \in 1 .. Len(rows[request[r].id])
  <2>1. \A next \in 1 .. MaxRows + 1 : next \in Nat \ {0}
    BY MaxRowsAssumption
  <2>2. request[r].next \in Nat \ {0}
    BY <1>3, <2>1
  <2>3. \A next, left \in Nat \ {0}, length \in Nat :
          left + next = length + 1 => next \in 1 .. length
    OBVIOUS
  <2>4. QED
    BY <1>3, <1>6, <1>7, <2>2, <2>3
<1>9. Row(r) = request[r].copy[1] /\ Stored(r) = RowAhead(request[r], 1)
  BY <1>5, <1>8 DEF Row, Stored, RowAhead
<1>10. Stored(r) \in ImportRow
  BY <1>7, <1>8 DEF Stored
<1>11. QED
  BY <1>1, <1>2, <1>3, <1>5, <1>6, <1>7, <1>8, <1>9, <1>10

\* Only the rows of one job, and of them one, are other than they were.
Rewritten(j, n, row) ==
  \A k \in Jobs :
    /\ DOMAIN rows'[k] = DOMAIN rows[k] /\ Len(rows'[k]) = Len(rows[k])
    /\ k # j => rows'[k] = rows[k]
    /\ \A m \in 1 .. Len(rows[k]) : rows'[k][m] = IF k = j /\ m = n THEN row ELSE rows[k][m]

LEMMA WriteRewrites ==
  ASSUME TablesInv, NEW r \in Requests, NEW row, Write(r, row), request[r].id \in Jobs,
         request[r].next \in 1 .. Len(rows[request[r].id])
  PROVE  Rewritten(request[r].id, request[r].next, row)
<1> DEFINE j == request[r].id
           n == request[r].next
           written == [rows[j] EXCEPT ![n] = row]
<1>1. /\ rows' = [rows EXCEPT ![j] = written] /\ rows \in [Jobs -> Seq(ImportRow)] /\ j \in Jobs
      /\ n \in 1 .. Len(rows[j])
  BY DEF Write, TablesInv
<1>2. \A k \in Jobs : DOMAIN rows[k] = 1 .. Len(rows[k]) /\ Len(rows[k]) \in Nat
  BY RowsType
<1>3. /\ DOMAIN written = DOMAIN rows[j]
      /\ \A m \in 1 .. Len(rows[j]) : written[m] = IF m = n THEN row ELSE rows[j][m]
  BY <1>1, <1>2
<1>4. written \in [1 .. Len(rows[j]) -> ImportRow \cup {row}]
  <2>1. written = [m \in 1 .. Len(rows[j]) |-> IF m = n THEN row ELSE rows[j][m]]
    BY <1>1, <1>2
  <2>2. \A m \in 1 .. Len(rows[j]) : rows[j][m] \in ImportRow
    BY RowsType
  <2> HIDE DEF written, j, n
  <2>3. QED
    BY <2>1, <2>2
<1> HIDE DEF written, j, n
<1>5. Len(written) = Len(rows[j])
  <2>1. written \in Seq(ImportRow \cup {row})
    <3>1. Len(rows[j]) \in Nat
      BY <1>1, <1>2
    <3>2. QED
      BY <1>4, <3>1
  <2>2. DOMAIN written = 1 .. Len(written) /\ Len(written) \in Nat
    BY <2>1
  <2>3. 1 .. Len(written) = 1 .. Len(rows[j])
    BY <1>1, <1>2, <1>3, <2>2
  <2>4. QED
    BY <1>1, <1>2, <2>2, <2>3
<1>6. rows'[j] = written /\ \A k \in Jobs \ {j} : rows'[k] = rows[k]
  BY <1>1
<1>7. QED
  BY <1>1, <1>3, <1>5, <1>6 DEF Rewritten, j, n

\* Of the request, only the copy, the number of the row and the tally change.
LEMMA AdvancedIs ==
  ASSUME ImportInv, NEW r \in Requests
  PROVE  \E x : /\ Advanced(r) = [request EXCEPT ![r] = x] /\ IsRequest(x)
                /\ x.at = request[r].at /\ x.id = request[r].id /\ x.counts = request[r].counts
                /\ x.copy = Tail(request[r].copy) /\ x.next = request[r].next + 1
                /\ x.tally = request[r].tally
<1> DEFINE q == request[r]
           x == [q EXCEPT !.copy = Tail(@), !.next = @ + 1]
<1>1. Advanced(r) = [request EXCEPT ![r] = x]
  BY DEF Advanced
<1>2. IsRequest(q)
  BY DEF ImportInv, TablesInv
<1> HIDE DEF q
<1>3. /\ IsRequest(x) /\ x.at = q.at /\ x.id = q.id /\ x.copy = Tail(q.copy) /\ x.next = q.next + 1
      /\ x.counts = q.counts /\ x.tally = q.tally
  BY <1>2 DEF IsRequest
<1> HIDE DEF x
<1>4. QED
  BY <1>1, <1>3 DEF q

LEMMA TalliedIs ==
  ASSUME ImportInv, NEW r \in Requests, NEW status
  PROVE  \E x : /\ Tallied(r, status) = [request EXCEPT ![r] = x] /\ IsRequest(x)
                /\ x.at = request[r].at /\ x.id = request[r].id /\ x.counts = request[r].counts
                /\ x.copy = Tail(request[r].copy) /\ x.next = request[r].next + 1
                /\ x.tally = [request[r].tally EXCEPT ![status] = @ + 1]
<1> DEFINE q == request[r]
           x == [q EXCEPT !.copy = Tail(@), !.next = @ + 1, !.tally[status] = @ + 1]
<1>1. Tallied(r, status) = [request EXCEPT ![r] = x]
  BY DEF Tallied
<1>2. IsRequest(q)
  BY DEF ImportInv, TablesInv
<1> HIDE DEF q
<1>3. /\ IsRequest(x) /\ x.at = q.at /\ x.id = q.id /\ x.copy = Tail(q.copy) /\ x.next = q.next + 1
      /\ x.counts = q.counts /\ x.tally = [q.tally EXCEPT ![status] = @ + 1]
  BY <1>2 DEF IsRequest
<1> HIDE DEF x
<1>4. QED
  BY <1>1, <1>3 DEF q

-----------------------------------------------------------------------------
(* Captures                                                                *)

IsCapture(c) ==
  DOMAIN c = {"status", "ext", "hash", "card"} /\ c.status \in {"absent", "live", "trashed"}

CapturesInv == DOMAIN captures = CaptureIds /\ \A c \in CaptureIds : IsCapture(captures[c])

\* Captures do not go away.
NothingForgotten ==
  \A c \in CaptureIds : captures[c].status # "absent" => captures'[c].status # "absent"

LEMMA CaptureCreated ==
  ASSUME CapturesInv, NEW r \in Requests, captures' = CreateCapture(r)
  PROVE  /\ CapturesInv' /\ NothingForgotten
         /\ RowId(r) \in CaptureIds => captures'[RowId(r)].status = "live"
         /\ \A c \in CaptureIds : c # RowId(r) => captures'[c] = captures[c]
<1> DEFINE new == [status |-> "live", ext |-> Row(r).ext, hash |-> Words(Row(r).content),
                   card |-> ApplyAcceptedProposals(Row(r), PipelineCard(Row(r)))]
<1>1. \/ captures' = captures /\ captures[RowId(r)].status = "live"
      \/ captures' = [captures EXCEPT ![RowId(r)] = new]
  BY DEF CreateCapture
<1>2. IsCapture(new) /\ new.status = "live"
  BY DEF IsCapture
<1> HIDE DEF new
<1>3. CASE captures' = captures /\ captures[RowId(r)].status = "live"
  BY <1>3 DEF CapturesInv, NothingForgotten
<1>4. CASE captures' = [captures EXCEPT ![RowId(r)] = new]
  <2>1. /\ DOMAIN captures' = CaptureIds
        /\ \A c \in CaptureIds : captures'[c] = IF c = RowId(r) THEN new ELSE captures[c]
    BY <1>4 DEF CapturesInv
  <2>2. QED
    BY <1>2, <2>1 DEF CapturesInv, NothingForgotten
<1>5. QED
  BY <1>1, <1>3, <1>4

LEMMA CapturesNext ==
  ASSUME CapturesInv, [Next]_vars
  PROVE  CapturesInv' /\ NothingForgotten
<1>1. ASSUME UNCHANGED captures PROVE CapturesInv' /\ NothingForgotten
  BY <1>1 DEF CapturesInv, NothingForgotten
<1>2. ASSUME NEW r \in Requests, captures' = CreateCapture(r) PROVE CapturesInv' /\ NothingForgotten
  BY <1>2, CaptureCreated
<1>3. ASSUME NEW c \in CaptureIds, SetLifecycle(c) PROVE CapturesInv' /\ NothingForgotten
  <2>1. captures' = [captures EXCEPT ![c] = [captures[c] EXCEPT !.status = "trashed"]]
    BY <1>3 DEF SetLifecycle
  <2> DEFINE new == [captures[c] EXCEPT !.status = "trashed"]
  <2>2. IsCapture(new) /\ new.status = "trashed"
    BY DEF CapturesInv, IsCapture
  <2> HIDE DEF new
  <2>3. /\ DOMAIN captures' = CaptureIds
        /\ \A d \in CaptureIds : captures'[d] = IF d = c THEN new ELSE captures[d]
    BY <2>1 DEF CapturesInv, new
  <2>4. QED
    BY <2>2, <2>3 DEF CapturesInv, NothingForgotten
<1>4. ASSUME NEW s \in Singles, ImportSingle(s) PROVE CapturesInv' /\ NothingForgotten
  <2> DEFINE new == [status |-> "live", ext |-> s.ext, hash |-> s.hash,
                     card |-> PipelineCard([given |-> {}])]
  <2>1. captures' = [captures EXCEPT ![s.id] = new]
    BY <1>4 DEF ImportSingle
  <2>2. IsCapture(new) /\ new.status = "live"
    BY DEF IsCapture
  <2> HIDE DEF new
  <2>3. /\ DOMAIN captures' = CaptureIds
        /\ \A d \in CaptureIds : captures'[d] = IF d = s.id THEN new ELSE captures[d]
    BY <2>1 DEF CapturesInv
  <2>4. QED
    BY <2>2, <2>3 DEF CapturesInv, NothingForgotten
<1>5. ASSUME NEW r \in Requests, NEW j \in Jobs, Requested(r, j) PROVE UNCHANGED captures
  BY <1>5 DEF Requested, GetPreview, Cancel, Commit, RequestsPreview, CompletionPreview,
              RequestsApply, CompletionApply
<1>6. ASSUME NEW r \in Requests, MarkPreviewed(r) \/ MarkCancelled(r) \/ Completes(r) \/ Abort(r)
      PROVE  UNCHANGED captures
  BY <1>6 DEF MarkPreviewed, MarkCancelled, Completes, GenerateFieldProposals, GenerateNothing,
              ApplyRow, CompletionAnswers, Abort
<1>7. ASSUME NEW r \in Requests, Commits(r)
      PROVE  UNCHANGED captures \/ captures' = CreateCapture(r)
  <2>1. CASE CommitRow(r) \/ LoseCommitAnswer(r)
    BY <2>1 DEF CommitRow, LoseCommitAnswer
  <2>2. CASE \E skips \in SUBSET (1 .. MaxRows) : ListRows(r, skips)
    BY <2>2 DEF ListRows
  <2>3. CASE CountRow(r) \/ SkipRow(r) \/ FailRow(r) \/ CompleteJob(r)
    BY <2>3 DEF CountRow, SkipRow, FailRow, CompleteJob
  <2>4. QED
    BY <1>7, <2>1, <2>2, <2>3 DEF Commits
<1>8. ASSUME NEW j \in Jobs, NEW text \in Texts, CreateJob(j, text) PROVE UNCHANGED captures
  BY <1>8 DEF CreateJob
<1>9. QED
  BY <1>1, <1>2, <1>3, <1>4, <1>5, <1>6, <1>7, <1>8 DEF Next, vars

LEMMA CapturesInit == Init => CapturesInv
<1>1. IsCapture(Absentee)
  BY DEF IsCapture, Absentee
<1>2. QED
  BY <1>1 DEF Init, CapturesInv

-----------------------------------------------------------------------------
(* Types                                                                   *)

Places == {"idle", "previewing", "cancelling", "completing", "applying", "listing", "committing"}

RowFits(row) ==
  /\ row.status \in RowStatuses
  /\ row.dedupe \in DedupeStatuses
  /\ row.captured <=> row.status = "imported"
  /\ DOMAIN row.proposals \subseteq Fields \ row.given

RequestFits(q) == q.at \in Places /\ q.next \in 1 .. MaxRows + 1 /\ HandFits(q)

JobsFit ==
  /\ jobs \in [Jobs -> JobType]
  /\ \A j \in Jobs : DOMAIN rows[j] = 1 .. jobs[j].counts["total"]

\* TypeInv in the parts that its proof goes by.
TypeParts ==
  /\ JobsFit
  /\ \A j \in Jobs : \A n \in DOMAIN rows[j] : RowFits(rows[j][n])
  /\ \A c \in CaptureIds : captures[c].status \in {"absent", "live", "trashed"}
  /\ \A r \in Requests : RequestFits(request[r])

LEMMA TypeByParts == TypeInv <=> TypeParts
<1>1. TypeInv => TypeParts
  BY DEF TypeInv, TypeOK, TypeParts, JobsFit, RowFits, RequestFits, Places
<1>2. ASSUME TypeParts PROVE TypeInv
  <2>1. ASSUME NEW r \in Requests PROVE \A s \in Settled : request[r].tally[s] \in 0 .. MaxRows
    <3>1. /\ request[r].next \in 1 .. MaxRows + 1
          /\ \A s \in Settled : request[r].tally[s] \in 0 .. request[r].next - 1
      BY <1>2 DEF TypeParts, RequestFits, HandFits
    <3>2. \A next \in 1 .. MaxRows + 1 : \A t \in 0 .. next - 1 : t \in 0 .. MaxRows
      BY MaxRowsAssumption
    <3>3. QED
      BY <3>1, <3>2
  <2>2. QED
    BY <1>2, <2>1 DEF TypeInv, TypeOK, TypeParts, JobsFit, RowFits, RequestFits, Places
<1>3. QED
  BY <1>1, <1>2

\* A job has the rows that it counts.
LEMMA TotalIsLength ==
  ASSUME TablesInv, JobsFit, NEW j \in Jobs
  PROVE  jobs[j].counts["total"] = Len(rows[j]) /\ Len(rows[j]) \in 0 .. MaxRows
<1>1. jobs[j].counts["total"] \in 0 .. MaxRows
  BY DEF JobsFit, JobType, Counters
<1>2. DOMAIN rows[j] = 1 .. Len(rows[j]) /\ Len(rows[j]) \in Nat
  BY RowsType
<1>3. 1 .. jobs[j].counts["total"] = 1 .. Len(rows[j])
  BY <1>2 DEF JobsFit
<1>4. QED
  BY <1>1, <1>2, <1>3, MaxRowsAssumption

\* Rows keep their numbers and what the file gave.
RowsSame ==
  \A j \in Jobs :
    /\ DOMAIN rows'[j] = DOMAIN rows[j] /\ Len(rows'[j]) = Len(rows[j])
    /\ \A n \in 1 .. Len(rows[j]) : rows'[j][n].given = rows[j][n].given /\ RowFits(rows'[j][n])

LEMMA RowsAsTheyWere ==
  ASSUME TablesInv, TypeInv, UNCHANGED rows
  PROVE  RowsSame
BY RowsType, TypeByParts DEF RowsSame, TypeParts

LEMMA RewrittenFits ==
  ASSUME TablesInv, TypeInv, NEW j \in Jobs, NEW n \in 1 .. Len(rows[j]), NEW row,
         Rewritten(j, n, row), RowFits(row), row.given = rows[j][n].given
  PROVE  RowsSame
<1>1. \A k \in Jobs : \A m \in 1 .. Len(rows[k]) : RowFits(rows[k][m])
  BY RowsType, TypeByParts DEF TypeParts
<1>2. QED
  BY <1>1 DEF Rewritten, RowsSame

LEMMA CompletionFits ==
  ASSUME NEW row \in ImportRow, RowFits(row), NEW proposals, DOMAIN proposals \subseteq Fields \ row.given
  PROVE  /\ RowFits(SetRowCompletion(row, proposals))
         /\ SetRowCompletion(row, proposals).given = row.given
BY DEF ImportRow, RowFits, SetRowCompletion

LEMMA StateFits ==
  ASSUME NEW row \in ImportRow, RowFits(row), NEW status \in Settled
  PROVE  /\ RowFits(MarkRowState(row, status))
         /\ MarkRowState(row, status).given = row.given
<1>1. PICK imported : imported = (status = "imported")
  OBVIOUS
<1>2. MarkRowState(row, status) = [row EXCEPT !.status = status, !.captured = imported]
  BY <1>1 DEF MarkRowState
<1> DEFINE new == [row EXCEPT !.status = status, !.captured = imported]
<1>3. /\ new.status = status /\ new.captured = imported /\ new.dedupe = row.dedupe
      /\ new.given = row.given /\ new.proposals = row.proposals
  BY DEF ImportRow
<1> HIDE DEF new
<1>4. new.captured <=> new.status = "imported"
  BY <1>1, <1>3, Zenon
<1>5. status \in RowStatuses
  BY DEF Settled, RowStatuses
<1>6. RowFits(new)
  BY <1>3, <1>4, <1>5 DEF RowFits
<1>7. QED
  BY <1>2, <1>3, <1>6 DEF new

\* What a request has in hand goes on fitting while the rows keep their numbers.
LEMMA HandKept ==
  ASSUME ImportInv, RowsSame, NEW q, RequestInv(q), RequestFits(q)
  PROVE  RequestFits(q)'
<1>1. q.at # "idle" => q.id \in Jobs
  BY DEF RequestInv
<1>2. q.at # "idle" => Len(rows'[q.id]) = Len(rows[q.id])
  BY <1>1 DEF RowsSame
<1>3. ASSUME q.at \in {"completing", "applying"}, NEW i \in 1 .. Len(q.copy)
      PROVE  RowAhead(q, i)'.given = RowAhead(q, i).given
  <2>1. q.id \in Jobs /\ Len(rows[q.id]) \in Nat
    BY <1>1, <1>3, RowsType DEF ImportInv
  <2>2. q.copy \in Seq(Briefs) \/ q.copy \in Seq(Proposals)
    BY <1>3 DEF RequestInv
  <2>3. Len(q.copy) \in Nat
    BY <2>2
  <2>4. Len(q.copy) + q.next = Len(rows[q.id]) + 1 /\ q.next \in 1 .. MaxRows + 1
    BY <1>3 DEF RequestFits, HandFits, GoesByRow
  <2>5. q.next + i - 1 \in 1 .. Len(rows[q.id])
    <3>1. q.next \in Nat \ {0}
      BY <2>4, MaxRowsAssumption
    <3>2. \A next \in Nat \ {0}, left, length \in Nat : \A k \in 1 .. left :
            left + next = length + 1 => next + k - 1 \in 1 .. length
      OBVIOUS
    <3>3. QED
      BY <2>1, <2>3, <2>4, <3>1, <3>2
  <2>6. QED
    BY <2>1, <2>5 DEF RowsSame, RowAhead
<1>4. QED
  BY <1>2, <1>3 DEF RequestFits, HandFits, WritesJob, GoesByRow

JobsSame ==
  /\ jobs' \in [Jobs -> JobType]
  /\ \A j \in Jobs : jobs'[j].counts["total"] = jobs[j].counts["total"]

\* A request goes on.
LEMMA TypeStep ==
  ASSUME ImportInv, TypeInv, CapturesInv', RowsSame, JobsSame, NEW r \in Requests, NEW x,
         request' = [request EXCEPT ![r] = x], RequestFits(x)'
  PROVE  TypeInv'
<1>1. TypeParts
  BY TypeByParts
<1>2. \A q \in Requests : request'[q] = IF q = r THEN x ELSE request[q]
  BY DEF ImportInv, TablesInv
<1>3. \A u : RequestInv(u) /\ RequestFits(u) => RequestFits(u)'
  <2>1. ASSUME NEW u, RequestInv(u), RequestFits(u) PROVE RequestFits(u)'
    BY <2>1, HandKept
  <2>2. QED
    BY <2>1
<1>4. ASSUME NEW q \in Requests PROVE RequestFits(request[q])'
  <2>1. CASE q = r
    BY <1>2, <2>1 DEF RequestFits, HandFits, RowAhead
  <2>2. CASE q # r
    <3>1. PICK u : u = request[q]
      OBVIOUS
    <3>2. request'[q] = u
      BY <1>2, <2>2, <3>1
    <3>3. RequestInv(u) /\ RequestFits(u)
      BY <1>1, <3>1 DEF TypeParts, ImportInv
    <3>4. RequestFits(u)'
      BY <1>3, <3>3
    <3>5. QED
      BY <3>2, <3>4 DEF RequestFits, HandFits, RowAhead
  <2>3. QED
    BY <2>1, <2>2
<1>5. JobsFit'
  BY <1>1 DEF TypeParts, JobsFit, JobsSame, RowsSame
<1>6. ASSUME NEW j \in Jobs, NEW n \in DOMAIN rows'[j] PROVE RowFits(rows'[j][n])
  BY RowsType DEF RowsSame, ImportInv
<1>7. \A j \in Jobs : \A n \in DOMAIN rows'[j] : RowFits(rows[j][n])'
  BY <1>6 DEF RowFits
<1>8. \A c \in CaptureIds : captures'[c].status \in {"absent", "live", "trashed"}
  BY DEF CapturesInv, IsCapture
<1>9. TypeParts'
  BY <1>4, <1>5, <1>7, <1>8 DEF TypeParts
<1>10. QED
  BY <1>9, TypeByParts, PTL

LEMMA JobsAsTheyWere ==
  ASSUME TypeInv, UNCHANGED jobs
  PROVE  JobsSame
BY TypeByParts DEF TypeParts, JobsFit, JobsSame

LEMMA UpdateFits ==
  ASSUME ImportInv, TypeInv, NEW r \in Requests, NEW status \in JobStatuses,
         NEW counts \in [Counters -> 0 .. MaxRows], request[r].id \in Jobs,
         counts["total"] = Len(rows[request[r].id]), UpdateJob(r, status, counts)
  PROVE  JobsSame
<1> DEFINE id == request[r].id
           new == [jobs[id] EXCEPT !.status = status, !.counts = counts]
<1>1. /\ jobs \in [Jobs -> JobType] /\ id \in Jobs
      /\ counts["total"] = jobs[id].counts["total"]
  BY TypeByParts, TotalIsLength DEF TypeParts, JobsFit, ImportInv
<1>2. jobs' = [jobs EXCEPT ![id] = new]
  BY DEF UpdateJob
<1>3. new \in JobType /\ new.counts = counts
  BY <1>1 DEF JobType
<1> HIDE DEF new, id
<1>4. QED
  BY <1>1, <1>2, <1>3 DEF JobsSame

LEMMA NoCountsFit == NoCounts \in [Counters -> 0 .. MaxRows]
BY MaxRowsAssumption DEF NoCounts

\* A request that has only come in.
LEMMA NewHandFits ==
  ASSUME NEW x, IsRequest(x), x.at \in Places, x.next = 1, x.tally = [s \in Settled |-> 0],
         x.counts \in [Counters -> 0 .. MaxRows],
         x.at \in WritesJob => x.counts["total"] = Len(rows'[x.id]),
         x.at \in GoesByRow => Len(x.copy) = Len(rows'[x.id]) /\ Len(x.copy) \in Nat,
         x.at = "completing" =>
           \A i \in 1 .. Len(x.copy) : x.copy[i].given = rows'[x.id][i].given,
         x.at = "applying" =>
           \A i \in 1 .. Len(x.copy) : DOMAIN x.copy[i] \subseteq Fields \ rows'[x.id][i].given
  PROVE  RequestFits(x)'
<1>1. x.next \in 1 .. MaxRows + 1 /\ DOMAIN x.tally = Settled
      /\ \A s \in Settled : x.tally[s] \in 0 .. x.next - 1
  BY MaxRowsAssumption
<1>2. x.at \in GoesByRow => Len(x.copy) + x.next = Len(rows'[x.id]) + 1
  OBVIOUS
<1>3. \A i \in 1 .. Len(x.copy) : x.next + i - 1 = i
  BY SMT
<1>4. QED
  BY <1>1, <1>2, <1>3 DEF RequestFits, HandFits, RowAhead

LEMMA IdleIs ==
  /\ IsRequest(Idle) /\ Idle.at = "idle" /\ Idle.next = 1 /\ Idle.counts = NoCounts
  /\ Idle.tally = [s \in Settled |-> 0] /\ Idle.copy = <<>>
BY DEF IsRequest, Idle

LEMMA AnswersFit ==
  ASSUME ImportInv, TypeInv, CapturesInv', NEW r \in Requests, Answers(r), RowsSame, JobsSame
  PROVE  TypeInv'
<1>1. RequestFits(Idle)'
  <2>1. Idle.at \in Places /\ Idle.at \notin WritesJob /\ Idle.at \notin GoesByRow
    BY IdleIs DEF Places, WritesJob, GoesByRow
  <2>2. Idle.counts \in [Counters -> 0 .. MaxRows]
    BY IdleIs, NoCountsFit
  <2>3. QED
    BY <2>1, <2>2, IdleIs, NewHandFits
<1>2. request' = [request EXCEPT ![r] = Idle]
  BY DEF Answers
<1>3. QED
  BY <1>1, <1>2, TypeStep

LEMMA MarkFits ==
  ASSUME ImportInv, TypeInv, CapturesInv', NEW r \in Requests, MarkPreviewed(r) \/ MarkCancelled(r)
  PROVE  TypeInv'
<1>1. PICK status \in {"previewed", "cancelled"} : UpdateJob(r, status, request[r].counts)
  BY DEF MarkPreviewed, MarkCancelled
<1>2. /\ request[r].at \in {"previewing", "cancelling"}
      /\ Answers(r) /\ UNCHANGED rows
  BY DEF MarkPreviewed, MarkCancelled
<1>3. request[r].id \in Jobs /\ HandFits(request[r])
  BY <1>2 DEF ImportInv, RequestInv, TypeInv
<1>4. /\ request[r].counts \in [Counters -> 0 .. MaxRows]
      /\ request[r].counts["total"] = Len(rows[request[r].id])
  BY <1>2, <1>3 DEF HandFits, WritesJob
<1>5. JobsSame
  <2>1. status \in JobStatuses
    BY DEF JobStatuses
  <2>2. QED
    BY <1>1, <1>3, <1>4, <2>1, UpdateFits
<1>6. QED
  BY <1>2, <1>5, AnswersFit, RowsAsTheyWere DEF ImportInv

LEMMA StartsIs ==
  ASSUME NEW r, NEW j, NEW place
  PROVE  /\ IsRequest(Starts(r, j, place))
         /\ Starts(r, j, place).at = place /\ Starts(r, j, place).id = j
         /\ Starts(r, j, place).next = 1 /\ Starts(r, j, place).counts = jobs[j].counts
         /\ Starts(r, j, place).tally = [s \in Settled |-> 0]
BY IdleIs DEF Starts, IsRequest

LEMMA StartsFit ==
  ASSUME ImportInv, TypeInv, CapturesInv', NEW r \in Requests, NEW j \in Jobs,
         GetPreview(r, j) \/ Cancel(r, j) \/ Commit(r, j)
  PROVE  TypeInv'
<1>1. PICK place \in {"previewing", "cancelling", "listing"} :
        request' = [request EXCEPT ![r] = Starts(r, j, place)]
  BY DEF GetPreview, Cancel, Commit
<1>2. UNCHANGED <<jobs, rows>>
  BY DEF GetPreview, Cancel, Commit
<1> PICK x : x = Starts(r, j, place)
  OBVIOUS
<1>3. /\ IsRequest(x) /\ x.at = place /\ x.id = j /\ x.next = 1 /\ x.counts = jobs[j].counts
      /\ x.tally = [s \in Settled |-> 0]
  BY StartsIs
<1>4. /\ jobs[j].counts \in [Counters -> 0 .. MaxRows]
      /\ jobs[j].counts["total"] = Len(rows[j])
  BY TypeByParts, TotalIsLength DEF TypeParts, JobsFit, JobType, ImportInv
<1>5. x.at \in Places /\ x.at \notin GoesByRow
  BY <1>3 DEF Places, GoesByRow
<1>6. RequestFits(x)'
  BY <1>2, <1>3, <1>4, <1>5, NewHandFits DEF GoesByRow
<1>7. RowsSame /\ JobsSame
  BY <1>2, RowsAsTheyWere, JobsAsTheyWere DEF ImportInv
<1>8. QED
  BY <1>1, <1>6, <1>7, TypeStep

LEMMA LoadFits ==
  ASSUME ImportInv, TypeInv, CapturesInv', NEW r \in Requests, NEW j \in Jobs, NEW copy, NEW chosen,
         NEW place \in {"completing", "applying"}, LoadRows(r, j, place, copy, chosen),
         UNCHANGED <<jobs, rows>>, DOMAIN copy = DOMAIN rows[j], copy \in Seq(Proposals \cup Briefs),
         place = "completing" => \A n \in DOMAIN rows[j] : copy[n].given = rows[j][n].given,
         place = "applying" => \A n \in DOMAIN rows[j] : DOMAIN copy[n] \subseteq Fields \ rows[j][n].given
  PROVE  TypeInv'
<1> PICK x : x = [Idle EXCEPT !.at = place, !.id = j, !.copy = copy, !.chosen = chosen]
  OBVIOUS
<1>1. /\ IsRequest(x) /\ x.at = place /\ x.id = j /\ x.copy = copy /\ x.next = 1
      /\ x.counts = NoCounts /\ x.tally = [s \in Settled |-> 0]
  BY IdleIs DEF IsRequest
<1>2. request' = [request EXCEPT ![r] = x]
  BY DEF LoadRows
<1>3. DOMAIN rows[j] = 1 .. Len(rows[j]) /\ Len(rows[j]) \in Nat
  BY RowsType DEF ImportInv
<1>4. DOMAIN copy = 1 .. Len(copy) /\ Len(copy) \in Nat
  OBVIOUS
<1>5. Len(copy) = Len(rows[j])
  BY <1>3, <1>4
<1>6. x.at \in Places /\ x.at \notin WritesJob
  BY <1>1 DEF Places, WritesJob
<1>7. RequestFits(x)'
  <2>1. x.counts \in [Counters -> 0 .. MaxRows]
    BY <1>1, NoCountsFit
  <2>2. rows'[x.id] = rows[j]
    BY <1>1
  <2>3. /\ Len(x.copy) = Len(rows'[x.id]) /\ Len(x.copy) \in Nat
        /\ x.at = "completing" =>
             \A i \in 1 .. Len(x.copy) : x.copy[i].given = rows'[x.id][i].given
        /\ x.at = "applying" =>
             \A i \in 1 .. Len(x.copy) : DOMAIN x.copy[i] \subseteq Fields \ rows'[x.id][i].given
    BY <1>1, <1>3, <1>5, <2>2
  <2>4. QED
    BY <1>1, <1>6, <2>1, <2>3, NewHandFits
<1>8. RowsSame /\ JobsSame
  BY RowsAsTheyWere, JobsAsTheyWere DEF ImportInv
<1>9. QED
  BY <1>2, <1>7, <1>8, TypeStep

LEMMA CompletionStartFits ==
  ASSUME ImportInv, TypeInv, CapturesInv', NEW r \in Requests, NEW j \in Jobs,
         RequestsPreview(r, j) \/ RequestsApply(r, j)
  PROVE  TypeInv'
<1>1. DOMAIN rows[j] = 1 .. Len(rows[j]) /\ Len(rows[j]) \in Nat
      /\ \A n \in 1 .. Len(rows[j]) : rows[j][n] \in ImportRow
  BY RowsType DEF ImportInv
<1>2. CASE RequestsPreview(r, j)
  <2> DEFINE copy == [n \in DOMAIN rows[j] |->
                        [errors |-> rows[j][n].errors, content |-> rows[j][n].content,
                         given |-> rows[j][n].given]]
  <2>1. PICK chosen : LoadRows(r, j, "completing", copy, chosen) /\ UNCHANGED <<jobs, rows>>
    BY <1>2 DEF RequestsPreview, CompletionPreview
  <2>2. copy \in [1 .. Len(rows[j]) -> Briefs]
    BY <1>1 DEF ImportRow, Briefs
  <2>3. DOMAIN copy = DOMAIN rows[j] /\ \A n \in DOMAIN rows[j] : copy[n].given = rows[j][n].given
    OBVIOUS
  <2> HIDE DEF copy
  <2>4. copy \in Seq(Proposals \cup Briefs)
    BY <1>1, <2>2
  <2>5. QED
    BY <2>1, <2>3, <2>4, LoadFits
<1>3. CASE RequestsApply(r, j)
  <2>1. PICK chosen, wanted : CompletionApply(r, j, chosen, wanted)
    BY <1>3 DEF RequestsApply
  <2> DEFINE copy == [n \in DOMAIN rows[j] |-> Decided(rows[j][n].proposals, wanted)]
  <2>2. LoadRows(r, j, "applying", copy, chosen) /\ UNCHANGED <<jobs, rows>>
    BY <2>1 DEF CompletionApply
  <2>3. \A n \in 1 .. Len(rows[j]) : Decided(rows[j][n].proposals, wanted) \in Proposals
    BY <1>1, DecidedFits DEF ImportRow
  <2>4. copy \in [1 .. Len(rows[j]) -> Proposals]
    BY <1>1, <2>3
  <2>5. \A n \in DOMAIN rows[j] : DOMAIN copy[n] \subseteq Fields \ rows[j][n].given
    <3>1. \A n \in DOMAIN rows[j] : DOMAIN copy[n] = DOMAIN rows[j][n].proposals
      BY DEF Decided
    <3>2. \A n \in DOMAIN rows[j] : DOMAIN rows[j][n].proposals \subseteq Fields \ rows[j][n].given
      BY DEF TypeInv, TypeOK
    <3>3. QED
      BY <3>1, <3>2
  <2>6. DOMAIN copy = DOMAIN rows[j]
    OBVIOUS
  <2> HIDE DEF copy
  <2>7. copy \in Seq(Proposals \cup Briefs)
    BY <1>1, <2>4
  <2>8. QED
    BY <2>2, <2>5, <2>6, <2>7, LoadFits
<1>4. QED
  BY <1>2, <1>3

\* A request that has gone on by a row, having counted it or not.
LEMMA NextHandFits ==
  ASSUME ImportInv, TypeInv, RowsSame, NEW r \in Requests, NEW place \in GoesByRow, Working(r, place),
         NEW x, IsRequest(x), x.at = request[r].at, x.id = request[r].id,
         x.counts = request[r].counts, x.copy = Tail(request[r].copy), x.next = request[r].next + 1,
         \/ x.tally = request[r].tally
         \/ \E status \in Settled : x.tally = [request[r].tally EXCEPT ![status] = @ + 1]
  PROVE  RequestFits(x)'
<1> PICK q : q = request[r]
  OBVIOUS
<1>1. /\ q.id \in Jobs /\ q.at = place /\ q.copy \in Seq(ImportRow \cup Proposals \cup Briefs)
      /\ q.copy # <<>> /\ Len(q.copy) \in Nat \ {0} /\ q.next \in Nat \ {0}
      /\ Len(rows[q.id]) \in Nat /\ Len(q.copy) + q.next = Len(rows[q.id]) + 1
      /\ q.next \in 1 .. Len(rows[q.id])
  BY AtARow
<1>2. HandFits(q)
  BY DEF TypeInv
<1>3. /\ Len(x.copy) = Len(q.copy) - 1
      /\ \A i \in 1 .. Len(x.copy) : x.copy[i] = q.copy[i + 1]
  <2>1. Tail(q.copy) \in Seq(ImportRow \cup Proposals \cup Briefs) /\ Len(Tail(q.copy)) = Len(q.copy) - 1
    BY <1>1
  <2>2. \A i \in 1 .. Len(Tail(q.copy)) : Tail(q.copy)[i] = q.copy[i + 1]
    BY <1>1, <2>1, HeadTailProperties
  <2>3. QED
    BY <2>1, <2>2
<1>4. Len(rows[q.id]) \in 0 .. MaxRows /\ Len(rows'[q.id]) = Len(rows[q.id])
  BY <1>1, TypeByParts, TotalIsLength DEF TypeParts, ImportInv, RowsSame
<1> DEFINE next == q.next
           left == Len(q.copy)
           length == Len(rows[q.id])
<1>5. /\ next + 1 \in Nat \ {0} /\ (left - 1) + (next + 1) = length + 1 /\ next + 1 \in 1 .. MaxRows + 1
      /\ \A i \in 1 .. left - 1 :
           /\ i + 1 \in 1 .. left
           /\ next + (i + 1) - 1 = (next + 1) + i - 1
           /\ next + (i + 1) - 1 \in 1 .. length
  <2>1. next \in Nat \ {0} /\ left \in Nat \ {0} /\ length \in Nat /\ left + next = length + 1
        /\ length <= MaxRows
    BY <1>1, <1>4, MaxRowsAssumption
  <2> HIDE DEF next, left, length
  <2>2. next + 1 \in 1 .. MaxRows + 1
    BY <2>1, MaxRowsAssumption
  <2>3. QED
    BY <2>1, <2>2, OneRowOn
<1>6. \A i \in 1 .. Len(x.copy) :
        /\ x.copy[i] = q.copy[i + 1] /\ i + 1 \in 1 .. Len(q.copy)
        /\ rows'[x.id][x.next + i - 1].given = RowAhead(q, i + 1).given
  <2>1. ASSUME NEW i \in 1 .. Len(x.copy)
        PROVE  /\ x.copy[i] = q.copy[i + 1] /\ i + 1 \in 1 .. Len(q.copy)
               /\ x.next + i - 1 = q.next + (i + 1) - 1 /\ x.id = q.id
               /\ q.next + (i + 1) - 1 \in 1 .. Len(rows[q.id])
    BY <1>3, <1>5
  <2>2. \A m \in 1 .. Len(rows[q.id]) : rows'[q.id][m].given = rows[q.id][m].given
    BY <1>1 DEF RowsSame
  <2>3. ASSUME NEW i \in 1 .. Len(x.copy)
        PROVE  rows'[x.id][x.next + i - 1].given = RowAhead(q, i + 1).given
    <3>1. PICK m \in 1 .. Len(rows[q.id]) : m = q.next + (i + 1) - 1 /\ m = x.next + i - 1
      BY <2>1
    <3>2. x.id = q.id /\ RowAhead(q, i + 1) = rows[q.id][m]
      BY <2>1, <3>1 DEF RowAhead
    <3>3. QED
      BY <2>2, <3>1, <3>2
  <2>4. QED
    BY <2>1, <2>3
<1>7. /\ x.at = "completing" =>
           \A i \in 1 .. Len(x.copy) : x.copy[i].given = rows'[x.id][x.next + i - 1].given
      /\ x.at = "applying" =>
           \A i \in 1 .. Len(x.copy) : DOMAIN x.copy[i] \subseteq Fields \ rows'[x.id][x.next + i - 1].given
  <2>1. /\ q.at = "completing" => \A k \in 1 .. Len(q.copy) : q.copy[k].given = RowAhead(q, k).given
        /\ q.at = "applying" =>
             \A k \in 1 .. Len(q.copy) : DOMAIN q.copy[k] \subseteq Fields \ RowAhead(q, k).given
    BY <1>2 DEF HandFits
  <2>2. QED
    BY <1>6, <2>1
<1>8. DOMAIN x.tally = Settled /\ \A s \in Settled : x.tally[s] \in 0 .. x.next - 1
  <2>1. DOMAIN q.tally = Settled /\ \A s \in Settled : q.tally[s] \in 0 .. q.next - 1
    BY <1>2 DEF HandFits
  <2>2. \A t \in 0 .. q.next - 1 : t \in 0 .. (q.next + 1) - 1 /\ t + 1 \in 0 .. (q.next + 1) - 1
    BY <1>1
  <2>3. x.next = q.next + 1
    OBVIOUS
  <2>4. CASE x.tally = q.tally
    BY <2>1, <2>2, <2>3, <2>4
  <2>5. ASSUME NEW status \in Settled, x.tally = [q.tally EXCEPT ![status] = @ + 1]
        PROVE  DOMAIN x.tally = Settled /\ \A s \in Settled : x.tally[s] \in 0 .. x.next - 1
    BY <2>1, <2>2, <2>3, <2>5
  <2>6. QED
    BY <2>4, <2>5
<1>9. /\ x.counts \in [Counters -> 0 .. MaxRows]
      /\ x.at \in WritesJob => x.counts["total"] = Len(rows'[x.id])
      /\ x.at \in GoesByRow /\ x.at \in Places
  BY <1>1, <1>2, <1>4 DEF HandFits, GoesByRow, Places
<1>10. Len(x.copy) + x.next = Len(rows'[x.id]) + 1 /\ x.next \in 1 .. MaxRows + 1
  BY <1>3, <1>4, <1>5
<1>11. QED
  BY <1>7, <1>8, <1>9, <1>10 DEF RequestFits, HandFits, RowAhead

LEMMA AdvanceFits ==
  ASSUME ImportInv, TypeInv, CapturesInv', NEW r \in Requests, NEW place \in GoesByRow,
         Working(r, place), RowsSame, UNCHANGED jobs,
         \/ request' = Advanced(r)
         \/ \E status \in Settled : request' = Tallied(r, status)
  PROVE  TypeInv'
<1>1. CASE request' = Advanced(r)
  <2>1. PICK x : /\ request' = [request EXCEPT ![r] = x] /\ IsRequest(x)
                 /\ x.at = request[r].at /\ x.id = request[r].id /\ x.counts = request[r].counts
                 /\ x.copy = Tail(request[r].copy) /\ x.next = request[r].next + 1
                 /\ x.tally = request[r].tally
    BY <1>1, AdvancedIs
  <2>2. RequestFits(x)'
    BY <2>1, NextHandFits
  <2>3. QED
    BY <2>1, <2>2, TypeStep, JobsAsTheyWere
<1>2. ASSUME NEW status \in Settled, request' = Tallied(r, status) PROVE TypeInv'
  <2>1. PICK x : /\ Tallied(r, status) = [request EXCEPT ![r] = x] /\ IsRequest(x)
                 /\ x.at = request[r].at /\ x.id = request[r].id /\ x.counts = request[r].counts
                 /\ x.copy = Tail(request[r].copy) /\ x.next = request[r].next + 1
                 /\ x.tally = [request[r].tally EXCEPT ![status] = @ + 1]
    BY TalliedIs
  <2>2. RequestFits(x)'
    BY <2>1, NextHandFits
  <2>3. QED
    BY <1>2, <2>1, <2>2, TypeStep, JobsAsTheyWere
<1>3. QED
  BY <1>1, <1>2

LEMMA RowsFit ==
  ASSUME TypeInv, TablesInv, NEW r \in Requests, request[r].id \in Jobs,
         request[r].next \in 1 .. Len(rows[request[r].id])
  PROVE  RowFits(Stored(r)) /\ Stored(r) = rows[request[r].id][request[r].next]
BY TypeByParts, RowsType DEF TypeParts, Stored

LEMMA CompletionRowFits ==
  ASSUME ImportInv, TypeInv, NEW r \in Requests, NEW place \in {"completing", "applying"},
         Working(r, place), NEW proposals, DOMAIN proposals \subseteq Fields \ Stored(r).given,
         Write(r, SetRowCompletion(Stored(r), proposals))
  PROVE  RowsSame
<1>1. /\ request[r].id \in Jobs /\ request[r].next \in 1 .. Len(rows[request[r].id])
      /\ Stored(r) \in ImportRow
  BY AtARow DEF GoesByRow
<1>2. RowFits(Stored(r)) /\ Stored(r) = rows[request[r].id][request[r].next]
  BY <1>1, RowsFit DEF ImportInv
<1>3. PICK row : row = SetRowCompletion(Stored(r), proposals)
  OBVIOUS
<1>4. RowFits(row) /\ row.given = Stored(r).given
  BY <1>1, <1>2, <1>3, CompletionFits
<1>5. Rewritten(request[r].id, request[r].next, row)
  BY <1>1, <1>3, WriteRewrites DEF ImportInv
<1>6. QED
  BY <1>1, <1>2, <1>4, <1>5, RewrittenFits DEF ImportInv

LEMMA CompletesFit ==
  ASSUME ImportInv, TypeInv, CapturesInv', NEW r \in Requests, Completes(r)
  PROVE  TypeInv'
<1>1. ASSUME NEW fields \in SUBSET Fields, GenerateFieldProposals(r, fields) PROVE TypeInv'
  <2> DEFINE proposals == [f \in fields |-> "pending"]
  <2>1. /\ Working(r, "completing") /\ fields \subseteq Fields \ Row(r).given
        /\ Write(r, SetRowCompletion(Stored(r), proposals))
        /\ request' = Advanced(r) /\ UNCHANGED jobs
    BY <1>1 DEF GenerateFieldProposals, Completable, MissingFields
  <2>2. /\ request[r].at = "completing" /\ Row(r) = request[r].copy[1]
        /\ Len(request[r].copy) \in Nat \ {0} /\ Stored(r) = RowAhead(request[r], 1)
    BY <2>1, AtARow DEF GoesByRow
  <2>3. \A i \in 1 .. Len(request[r].copy) : request[r].copy[i].given = RowAhead(request[r], i).given
    BY <2>2 DEF TypeInv, HandFits
  <2>4. Row(r).given = Stored(r).given
    BY <2>2, <2>3
  <2>5. DOMAIN proposals \subseteq Fields \ Stored(r).given
    BY <2>1, <2>4
  <2> HIDE DEF proposals
  <2>6. RowsSame
    BY <2>1, <2>5, CompletionRowFits
  <2>7. QED
    BY <2>1, <2>6, AdvanceFits DEF GoesByRow
<1>2. CASE GenerateNothing(r)
  BY <1>2, AdvanceFits, RowsAsTheyWere DEF GenerateNothing, GoesByRow, ImportInv
<1>3. CASE ApplyRow(r)
  <2>1. Working(r, "applying") /\ request' = Advanced(r) /\ UNCHANGED jobs
    BY <1>3 DEF ApplyRow
  <2>2. /\ request[r].at = "applying" /\ Row(r) = request[r].copy[1]
        /\ Len(request[r].copy) \in Nat \ {0} /\ Stored(r) = RowAhead(request[r], 1)
    BY <2>1, AtARow DEF GoesByRow
  <2>3. \A i \in 1 .. Len(request[r].copy) :
          DOMAIN request[r].copy[i] \subseteq Fields \ RowAhead(request[r], i).given
    BY <2>2 DEF TypeInv, HandFits
  <2>4. DOMAIN Row(r) \subseteq Fields \ Stored(r).given
    BY <2>2, <2>3
  <2>5. UNCHANGED rows \/ Write(r, SetRowCompletion(Stored(r), Row(r)))
    BY <1>3 DEF ApplyRow
  <2>6. RowsSame
    BY <2>1, <2>4, <2>5, CompletionRowFits, RowsAsTheyWere DEF ImportInv
  <2>7. QED
    BY <2>1, <2>6, AdvanceFits DEF GoesByRow
<1>4. CASE CompletionAnswers(r)
  BY <1>4, AnswersFit, RowsAsTheyWere, JobsAsTheyWere DEF CompletionAnswers, ImportInv
<1>5. QED
  BY <1>1, <1>2, <1>3, <1>4 DEF Completes

LEMMA ListFits ==
  ASSUME ImportInv, TypeInv, CapturesInv', NEW r \in Requests, NEW skips, ListRows(r, skips)
  PROVE  TypeInv'
<1>1. PICK q : q = request[r]
  OBVIOUS
<1>2. PICK x : x = [q EXCEPT !.at = "committing", !.copy = rows[q.id], !.chosen = skips]
  OBVIOUS
<1>3. request' = [request EXCEPT ![r] = x] /\ UNCHANGED <<jobs, rows>> /\ q.at = "listing"
  BY <1>1, <1>2 DEF ListRows
<1>4. IsRequest(q) /\ q.id \in Jobs /\ q.next = 1 /\ HandFits(q)
  BY <1>1, <1>3 DEF ImportInv, TablesInv, RequestInv, TypeInv
<1>5. /\ x.at = "committing" /\ x.id = q.id /\ x.copy = rows[q.id] /\ x.next = 1
      /\ x.counts = q.counts /\ x.tally = q.tally
  BY <1>2, <1>4 DEF IsRequest
<1>6. /\ q.counts \in [Counters -> 0 .. MaxRows] /\ q.counts["total"] = Len(rows[q.id])
      /\ DOMAIN q.tally = Settled /\ \A s \in Settled : q.tally[s] \in 0 .. q.next - 1
  BY <1>3, <1>4 DEF HandFits, WritesJob
<1>7. Len(rows[q.id]) \in Nat /\ 1 \in 1 .. MaxRows + 1
  BY <1>4, RowsType, MaxRowsAssumption DEF ImportInv
<1>8. Len(x.copy) + x.next = Len(rows'[x.id]) + 1
  BY <1>3, <1>5, <1>7
<1>9. RequestFits(x)'
  BY <1>3, <1>4, <1>5, <1>6, <1>7, <1>8 DEF RequestFits, HandFits, Places, GoesByRow, WritesJob
<1>10. QED
  BY <1>3, <1>9, TypeStep, RowsAsTheyWere, JobsAsTheyWere DEF ImportInv

LEMMA CompleteFits ==
  ASSUME ImportInv, TypeInv, CapturesInv', NEW r \in Requests, CompleteJob(r)
  PROVE  TypeInv'
<1>1. /\ request[r].at = "committing" /\ Answers(r) /\ UNCHANGED rows
      /\ UpdateJob(r, "completed", CommittedCounts(r))
  BY DEF CompleteJob
<1>2. request[r].id \in Jobs /\ HandFits(request[r]) /\ request[r].next \in 1 .. MaxRows + 1
  BY <1>1 DEF ImportInv, RequestInv, TypeInv, TypeOK
<1>3. /\ request[r].counts \in [Counters -> 0 .. MaxRows]
      /\ request[r].counts["total"] = Len(rows[request[r].id])
      /\ \A s \in Settled : request[r].tally[s] \in 0 .. MaxRows
  BY <1>1, <1>2 DEF HandFits, WritesJob, TypeInv, TypeOK
<1>4. CommittedCounts(r) \in [Counters -> 0 .. MaxRows]
  BY <1>3 DEF CommittedCounts
<1>5. CommittedCounts(r)["total"] = Len(rows[request[r].id])
  BY <1>3 DEF CommittedCounts, Counters, Settled
<1>6. JobsSame
  BY <1>1, <1>2, <1>4, <1>5, UpdateFits DEF JobStatuses
<1>7. QED
  BY <1>1, <1>6, AnswersFit, RowsAsTheyWere DEF ImportInv

LEMMA CommitsFit ==
  ASSUME ImportInv, TypeInv, CapturesInv', NEW r \in Requests, Commits(r)
  PROVE  TypeInv'
<1>1. CASE CountRow(r)
  BY <1>1, AdvanceFits, RowsAsTheyWere DEF CountRow, CommitsRow, GoesByRow, ImportInv
<1>2. CASE SkipRow(r) \/ CommitRow(r) \/ FailRow(r) \/ LoseCommitAnswer(r)
  <2>1. PICK written \in Settled, counted \in Settled :
          /\ Write(r, MarkRowState(Stored(r), written))
          /\ request' = Tallied(r, counted)
    BY <1>2 DEF SkipRow, CommitRow, FailRow, LoseCommitAnswer, Settled
  <2>2. Working(r, "committing") /\ UNCHANGED jobs
    BY <1>2 DEF SkipRow, CommitRow, FailRow, LoseCommitAnswer, Importable, CommitsRow
  <2>3. /\ request[r].id \in Jobs /\ request[r].next \in 1 .. Len(rows[request[r].id])
        /\ Stored(r) \in ImportRow
    BY <2>2, AtARow DEF GoesByRow
  <2>4. RowFits(Stored(r)) /\ Stored(r) = rows[request[r].id][request[r].next]
    BY <2>3, RowsFit DEF ImportInv
  <2>5. PICK row : row = MarkRowState(Stored(r), written)
    OBVIOUS
  <2>6. RowFits(row) /\ row.given = Stored(r).given
    BY <2>3, <2>4, <2>5, StateFits
  <2>7. Rewritten(request[r].id, request[r].next, row)
    BY <2>1, <2>3, <2>5, WriteRewrites DEF ImportInv
  <2>8. RowsSame
    BY <2>3, <2>4, <2>6, <2>7, RewrittenFits DEF ImportInv
  <2>9. QED
    BY <2>1, <2>2, <2>8, AdvanceFits DEF GoesByRow
<1>3. QED
  BY <1>1, <1>2, ListFits, CompleteFits DEF Commits

LEMMA DraftCountsFit ==
  ASSUME NEW built, NEW length \in 0 .. MaxRows, DOMAIN built = 1 .. length, Len(built) = length
  PROVE  /\ DraftCounts(built) \in [Counters -> 0 .. MaxRows]
         /\ DraftCounts(built)["total"] = length
<1>1. length \in Nat /\ \A k \in 0 .. length : k \in 0 .. MaxRows /\ length - k \in 0 .. MaxRows
  BY MaxRowsAssumption
<1>2. ASSUME NEW T \in SUBSET DOMAIN built PROVE Cardinality(T) \in 0 .. length
  <2>1. IsFiniteSet(1 .. length) /\ Cardinality(1 .. length) = length
    <3>1. 1 \in Int /\ length \in Int /\ length - 1 + 1 = length
      BY <1>1
    <3>2. length >= 1 => Cardinality(1 .. length) = length
      BY <3>1, FS_Interval
    <3>3. length = 0 => 1 .. length = {}
      BY <1>1
    <3>4. IsFiniteSet(1 .. length)
      BY <3>1, FS_Interval
    <3>5. QED
      BY <1>1, <3>2, <3>3, <3>4, FS_EmptySet
  <2>2. IsFiniteSet(T) /\ Cardinality(T) <= Cardinality(1 .. length)
    BY <1>2, <2>1, FS_Subset
  <2>3. Cardinality(T) \in Nat
    BY <2>2, FS_CardinalityType
  <2>4. QED
    BY <1>1, <2>1, <2>2, <2>3
<1> DEFINE wrong == Cardinality({n \in DOMAIN built : built[n].errors # {}})
           double == Cardinality({n \in DOMAIN built : built[n].dedupe = "duplicate_external"})
<1>3. wrong \in 0 .. length /\ double \in 0 .. length
  BY <1>2
<1>4. DraftCounts(built) = [NoCounts EXCEPT !["total"] = length, !["invalid"] = wrong,
                                            !["valid"] = length - wrong, !["duplicate"] = double]
  BY DEF DraftCounts
<1> HIDE DEF wrong, double
<1>5. wrong \in 0 .. MaxRows /\ length - wrong \in 0 .. MaxRows /\ double \in 0 .. MaxRows
  BY <1>1, <1>3
<1>6. QED
  <2>1. PICK rest : rest = length - wrong
    OBVIOUS
  <2>2. {"total", "invalid", "valid", "duplicate"} \subseteq Counters
    BY DEF Counters
  <2>3. DraftCounts(built) = [NoCounts EXCEPT !["total"] = length, !["invalid"] = wrong,
                                              !["valid"] = rest, !["duplicate"] = double]
    BY <1>4, <2>1
  <2>4. rest \in 0 .. MaxRows
    BY <1>5, <2>1
  <2>5. QED
    BY <1>5, <2>2, <2>3, <2>4, NoCountsFit

LEMMA AcceptedLength ==
  ASSUME NEW text, Accepted(text)
  PROVE  Len(ParsedRows(text)) \in 1 .. MaxRows
BY DEF Accepted, ParsedRows

LEMMA CreateFits ==
  ASSUME ImportInv, TypeInv, NEW j \in Jobs, NEW text \in Texts, CreateJob(j, text)
  PROVE  TypeInv'
<1> DEFINE parsed == ParsedRows(text)
           built == BuildImportRows(parsed)
           job == [status |-> "draft", counts |-> DraftCounts(built), text |-> text]
<1>1. /\ jobs[j].status = "none" /\ UNCHANGED <<captures, request>>
      /\ jobs' = [jobs EXCEPT ![j] = job] /\ rows' = [rows EXCEPT ![j] = built]
  BY DEF CreateJob, InsertJob
<1>2. built \in Seq(ImportRow)
  BY BuiltRows DEF CreateJob
<1>3. Len(parsed) \in 1 .. MaxRows /\ DOMAIN built = 1 .. Len(parsed)
  <2>1. Len(parsed) \in 1 .. MaxRows
    <3>1. Accepted(text)
      BY DEF CreateJob
    <3>2. QED
      BY <3>1, AcceptedLength
  <2> HIDE DEF parsed
  <2>2. DOMAIN built = 1 .. Len(parsed)
    BY DEF BuildImportRows
  <2>3. QED
    BY <2>1, <2>2
<1>4. Len(built) = Len(parsed)
  <2>1. Len(parsed) \in Nat
    BY <1>3, MaxRowsAssumption
  <2>2. DOMAIN built = 1 .. Len(built) /\ Len(built) \in Nat
    BY <1>2
  <2> HIDE DEF built, parsed
  <2>3. QED
    BY <1>3, <2>1, <2>2
<1>5. ASSUME NEW n \in DOMAIN built PROVE RowFits(built[n])
  <2>1. built[n] = [ext |-> parsed[n].external_id, content |-> parsed[n].content,
                    given |-> parsed[n].given, errors |-> parsed[n].errors,
                    dedupe |-> Dedupe(parsed, n),
                    status |-> IF parsed[n].errors = {} THEN "pending" ELSE "needs_input",
                    captured |-> FALSE, proposals |-> NoProposals]
    BY <1>5 DEF BuildImportRows
  <2>2. built[n].status \in {"pending", "needs_input"} /\ ~ built[n].captured
        /\ built[n].dedupe = Dedupe(parsed, n) /\ built[n].proposals = NoProposals
    BY <2>1
  <2>3. Dedupe(parsed, n) \in DedupeStatuses
    BY DEF Dedupe, DedupeStatuses
  <2>4. DOMAIN NoProposals = {}
    BY DEF NoProposals
  <2> HIDE DEF built, parsed
  <2>5. QED
    BY <2>2, <2>3, <2>4 DEF RowFits, RowStatuses
<1>6. /\ DraftCounts(built) \in [Counters -> 0 .. MaxRows]
      /\ DraftCounts(built)["total"] = Len(parsed)
  <2>1. Len(parsed) \in 0 .. MaxRows
    BY <1>3, MaxRowsAssumption
  <2> HIDE DEF built, parsed
  <2>2. QED
    BY <1>3, <1>4, <2>1, DraftCountsFit
<1> HIDE DEF built, parsed
<1>7. job \in JobType /\ job.counts["total"] = Len(parsed)
  BY <1>6 DEF JobType, JobStatuses
<1> HIDE DEF job
<1>8. TypeParts
  BY TypeByParts
<1>9. /\ jobs \in [Jobs -> JobType] /\ DOMAIN rows = Jobs
      /\ \A k \in Jobs : jobs'[k] = IF k = j THEN job ELSE jobs[k]
      /\ \A k \in Jobs : rows'[k] = IF k = j THEN built ELSE rows[k]
  BY <1>1, <1>8 DEF TypeParts, JobsFit, ImportInv, TablesInv
<1>10. JobsFit'
  BY <1>1, <1>3, <1>7, <1>8, <1>9 DEF TypeParts, JobsFit
<1>11. \A k \in Jobs : \A n \in DOMAIN rows'[k] : RowFits(rows'[k][n])
  BY <1>5, <1>8, <1>9 DEF TypeParts
<1>12. ASSUME NEW r \in Requests PROVE RequestFits(request[r])'
  <2>1. RequestInv(request[r]) /\ RequestFits(request[r]) /\ request'[r] = request[r]
    BY <1>1, <1>8 DEF ImportInv, TypeParts
  <2>2. request[r].at # "idle" => request[r].id \in Jobs /\ request[r].id # j
    BY <1>1, <2>1 DEF RequestInv
  <2>3. request[r].at # "idle" => rows'[request[r].id] = rows[request[r].id]
    BY <1>9, <2>2
  <2>4. QED
    BY <2>1, <2>3 DEF RequestFits, HandFits, RowAhead, GoesByRow, WritesJob
<1>13. TypeParts'
  BY <1>1, <1>8, <1>10, <1>11, <1>12 DEF TypeParts, RowFits
<1>14. QED
  BY <1>13, TypeByParts, PTL

LEMMA TypeNext ==
  ImportInv /\ TypeInv /\ CapturesInv' /\ [Next]_vars => TypeInv'
<1> SUFFICES ASSUME ImportInv, TypeInv, CapturesInv', [Next]_vars PROVE TypeInv'
  OBVIOUS
<1>1. ASSUME UNCHANGED <<jobs, rows, request>> PROVE TypeInv'
  <2>1. TypeParts
    BY TypeByParts
  <2>2. JobsFit' /\ \A j \in Jobs : \A n \in DOMAIN rows[j] : RowFits(rows[j][n])'
    BY <1>1, <2>1 DEF TypeParts, JobsFit, RowFits
  <2>3. \A r \in Requests : RequestFits(request[r])'
    BY <1>1, <2>1 DEF TypeParts, RequestFits, HandFits, RowAhead
  <2>4. \A c \in CaptureIds : captures'[c].status \in {"absent", "live", "trashed"}
    BY DEF CapturesInv, IsCapture
  <2>5. TypeParts'
    BY <1>1, <2>2, <2>3, <2>4 DEF TypeParts
  <2>6. QED
    BY <2>5, TypeByParts, PTL
<1>2. ASSUME NEW r \in Requests, Abort(r) PROVE TypeInv'
  BY <1>2, AnswersFit, RowsAsTheyWere, JobsAsTheyWere DEF Abort, ImportInv
<1>3. ASSUME NEW r \in Requests, NEW j \in Jobs, Requested(r, j) PROVE TypeInv'
  BY <1>3, StartsFit, CompletionStartFits DEF Requested
<1>4. QED
  BY <1>1, <1>2, <1>3, CreateFits, MarkFits, CompletesFit, CommitsFit
  DEF Next, SetLifecycle, ImportSingle, vars

LEMMA TypeInit == Init => TypeInv
<1> SUFFICES ASSUME Init PROVE TypeParts
  BY TypeByParts
<1>1. NoJob \in JobType /\ NoJob.counts["total"] = 0
  <2>1. NoCounts["total"] = 0
    BY DEF NoCounts, Counters
  <2>2. QED
    BY <2>1, NoCountsFit DEF NoJob, JobType, JobStatuses
<1>2. JobsFit
  <2>1. DOMAIN << >> = 1 .. 0
    OBVIOUS
  <2>2. QED
    BY <1>1, <2>1 DEF Init, JobsFit
<1>3. RequestFits(Idle)
  BY IdleIs, NoCountsFit, MaxRowsAssumption
  DEF RequestFits, HandFits, Places, WritesJob, GoesByRow
<1>4. \A r \in Requests : RequestFits(request[r])
  BY <1>3 DEF Init
<1>5. \A c \in CaptureIds : captures[c].status \in {"absent", "live", "trashed"}
  BY CapturesInit DEF CapturesInv, IsCapture
<1>6. QED
  BY <1>2, <1>4, <1>5 DEF Init, TypeParts

\* Every job of an import has exactly the rows it counts, each with one of the
\* five states, a capture noted just on those that are imported and proposals
\* only for what its file did not give, whatever overlaps or fails.
THEOREM JobsAreTyped == Spec => []TypeOK
<1>1. TypeInv => TypeOK
  BY DEF TypeInv
<1>2. CapturesInv /\ [Next]_vars => CapturesInv'
  BY CapturesNext
<1>3. QED
  BY ImportInit, ImportNext, TypeInit, TypeNext, CapturesInit, <1>1, <1>2, PTL DEF Spec

-----------------------------------------------------------------------------
(* Counting rows                                                           *)

\* One row more is counted where it belongs.
LEMMA OneMore ==
  ASSUME NEW next \in Nat \ {0}, NEW before \in SUBSET (1 .. (next - 1))
  PROVE  IsFiniteSet(before) /\ Cardinality(before \cup {next}) = Cardinality(before) + 1
<1>1. IsFiniteSet(1 .. (next - 1))
  BY FS_Interval
<1>2. IsFiniteSet(before)
  BY <1>1, FS_Subset
<1>3. next \notin before
  <2>1. next \notin 1 .. (next - 1)
    OBVIOUS
  <2>2. QED
    BY <2>1
<1>4. QED
  BY <1>2, <1>3, FS_AddElement

\* The report lists what was skipped and what failed, if everything is settled.
LEMMA ReportAddsUp ==
  ASSUME NEW j \in Jobs, TablesInv, \A n \in DOMAIN rows[j] : rows[j][n].status \in Settled
  PROVE  Cardinality(ErrorReport(j))
           = Cardinality({n \in DOMAIN rows[j] : rows[j][n].status = "skipped"})
               + Cardinality({n \in DOMAIN rows[j] : rows[j][n].status = "failed"})
<1> DEFINE skipped == {n \in DOMAIN rows[j] : rows[j][n].status = "skipped"}
           failed == {n \in DOMAIN rows[j] : rows[j][n].status = "failed"}
<1>1. IsFiniteSet(DOMAIN rows[j])
  <2>1. DOMAIN rows[j] = 1 .. Len(rows[j]) /\ Len(rows[j]) \in Nat
    BY RowsType
  <2>2. QED
    BY <2>1, FS_Interval
<1>2. IsFiniteSet(skipped) /\ IsFiniteSet(failed)
  BY <1>1, FS_Subset
<1>3. skipped \cap failed = {} /\ ErrorReport(j) = skipped \cup failed
  BY DEF ErrorReport, Settled
<1> HIDE DEF skipped, failed
<1>4. Cardinality(skipped) \in Nat /\ Cardinality(failed) \in Nat /\ Cardinality({}) = 0
  BY <1>2, FS_CardinalityType, FS_EmptySet
<1>5. Cardinality(skipped \cup failed)
        = Cardinality(skipped) + Cardinality(failed) - Cardinality(skipped \cap failed)
  BY <1>2, FS_Union
<1>6. Cardinality(ErrorReport(j)) = Cardinality(skipped) + Cardinality(failed)
  <2>1. Cardinality(skipped \cap failed) = 0
    BY <1>3, <1>4, Zenon
  <2>2. Cardinality(skipped \cup failed) = Cardinality(skipped) + Cardinality(failed)
    BY <1>4, <1>5, <2>1
  <2>3. QED
    BY <1>3, <2>2, Zenon
<1>7. QED
  BY <1>6 DEF skipped, failed

-----------------------------------------------------------------------------
(* Clients that wait for their answers                                     *)

Reported(j) ==
  \A n \in DOMAIN rows[j] :
    /\ rows[j][n].status = "imported" => captures[<<j, n>>].status # "absent"
    /\ captures[<<j, n>>].status # "absent" => rows[j][n].status \in {"imported", "failed"}

Counted(j) ==
  jobs[j].status = "completed" =>
    /\ \A s \in Settled :
         jobs[j].counts[s] = Cardinality({n \in DOMAIN rows[j] : rows[j][n].status = s})
    /\ Cardinality(ErrorReport(j)) = jobs[j].counts["skipped"] + jobs[j].counts["failed"]

HeldByServers(j) == \A r \in Requests : Serves(r, j) => StillHolds(request[r])

\* CarefulInv, of one job.
JobHolds(j) == ServedAlone(j) /\ HeldByServers(j) /\ Reported(j) /\ Counted(j)

LEMMA CarefulByJob == CarefulInv <=> NothingEarly /\ \A j \in Careful : JobHolds(j)
BY DEF CarefulInv, JobHolds, HeldByServers, Reported, Counted, CapturesAreReported, CountsMatchRows

LEMMA CarefulNextByJob == NothingEarly' /\ (\A j \in Careful : JobHolds(j)') => CarefulInv'
<1>1. (NothingEarly /\ \A j \in Careful : JobHolds(j))' => CarefulInv'
  BY CarefulByJob, PTL
<1>2. QED
  BY <1>1

\* Nothing happens to the job but that a request goes away.
LEMMA Elsewhere ==
  ASSUME NEW j \in Careful, JobHolds(j), jobs'[j] = jobs[j], rows'[j] = rows[j],
         \A n \in DOMAIN rows[j] :
           captures'[<<j, n>>].status = "absent" <=> captures[<<j, n>>].status = "absent",
         \A q \in Requests : Serves(q, j)' => Serves(q, j) /\ request'[q] = request[q]
  PROVE  JobHolds(j)'
<1>1. ServedAlone(j)'
  BY DEF JobHolds, ServedAlone
<1>2. ASSUME NEW r \in Requests, Serves(r, j)' PROVE StillHolds(request[r])'
  <2>1. PICK q : q = request[r]
    OBVIOUS
  <2>2. request'[r] = q /\ q.id = j
    BY <1>2, <2>1 DEF Serves
  <2>3. StillHolds(q)
    BY <1>2, <2>1 DEF JobHolds, HeldByServers
  <2>4. StillHolds(q)'
    BY <2>2, <2>3 DEF StillHolds, RowAhead
  <2>5. QED
    BY <2>2, <2>4 DEF StillHolds, RowAhead
<1>3. Reported(j)'
  BY DEF JobHolds, Reported
<1>4. Counted(j)'
  BY DEF JobHolds, Counted, ErrorReport
<1>5. QED
  BY <1>1, <1>2, <1>3, <1>4 DEF JobHolds, HeldByServers

\* No other request is about the job, before the step or after.
LEMMA OneServes ==
  ASSUME TablesInv, NEW j \in Careful, NEW r \in Requests, NEW x,
         request' = [request EXCEPT ![r] = x],
         \A q \in Requests : Serves(q, j) => q = r,
         x.at # "idle" /\ x.id = j => StillHolds(x)',
         Reported(j)', Counted(j)'
  PROVE  JobHolds(j)'
<1>1. \A q \in Requests : request'[q] = IF q = r THEN x ELSE request[q]
  BY DEF TablesInv
<1>2. \A q \in Requests : Serves(q, j)' => q = r
  BY <1>1 DEF Serves
<1>3. ServedAlone(j)'
  BY <1>2 DEF ServedAlone
<1>4. ASSUME Serves(r, j)' PROVE StillHolds(request[r])'
  <2>1. request'[r] = x
    BY <1>1
  <2>2. StillHolds(x)'
    BY <1>4, <2>1 DEF Serves
  <2>3. QED
    BY <2>1, <2>2 DEF StillHolds, RowAhead
<1>5. QED
  BY <1>2, <1>3, <1>4 DEF JobHolds, HeldByServers

LEMMA ServesAlone ==
  ASSUME CarefulInv, NEW j \in Careful, NEW r \in Requests, Serves(r, j)
  PROVE  \A q \in Requests : Serves(q, j) => q = r
BY DEF CarefulInv, ServedAlone

LEMMA NothingEarlyKept ==
  ASSUME NothingEarly,
         \A j \in Jobs : jobs'[j].status = "none" =>
           /\ jobs[j].status = "none" /\ rows'[j] = rows[j]
           /\ \A n \in 1 .. MaxRows :
                captures[<<j, n>>].status = "absent" => captures'[<<j, n>>].status = "absent"
  PROVE  NothingEarly'
BY DEF NothingEarly

-----------------------------------------------------------------------------
(* Their requests                                                          *)

\* Of a request that comes in, this is what the lemma below needs.
LEMMA CameIn ==
  ASSUME ImportInv, CarefulInv, NEW r \in Requests, NEW j \in Jobs, NEW place, GetJob(r, j, place),
         NEW x, request' = [request EXCEPT ![r] = x], x.id = j, x.at = place, place # "idle",
         UNCHANGED <<jobs, rows, captures>>,
         place # "committing", place \in WritesJob => jobs[j].status # "completed"
  PROVE  CarefulInv'
<1>1. \A q \in Requests : request'[q] = IF q = r THEN x ELSE request[q]
  BY DEF ImportInv, TablesInv
<1>2. NothingEarly /\ \A k \in Careful : JobHolds(k)
  BY CarefulByJob
<1>3. NothingEarly'
  BY <1>2, NothingEarlyKept
<1>4. ASSUME NEW k \in Careful PROVE JobHolds(k)'
  <2>1. CASE k = j
    <3>1. \A q \in Requests : Serves(q, k) => q = r
      BY <2>1 DEF GetJob
    <3>2. StillHolds(x)'
      BY DEF StillHolds
    <3>3. Reported(k)' /\ Counted(k)'
      BY <1>2 DEF JobHolds, Reported, Counted, ErrorReport
    <3>4. QED
      BY <3>1, <3>2, <3>3, OneServes DEF ImportInv
  <2>2. CASE k # j
    <3>1. \A q \in Requests : Serves(q, k)' => Serves(q, k) /\ request'[q] = request[q]
      BY <1>1, <2>2 DEF Serves
    <3>2. QED
      BY <1>2, <3>1, Elsewhere
  <2>3. QED
    BY <2>1, <2>2
<1>5. QED
  BY <1>3, <1>4, CarefulNextByJob

LEMMA RowNumbers ==
  ASSUME ImportInv, TypeInv, NEW j \in Jobs
  PROVE  /\ DOMAIN rows[j] = 1 .. Len(rows[j]) /\ Len(rows[j]) \in 0 .. MaxRows
         /\ \A n \in DOMAIN rows[j] : n \in 1 .. MaxRows /\ <<j, n>> \in CaptureIds
<1>1. DOMAIN rows[j] = 1 .. Len(rows[j]) /\ Len(rows[j]) \in 0 .. MaxRows
  BY RowsType, TypeByParts, TotalIsLength DEF ImportInv, TypeParts
<1>2. \A n \in DOMAIN rows[j] : n \in 1 .. MaxRows
  BY <1>1, MaxRowsAssumption
<1>3. QED
  BY <1>1, <1>2 DEF CaptureIds, RowIds

\* The step disturbs no job but this one.
OnlyJob(i) ==
  \A j \in Jobs \ {i} :
    /\ jobs'[j] = jobs[j] /\ rows'[j] = rows[j]
    /\ \A n \in 1 .. MaxRows : captures'[<<j, n>>] = captures[<<j, n>>]

\* A request that is served goes on, or is answered.
LEMMA GoesOn ==
  ASSUME ImportInv, TypeInv, CarefulInv, NEW r \in Requests, request[r].at # "idle",
         NEW i, i = request[r].id,
         NEW x, request' = [request EXCEPT ![r] = x], x.at = "idle" \/ x.id = i,
         OnlyJob(i),
         jobs'[i].status # "none",
         i \in Careful => (x.at # "idle" => StillHolds(x)') /\ Reported(i)' /\ Counted(i)'
  PROVE  CarefulInv'
<1>1. i = request[r].id
  OBVIOUS
<1>2. /\ i \in Jobs /\ jobs[i].status # "none"
      /\ \A q \in Requests : request'[q] = IF q = r THEN x ELSE request[q]
  BY <1>1 DEF ImportInv, TablesInv, RequestInv
<1>3. NothingEarly /\ \A j \in Careful : JobHolds(j)
  BY CarefulByJob
<1>4. NothingEarly'
  <2>1. \A j \in Jobs : jobs'[j].status = "none" => j # i
    BY <1>1
  <2>2. QED
    BY <1>3, <2>1, NothingEarlyKept DEF OnlyJob
<1>5. ASSUME NEW j \in Careful PROVE JobHolds(j)'
  <2>1. CASE j = i
    <3>1. Reported(i)' /\ Counted(i)'
      BY <2>1
    <3>2. \A q \in Requests : Serves(q, j) => q = r
      BY <1>1, <2>1, ServesAlone DEF Serves
    <3>3. x.at # "idle" => StillHolds(x)'
      BY <1>1, <2>1
    <3>4. QED
      BY <2>1, <3>1, <3>2, <3>3, OneServes DEF ImportInv
  <2>2. CASE j # i
    <3>1. \A q \in Requests : Serves(q, j)' => Serves(q, j) /\ request'[q] = request[q]
      BY <1>1, <1>2, <2>2 DEF Serves
    <3>2. j \in Jobs /\ \A n \in DOMAIN rows[j] : n \in 1 .. MaxRows
      BY CarefulAssumption, RowNumbers
    <3>3. /\ jobs'[j] = jobs[j] /\ rows'[j] = rows[j]
          /\ \A n \in 1 .. MaxRows : captures'[<<j, n>>] = captures[<<j, n>>]
      BY <1>1, <2>2, <3>2 DEF OnlyJob
    <3>4. QED
      BY <1>3, <3>1, <3>2, <3>3, Elsewhere
  <2>3. QED
    BY <2>1, <2>2
<1>6. QED
  BY <1>4, <1>5, CarefulNextByJob

\* A request that is answered, or cut off, and has written nothing.
LEMMA GoesAway ==
  ASSUME ImportInv, TypeInv, CarefulInv, NEW r \in Requests, request[r].at # "idle", Answers(r),
         UNCHANGED <<jobs, rows, captures>>
  PROVE  CarefulInv'
<1>1. request' = [request EXCEPT ![r] = Idle] /\ Idle.at = "idle"
  BY IdleIs DEF Answers
<1> PICK i : i = request[r].id
  OBVIOUS
<1>2. jobs'[i].status # "none"
  BY DEF ImportInv, RequestInv
<1>3. i \in Careful => Reported(i)' /\ Counted(i)'
  BY CarefulByJob DEF JobHolds, Reported, Counted, ErrorReport
<1>4. OnlyJob(i)
  BY DEF OnlyJob
<1>5. QED
  BY <1>1, <1>2, <1>3, <1>4, GoesOn

LEMMA UpdateTouches ==
  ASSUME TablesInv, NEW r \in Requests, NEW i \in Jobs, i = request[r].id, NEW status, NEW counts,
         UpdateJob(r, status, counts)
  PROVE  /\ \A j \in Jobs \ {i} : jobs'[j] = jobs[j]
         /\ jobs'[i].status = status /\ jobs'[i].counts = counts
<1> DEFINE new == [jobs[i] EXCEPT !.status = status, !.counts = counts]
<1>1. jobs' = [jobs EXCEPT ![i] = new] /\ DOMAIN jobs = Jobs /\ IsJob(jobs[i])
  BY DEF UpdateJob, TablesInv
<1>2. new.status = status /\ new.counts = counts
  BY <1>1 DEF IsJob
<1> HIDE DEF new
<1>3. QED
  BY <1>1, <1>2

LEMMA MarkHolds ==
  ASSUME ImportInv, TypeInv, CarefulInv, NEW r \in Requests, MarkPreviewed(r) \/ MarkCancelled(r)
  PROVE  CarefulInv'
<1> PICK i : i = request[r].id
  OBVIOUS
<1>1. PICK status \in {"previewed", "cancelled"} : UpdateJob(r, status, request[r].counts)
  BY DEF MarkPreviewed, MarkCancelled
<1>2. /\ request[r].at # "idle" /\ UNCHANGED <<rows, captures>>
      /\ request' = [request EXCEPT ![r] = Idle] /\ Idle.at = "idle"
  BY IdleIs DEF MarkPreviewed, MarkCancelled, Answers
<1>3. i \in Jobs
  BY <1>2 DEF ImportInv, RequestInv
<1>4. (\A j \in Jobs \ {i} : jobs'[j] = jobs[j]) /\ jobs'[i].status = status
  BY <1>1, <1>3, UpdateTouches DEF ImportInv
<1>5. Counted(i)'
  BY <1>4 DEF Counted
<1>6. i \in Careful => Reported(i)'
  BY <1>2, CarefulByJob DEF JobHolds, Reported
<1>7. OnlyJob(i)
  BY <1>2, <1>4 DEF OnlyJob
<1>8. QED
  BY <1>2, <1>4, <1>5, <1>6, <1>7, GoesOn

\* A completion writes proposals: the states of the rows are as they were.
LEMMA CompletionHolds ==
  ASSUME ImportInv, TypeInv, CarefulInv, NEW r \in Requests, NEW place \in {"completing", "applying"},
         Working(r, place), request' = Advanced(r), UNCHANGED <<jobs, captures>>,
         UNCHANGED rows \/ \E proposals : Write(r, SetRowCompletion(Stored(r), proposals))
  PROVE  CarefulInv'
<1> PICK i : i = request[r].id
  OBVIOUS
<1>1. /\ i \in Jobs /\ request[r].at = place /\ Stored(r) \in ImportRow
      /\ request[r].next \in 1 .. Len(rows[i])
  BY AtARow DEF GoesByRow
<1>2. PICK x : request' = [request EXCEPT ![r] = x] /\ x.at = place /\ x.id = i
  BY <1>1, AdvancedIs
<1>3. StillHolds(x)'
  BY <1>2 DEF StillHolds, WritesJob
<1>4. /\ \A j \in Jobs \ {i} : rows'[j] = rows[j]
      /\ DOMAIN rows'[i] = DOMAIN rows[i]
      /\ \A n \in DOMAIN rows[i] : rows'[i][n].status = rows[i][n].status
  <2>1. CASE UNCHANGED rows
    BY <2>1
  <2>2. ASSUME NEW proposals, Write(r, SetRowCompletion(Stored(r), proposals))
        PROVE  /\ \A j \in Jobs \ {i} : rows'[j] = rows[j]
               /\ DOMAIN rows'[i] = DOMAIN rows[i]
               /\ \A n \in DOMAIN rows[i] : rows'[i][n].status = rows[i][n].status
    <3>1. PICK row : row = SetRowCompletion(Stored(r), proposals)
      OBVIOUS
    <3>2. row.status = Stored(r).status /\ Stored(r) = rows[i][request[r].next]
      BY <1>1, <3>1 DEF SetRowCompletion, ImportRow, Stored
    <3>3. Rewritten(request[r].id, request[r].next, row)
      BY <1>1, <2>2, <3>1, WriteRewrites DEF ImportInv
    <3>4. DOMAIN rows[i] = 1 .. Len(rows[i])
      BY <1>1, RowNumbers
    <3>5. QED
      BY <1>1, <3>2, <3>3, <3>4 DEF Rewritten
  <2>3. QED
    BY <2>1, <2>2
<1>5. ASSUME i \in Careful PROVE Reported(i)' /\ Counted(i)'
  <2>1. Reported(i) /\ Counted(i)
    BY <1>5, CarefulByJob DEF JobHolds
  <2>2. \A s : {n \in DOMAIN rows'[i] : rows'[i][n].status = s}
                 = {n \in DOMAIN rows[i] : rows[i][n].status = s}
    BY <1>4
  <2>3. ErrorReport(i)' = ErrorReport(i)
    BY <1>4 DEF ErrorReport
  <2>4. Reported(i)'
    BY <1>4, <2>1 DEF Reported
  <2>5. Counted(i)'
    BY <2>1, <2>2, <2>3 DEF Counted
  <2>6. QED
    BY <2>4, <2>5
<1>6. jobs'[i].status # "none" /\ request[r].at # "idle"
  BY <1>1 DEF ImportInv, RequestInv
<1>7. OnlyJob(i)
  BY <1>4 DEF OnlyJob
<1>8. x.at = "idle" \/ x.id = i
  BY <1>2
<1>9. QED
  BY <1>2, <1>3, <1>5, <1>6, <1>7, <1>8, GoesOn

LEMMA CompletesHold ==
  ASSUME ImportInv, TypeInv, CarefulInv, NEW r \in Requests, Completes(r)
  PROVE  CarefulInv'
<1>1. CASE CompletionAnswers(r)
  BY <1>1, GoesAway DEF CompletionAnswers
<1>2. CASE ApplyRow(r) \/ GenerateNothing(r)
  BY <1>2, CompletionHolds DEF ApplyRow, GenerateNothing
<1>3. ASSUME NEW fields, GenerateFieldProposals(r, fields) PROVE CarefulInv'
  BY <1>3, CompletionHolds DEF GenerateFieldProposals, Completable
<1>4. QED
  BY <1>1, <1>2, <1>3 DEF Completes

LEMMA ListHolds ==
  ASSUME ImportInv, TypeInv, CarefulInv, NEW r \in Requests, NEW skips, ListRows(r, skips)
  PROVE  CarefulInv'
<1>1. PICK q : q = request[r]
  OBVIOUS
<1>2. PICK x : x = [q EXCEPT !.at = "committing", !.copy = rows[q.id], !.chosen = skips]
  OBVIOUS
<1>3. /\ request' = [request EXCEPT ![r] = x] /\ UNCHANGED <<jobs, rows, captures>>
      /\ q.at = "listing"
  BY <1>1, <1>2 DEF ListRows
<1>4. IsRequest(q) /\ q.id \in Jobs /\ jobs[q.id].status # "none" /\ q.next = 1 /\ HandFits(q)
  BY <1>1, <1>3 DEF ImportInv, TablesInv, RequestInv, TypeInv
<1>5. /\ x.at = "committing" /\ x.id = q.id /\ x.copy = rows[q.id] /\ x.next = 1
      /\ x.tally = q.tally
  BY <1>2, <1>4 DEF IsRequest
<1>6. \A s \in Settled : q.tally[s] = 0
  BY <1>4 DEF HandFits
<1>7. ASSUME q.id \in Careful PROVE StillHolds(x)'
  <2>1. jobs'[x.id].status # "completed"
    <3>1. Serves(r, q.id)
      BY <1>1, <1>3 DEF Serves
    <3>2. StillHolds(q)
      BY <1>1, <1>7, <3>1 DEF CarefulInv
    <3>3. QED
      BY <1>3, <1>5, <3>2 DEF StillHolds, WritesJob
  <2>2. Len(rows[q.id]) \in Nat
    BY <1>4, RowsType DEF ImportInv
  <2>3. \A i \in 1 .. Len(x.copy) : x.copy[i] = RowAhead(x, i)'
    BY <1>3, <1>5, <2>2 DEF RowAhead
  <2>4. \A s : {n \in 1 .. (x.next - 1) : rows'[x.id][n].status = s} = {}
    BY <1>5
  <2>5. \A s \in Settled :
          x.tally[s] = Cardinality({n \in 1 .. (x.next - 1) : rows'[x.id][n].status = s})
    BY <1>5, <1>6, <2>4, FS_EmptySet
  <2>6. QED
    BY <2>1, <2>3, <2>5 DEF StillHolds
<1>8. q.id \in Careful => Reported(q.id)' /\ Counted(q.id)'
  BY <1>3, CarefulByJob DEF JobHolds, Reported, Counted, ErrorReport
<1>9. OnlyJob(q.id)
  BY <1>3 DEF OnlyJob
<1>10. QED
  BY <1>1, <1>3, <1>4, <1>5, <1>7, <1>8, <1>9, GoesOn

-----------------------------------------------------------------------------
(* Their commits                                                           *)

\* What a commit of a client that waits finds: the row is as it was listed, and
\* has no capture yet if it is not settled.
LEMMA CommitFinds ==
  ASSUME ImportInv, TypeInv, CarefulInv, NEW r \in Requests, CommitsRow(r), request[r].id \in Careful
  PROVE  /\ jobs[request[r].id].status # "completed"
         /\ Row(r) = Stored(r) /\ Stored(r) = rows[request[r].id][request[r].next]
         /\ Stored(r).status \notin Settled => captures[RowId(r)].status = "absent"
<1>1. /\ request[r].id \in Jobs /\ request[r].at = "committing"
      /\ Len(request[r].copy) \in Nat \ {0} /\ request[r].next \in 1 .. Len(rows[request[r].id])
      /\ Row(r) = request[r].copy[1] /\ Stored(r) = RowAhead(request[r], 1)
  BY AtARow DEF CommitsRow, GoesByRow
<1>2. StillHolds(request[r])
  <2>1. Serves(r, request[r].id)
    BY <1>1 DEF Serves
  <2>2. QED
    BY <2>1 DEF CarefulInv
<1>3. \A k \in 1 .. Len(request[r].copy) : request[r].copy[k] = RowAhead(request[r], k)
  BY <1>1, <1>2 DEF StillHolds
<1>4. jobs[request[r].id].status # "completed" /\ Row(r) = Stored(r)
  BY <1>1, <1>2, <1>3 DEF StillHolds, WritesJob
<1>5. Reported(request[r].id)
  BY CarefulByJob DEF JobHolds
<1>6. Stored(r) = rows[request[r].id][request[r].next] /\ request[r].next \in DOMAIN rows[request[r].id]
  BY <1>1, RowNumbers DEF Stored
<1>7. Stored(r).status \notin Settled => captures[RowId(r)].status = "absent"
  BY <1>5, <1>6 DEF Reported, RowId, Settled
<1>8. QED
  BY <1>4, <1>6, <1>7

LEMMA AsReported ==
  ASSUME CarefulInv, NEW j \in Careful, UNCHANGED <<jobs, rows, captures>>
  PROVE  Reported(j)' /\ Counted(j)'
BY CarefulByJob DEF JobHolds, Reported, Counted, ErrorReport

\* A commit that has counted its next row as what it has become.
LEMMA CountsOn ==
  ASSUME ImportInv, TypeInv, CarefulInv, NEW r \in Requests, CommitsRow(r),
         NEW i \in Careful, i = request[r].id, NEW status \in Settled,
         NEW x, x.at = request[r].at, x.id = i, x.copy = Tail(request[r].copy),
         x.next = request[r].next + 1, x.tally = [request[r].tally EXCEPT ![status] = @ + 1],
         UNCHANGED jobs, Len(rows'[i]) = Len(rows[i]),
         \A n \in 1 .. Len(rows[i]) : n # request[r].next => rows'[i][n] = rows[i][n],
         rows'[i][request[r].next].status = status
  PROVE  StillHolds(x)'
<1> PICK q : q = request[r]
  OBVIOUS
<1>1. /\ q.id = i /\ i \in Jobs /\ q.at = "committing"
      /\ q.copy \in Seq(ImportRow \cup Proposals \cup Briefs) /\ q.copy # <<>>
      /\ Len(q.copy) \in Nat \ {0} /\ q.next \in Nat \ {0} /\ Len(rows[i]) \in Nat
      /\ Len(q.copy) + q.next = Len(rows[i]) + 1
  BY AtARow DEF CommitsRow, GoesByRow
<1>2. HandFits(q) /\ StillHolds(q)
  <2>1. Serves(r, i)
    BY <1>1 DEF Serves
  <2>2. QED
    BY <2>1 DEF CarefulInv, TypeInv
<1>3. jobs'[x.id].status # "completed"
  BY CommitFinds
<1>4. /\ Len(x.copy) = Len(q.copy) - 1
      /\ \A k \in 1 .. Len(x.copy) : x.copy[k] = q.copy[k + 1]
  <2>1. Tail(q.copy) \in Seq(ImportRow \cup Proposals \cup Briefs) /\ Len(Tail(q.copy)) = Len(q.copy) - 1
    BY <1>1
  <2>2. \A k \in 1 .. Len(Tail(q.copy)) : Tail(q.copy)[k] = q.copy[k + 1]
    BY <1>1, <2>1, HeadTailProperties
  <2>3. QED
    BY <2>1, <2>2
<1> DEFINE next == q.next
           left == Len(q.copy)
           length == Len(rows[i])
<1>5. \A k \in 1 .. left - 1 :
        /\ k + 1 \in 1 .. left
        /\ next + (k + 1) - 1 = (next + 1) + k - 1
        /\ next + (k + 1) - 1 \in 1 .. length /\ next + (k + 1) - 1 # next
  <2>1. next \in Nat \ {0} /\ left \in Nat \ {0} /\ length \in Nat /\ left + next = length + 1
    BY <1>1
  <2> HIDE DEF next, left, length
  <2>2. \A k \in 1 .. left - 1 : next + (k + 1) - 1 # next
    BY <2>1
  <2>3. QED
    BY <2>1, <2>2, OneRowOn
<1>6. ASSUME NEW k \in 1 .. Len(x.copy) PROVE x.copy[k] = rows'[x.id][x.next + k - 1]
  <2>1. PICK m \in 1 .. Len(rows[i]) : m = q.next + (k + 1) - 1 /\ m = x.next + k - 1 /\ m # q.next
    BY <1>4, <1>5
  <2>2. k + 1 \in 1 .. Len(q.copy)
    BY <1>4, <1>5
  <2>3. x.copy[k] = rows[i][m]
    <3>1. \A l \in 1 .. Len(q.copy) : q.copy[l] = RowAhead(q, l)
      BY <1>1, <1>2 DEF StillHolds
    <3>2. QED
      BY <1>1, <1>4, <2>1, <2>2, <3>1 DEF RowAhead
  <2>4. QED
    BY <2>1, <2>3
<1>7. ASSUME NEW s \in Settled
      PROVE  x.tally[s] = Cardinality({n \in 1 .. (x.next - 1) : rows'[x.id][n].status = s})
  <2>1. DOMAIN q.tally = Settled
        /\ q.tally[s] = Cardinality({n \in 1 .. (q.next - 1) : rows[i][n].status = s})
    BY <1>1, <1>2 DEF HandFits, StillHolds
  <2>2. x.tally[s] = IF s = status THEN q.tally[s] + 1 ELSE q.tally[s]
    BY <2>1
  <2>3. \A n \in 1 .. (q.next - 1) : rows'[i][n].status = rows[i][n].status
    <3>1. q.next \in Nat \ {0} /\ Len(rows[i]) \in Nat /\ q.next <= Len(rows[i])
      BY <1>1
    <3>2. \A n \in 1 .. (q.next - 1) : n \in 1 .. Len(rows[i]) /\ n # q.next
      BY <3>1
    <3>3. QED
      BY <3>2
  <2> DEFINE before == {n \in 1 .. (q.next - 1) : rows[i][n].status = s}
             upto == {n \in 1 .. q.next : rows'[i][n].status = s}
  <2>4. upto = IF s = status THEN before \cup {q.next} ELSE before
    <3>1. 1 .. q.next = (1 .. (q.next - 1)) \cup {q.next}
      BY <1>1
    <3>2. rows'[i][q.next].status = status
      OBVIOUS
    <3>3. QED
      BY <2>3, <3>1, <3>2
  <2>5. Cardinality(before \cup {q.next}) = Cardinality(before) + 1
    BY <1>1, OneMore
  <2>6. {n \in 1 .. (x.next - 1) : rows'[x.id][n].status = s} = upto
    <3>1. x.next - 1 = q.next /\ x.id = i
      BY <1>1
    <3>2. QED
      BY <3>1
  <2>7. q.tally[s] = Cardinality(before)
    BY <2>1
  <2> HIDE DEF before, upto
  <2>8. x.tally[s] = Cardinality(upto)
    BY <2>2, <2>4, <2>5, <2>7
  <2>9. QED
    BY <2>6, <2>8
<1>8. QED
  BY <1>3, <1>6, <1>7 DEF StillHolds, RowAhead

LEMMA RowCounted ==
  ASSUME ImportInv, TypeInv, CarefulInv, NEW r \in Requests, CommitsRow(r),
         NEW i, i = request[r].id, NEW status \in Settled, request' = Tallied(r, status),
         UNCHANGED jobs, OnlyJob(i), Len(rows'[i]) = Len(rows[i]),
         \A n \in 1 .. Len(rows[i]) : n # request[r].next => rows'[i][n] = rows[i][n],
         i \in Careful => rows'[i][request[r].next].status = status /\ Reported(i)'
  PROVE  CarefulInv'
<1>1. request[r].at = "committing" /\ i \in Jobs /\ jobs[i].status # "none"
  BY DEF CommitsRow, Working, ImportInv, RequestInv
<1>2. PICK x : /\ Tallied(r, status) = [request EXCEPT ![r] = x] /\ IsRequest(x)
               /\ x.at = request[r].at /\ x.id = request[r].id /\ x.counts = request[r].counts
               /\ x.copy = Tail(request[r].copy) /\ x.next = request[r].next + 1
               /\ x.tally = [request[r].tally EXCEPT ![status] = @ + 1]
  BY TalliedIs
<1>3. ASSUME i \in Careful PROVE StillHolds(x)' /\ Counted(i)'
  <2>1. StillHolds(x)'
    BY <1>2, <1>3, CountsOn, ZenonT(60)
  <2>2. jobs'[i].status # "completed"
    BY <1>3, CommitFinds
  <2>3. QED
    BY <1>3, <2>1, <2>2 DEF Counted
<1>4. request' = [request EXCEPT ![r] = x] /\ (x.at = "idle" \/ x.id = i)
      /\ jobs'[i].status # "none" /\ request[r].at # "idle"
  BY <1>1, <1>2
<1>5. QED
  BY <1>3, <1>4, GoesOn

LEMMA CountHolds ==
  ASSUME ImportInv, TypeInv, CarefulInv, NEW r \in Requests, CountRow(r)
  PROVE  CarefulInv'
<1>1. /\ CommitsRow(r) /\ Row(r).status \in Settled /\ UNCHANGED <<jobs, rows, captures>>
      /\ request' = Tallied(r, Row(r).status)
  BY DEF CountRow
<1>2. PICK i : i = request[r].id
  OBVIOUS
<1>3. OnlyJob(i)
  BY <1>1 DEF OnlyJob
<1>4. i \in Careful => rows'[i][request[r].next].status = Row(r).status /\ Reported(i)'
  BY <1>1, <1>2, CommitFinds, AsReported
<1>5. PICK status \in Settled : status = Row(r).status
  BY <1>1
<1>6. request' = Tallied(r, status) /\ Len(rows'[i]) = Len(rows[i])
      /\ \A n \in 1 .. Len(rows[i]) : n # request[r].next => rows'[i][n] = rows[i][n]
  BY <1>1, <1>5
<1>7. QED
  BY <1>1, <1>2, <1>3, <1>4, <1>5, <1>6, RowCounted

\* A row is settled, in one transaction with its capture if there is one.
LEMMA RowHolds ==
  ASSUME ImportInv, TypeInv, CapturesInv, CarefulInv, NEW r \in Requests,
         SkipRow(r) \/ CommitRow(r) \/ FailRow(r) \/ LoseCommitAnswer(r)
  PROVE  CarefulInv'
<1>1. CommitsRow(r) /\ Row(r).status \notin Settled /\ UNCHANGED jobs
  BY DEF SkipRow, CommitRow, FailRow, LoseCommitAnswer, Importable
<1>2. PICK status \in Settled :
        /\ Write(r, MarkRowState(Stored(r), status)) /\ request' = Tallied(r, status)
        /\ \/ UNCHANGED captures /\ status # "imported"
           \/ captures' = CreateCapture(r) /\ status # "skipped"
  BY DEF SkipRow, CommitRow, FailRow, LoseCommitAnswer, Settled
<1> PICK i : i = request[r].id
  OBVIOUS
<1> PICK next : next = request[r].next
  OBVIOUS
<1>3. i \in Jobs /\ next \in 1 .. Len(rows[i]) /\ Stored(r) \in ImportRow
  BY <1>1, AtARow DEF CommitsRow, GoesByRow
<1>4. PICK row : row = MarkRowState(Stored(r), status)
  OBVIOUS
<1>5. row.status = status
  BY <1>3, <1>4 DEF MarkRowState, ImportRow
<1>6. Rewritten(i, next, row)
  BY <1>2, <1>3, <1>4, WriteRewrites DEF ImportInv
<1>7. /\ DOMAIN rows'[i] = DOMAIN rows[i] /\ Len(rows'[i]) = Len(rows[i])
      /\ \A n \in 1 .. Len(rows[i]) : n # next => rows'[i][n] = rows[i][n]
      /\ rows'[i][next].status = status
  BY <1>3, <1>5, <1>6 DEF Rewritten
<1>8. /\ RowId(r) = <<i, next>> /\ RowId(r) \in CaptureIds
      /\ DOMAIN rows[i] = 1 .. Len(rows[i])
      /\ \A n \in DOMAIN rows[i] : <<i, n>> \in CaptureIds
  BY <1>3, RowNumbers DEF RowId
<1>9. /\ \A c \in CaptureIds : c # <<i, next>> => captures'[c] = captures[c]
      /\ \/ captures'[<<i, next>>] = captures[<<i, next>>] /\ status # "imported"
         \/ captures'[<<i, next>>].status = "live" /\ status # "skipped"
  BY <1>2, <1>8, CaptureCreated
<1>10. OnlyJob(i)
  <2>1. ASSUME NEW j \in Jobs \ {i}, NEW n \in 1 .. MaxRows PROVE captures'[<<j, n>>] = captures[<<j, n>>]
    BY <1>9, <2>1 DEF CaptureIds, RowIds
  <2>2. QED
    BY <1>1, <1>6, <2>1 DEF OnlyJob, Rewritten
<1>11. ASSUME i \in Careful PROVE Reported(i)'
  <2>1. Reported(i)
    BY <1>11, CarefulByJob DEF JobHolds
  <2>2. captures[<<i, next>>].status = "absent"
    BY <1>1, <1>8, <1>11, CommitFinds
  <2>3. ASSUME NEW n \in DOMAIN rows[i], n # next
        PROVE  rows'[i][n] = rows[i][n] /\ captures'[<<i, n>>] = captures[<<i, n>>]
    BY <1>7, <1>8, <1>9, <2>3
  <2>4. /\ status = "imported" => captures'[<<i, next>>].status # "absent"
        /\ captures'[<<i, next>>].status # "absent" => status \in {"imported", "failed"}
    BY <1>9, <2>2 DEF Settled
  <2>5. QED
    BY <1>7, <2>1, <2>3, <2>4 DEF Reported
<1>12. QED
  BY <1>1, <1>2, <1>7, <1>10, <1>11, RowCounted

LEMMA CompleteHolds ==
  ASSUME ImportInv, ImportInv', TypeInv, CarefulInv, NEW r \in Requests, CompleteJob(r)
  PROVE  CarefulInv'
<1> PICK i : i = request[r].id
  OBVIOUS
<1> PICK q : q = request[r]
  OBVIOUS
<1>1. /\ q.at = "committing" /\ q.copy = <<>> /\ UNCHANGED <<rows, captures>>
      /\ UpdateJob(r, "completed", CommittedCounts(r))
      /\ request' = [request EXCEPT ![r] = Idle] /\ Idle.at = "idle"
  BY IdleIs DEF CompleteJob, Answers
<1>2. i \in Jobs /\ HandFits(q)
  BY <1>1 DEF ImportInv, RequestInv, TypeInv
<1>3. /\ \A j \in Jobs \ {i} : jobs'[j] = jobs[j]
      /\ jobs'[i].status = "completed" /\ jobs'[i].counts = CommittedCounts(r)
  BY <1>1, <1>2, UpdateTouches DEF ImportInv
<1>4. OnlyJob(i)
  BY <1>1, <1>3 DEF OnlyJob
<1>5. ASSUME i \in Careful PROVE Counted(i)'
  <2>1. \A s \in Settled : jobs'[i].counts[s] = q.tally[s]
    BY <1>3 DEF CommittedCounts, Settled, Counters
  <2>2. StillHolds(q)
    <3>1. Serves(r, i)
      BY <1>1 DEF Serves
    <3>2. QED
      BY <1>5, <3>1 DEF CarefulInv
  <2>3. \A s \in Settled :
          q.tally[s] = Cardinality({n \in 1 .. (q.next - 1) : rows[i][n].status = s})
    BY <1>1, <2>2 DEF StillHolds
  <2>4. 1 .. (q.next - 1) = DOMAIN rows'[i]
    <3>1. Len(q.copy) + q.next = Len(rows[i]) + 1 /\ q.next \in 1 .. MaxRows + 1
      BY <1>1, <1>2 DEF HandFits, GoesByRow, TypeInv, TypeOK
    <3>2. Len(q.copy) = 0 /\ DOMAIN rows[i] = 1 .. Len(rows[i]) /\ Len(rows[i]) \in 0 .. MaxRows
      BY <1>1, <1>2, RowNumbers
    <3>3. \A next \in 1 .. MaxRows + 1, length \in 0 .. MaxRows :
            0 + next = length + 1 => next - 1 = length
      BY MaxRowsAssumption
    <3>4. q.next - 1 = Len(rows[i])
      BY <3>1, <3>2, <3>3
    <3>5. QED
      BY <1>1, <3>2, <3>4
  <2>5. \A s \in Settled :
          jobs'[i].counts[s] = Cardinality({n \in DOMAIN rows'[i] : rows'[i][n].status = s})
    BY <1>1, <2>1, <2>3, <2>4
  <2>6. \A n \in DOMAIN rows'[i] : rows'[i][n].status \in Settled
    BY <1>2, <1>3 DEF ImportInv, CompletedIsSettled
  <2>7. Cardinality(ErrorReport(i)')
          = Cardinality({n \in DOMAIN rows'[i] : rows'[i][n].status = "skipped"})
              + Cardinality({n \in DOMAIN rows'[i] : rows'[i][n].status = "failed"})
    <3>1. \A n \in DOMAIN rows[i] : rows[i][n].status \in Settled
      BY <1>1, <2>6
    <3>2. Cardinality(ErrorReport(i))
            = Cardinality({n \in DOMAIN rows[i] : rows[i][n].status = "skipped"})
                + Cardinality({n \in DOMAIN rows[i] : rows[i][n].status = "failed"})
      BY <1>2, <3>1, ReportAddsUp DEF ImportInv
    <3>3. ErrorReport(i)' = ErrorReport(i)
      BY <1>1 DEF ErrorReport
    <3>4. QED
      BY <1>1, <3>2, <3>3
  <2>8. /\ jobs'[i].counts["skipped"]
             = Cardinality({n \in DOMAIN rows'[i] : rows'[i][n].status = "skipped"})
        /\ jobs'[i].counts["failed"]
             = Cardinality({n \in DOMAIN rows'[i] : rows'[i][n].status = "failed"})
    BY <2>5 DEF Settled
  <2>9. Cardinality(ErrorReport(i)') = jobs'[i].counts["skipped"] + jobs'[i].counts["failed"]
    BY <2>7, <2>8
  <2>10. QED
    BY <2>5, <2>9 DEF Counted
<1>6. i \in Careful => Reported(i)'
  BY <1>1, CarefulByJob DEF JobHolds, Reported
<1>7. request[r].at # "idle" /\ jobs'[i].status # "none"
  BY <1>1, <1>3
<1>8. QED
  BY <1>1, <1>4, <1>5, <1>6, <1>7, GoesOn

LEMMA CommitsHold ==
  ASSUME ImportInv, ImportInv', TypeInv, CapturesInv, CarefulInv, NEW r \in Requests, Commits(r)
  PROVE  CarefulInv'
BY CountHolds, RowHolds, ListHolds, CompleteHolds DEF Commits

-----------------------------------------------------------------------------
(* Their jobs                                                              *)

LEMMA CreateHolds ==
  ASSUME ImportInv, TypeInv, CarefulInv, NEW j \in Jobs, NEW text \in Texts, CreateJob(j, text)
  PROVE  CarefulInv'
<1> DEFINE parsed == ParsedRows(text)
           built == BuildImportRows(parsed)
           job == [status |-> "draft", counts |-> DraftCounts(built), text |-> text]
<1>1. /\ jobs[j].status = "none" /\ UNCHANGED <<captures, request>>
      /\ jobs' = [jobs EXCEPT ![j] = job] /\ rows' = [rows EXCEPT ![j] = built]
  BY DEF CreateJob, InsertJob
<1>2. job.status = "draft"
  OBVIOUS
<1>3. Len(parsed) \in 1 .. MaxRows
  <2>1. Accepted(text)
    BY DEF CreateJob
  <2>2. QED
    BY <2>1, AcceptedLength
<1> HIDE DEF parsed, job
<1>4. /\ DOMAIN built = 1 .. Len(parsed)
      /\ \A n \in DOMAIN built : built[n].status \in {"pending", "needs_input"}
  BY DEF BuildImportRows
<1> HIDE DEF built
<1>5. /\ \A k \in Jobs : jobs'[k] = IF k = j THEN job ELSE jobs[k]
      /\ \A k \in Jobs : rows'[k] = IF k = j THEN built ELSE rows[k]
  BY <1>1 DEF ImportInv, TablesInv
<1>6. \A n \in DOMAIN built : n \in 1 .. MaxRows
  BY <1>3, <1>4, MaxRowsAssumption
<1>7. NothingEarly /\ \A k \in Careful : JobHolds(k)
  BY CarefulByJob
<1>8. NothingEarly'
  BY <1>1, <1>2, <1>5, <1>7, NothingEarlyKept
<1>9. \A q \in Requests : request'[q] = request[q] /\ ~ Serves(q, j) /\ ~ Serves(q, j)'
  BY <1>1 DEF ImportInv, RequestInv, Serves
<1>10. ASSUME NEW k \in Careful PROVE JobHolds(k)'
  <2>1. k \in Jobs
    BY CarefulAssumption
  <2>2. CASE k # j
    <3>1. jobs'[k] = jobs[k] /\ rows'[k] = rows[k]
      BY <1>5, <2>1, <2>2
    <3>2. \A q \in Requests : Serves(q, k)' => Serves(q, k) /\ request'[q] = request[q]
      BY <1>1 DEF Serves
    <3>3. QED
      BY <1>1, <1>7, <3>1, <3>2, Elsewhere
  <2>3. CASE k = j
    <3>1. ServedAlone(k)' /\ HeldByServers(k)'
      BY <1>9, <2>3 DEF ServedAlone, HeldByServers
    <3>2. rows'[k] = built /\ jobs'[k].status = "draft"
      BY <1>2, <1>5, <2>1, <2>3
    <3>3. Counted(k)'
      BY <3>2 DEF Counted
    <3>4. \A n \in 1 .. MaxRows : captures'[<<k, n>>].status = "absent"
      BY <1>1, <1>7, <2>1, <2>3 DEF NothingEarly
    <3>5. Reported(k)'
      BY <1>4, <1>6, <3>2, <3>4 DEF Reported
    <3>6. QED
      BY <3>1, <3>3, <3>5 DEF JobHolds
  <2>4. QED
    BY <2>2, <2>3
<1>11. QED
  BY <1>8, <1>10, CarefulNextByJob

\* Nothing changes but captures, and no row gets one or loses one.
LEMMA AroundHolds ==
  ASSUME ImportInv, TypeInv, CarefulInv, UNCHANGED <<jobs, rows, request>>,
         \A c \in RowIds : captures'[c].status = "absent" <=> captures[c].status = "absent"
  PROVE  CarefulInv'
<1>1. \A j \in Jobs, n \in 1 .. MaxRows :
        captures'[<<j, n>>].status = "absent" <=> captures[<<j, n>>].status = "absent"
  BY DEF RowIds
<1>2. NothingEarly /\ \A j \in Careful : JobHolds(j)
  BY CarefulByJob
<1>3. NothingEarly'
  BY <1>1, <1>2, NothingEarlyKept
<1>4. ASSUME NEW j \in Careful PROVE JobHolds(j)'
  <2>1. j \in Jobs /\ \A n \in DOMAIN rows[j] : n \in 1 .. MaxRows
    BY CarefulAssumption, RowNumbers
  <2>2. \A q \in Requests : Serves(q, j)' => Serves(q, j) /\ request'[q] = request[q]
    BY DEF Serves
  <2>3. QED
    BY <1>1, <1>2, <2>1, <2>2, Elsewhere
<1>5. QED
  BY <1>3, <1>4, CarefulNextByJob

LEMMA CarefulNext ==
  ImportInv /\ ImportInv' /\ TypeInv /\ CapturesInv /\ CarefulInv /\ [Next]_vars => CarefulInv'
<1> SUFFICES ASSUME ImportInv, ImportInv', TypeInv, CapturesInv, CarefulInv, [Next]_vars
             PROVE  CarefulInv'
  OBVIOUS
<1>1. CASE UNCHANGED vars
  BY <1>1, AroundHolds DEF vars
<1>2. ASSUME NEW c \in CaptureIds, SetLifecycle(c) PROVE CarefulInv'
  <2>1. UNCHANGED <<jobs, rows, request>> /\ Live(c)
        /\ captures' = [captures EXCEPT ![c] = [captures[c] EXCEPT !.status = "trashed"]]
    BY <1>2 DEF SetLifecycle
  <2>2. [captures[c] EXCEPT !.status = "trashed"].status = "trashed"
    BY DEF CapturesInv, IsCapture
  <2>3. \A d \in RowIds : captures'[d].status = "absent" <=> captures[d].status = "absent"
    BY <2>1, <2>2 DEF CapturesInv, CaptureIds, Live
  <2>4. QED
    BY <2>1, <2>3, AroundHolds
<1>3. ASSUME NEW s \in Singles, ImportSingle(s) PROVE CarefulInv'
  <2>1. PICK new : captures' = [captures EXCEPT ![s.id] = new]
    BY <1>3 DEF ImportSingle
  <2>2. s.id \notin RowIds
    BY SinglesAssumption
  <2>3. \A d \in RowIds : captures'[d] = captures[d]
    BY <2>1, <2>2 DEF CapturesInv, CaptureIds
  <2>4. QED
    BY <1>3, <2>3, AroundHolds DEF ImportSingle
<1>4. ASSUME NEW r \in Requests, NEW j \in Jobs, Requested(r, j) PROVE CarefulInv'
  <2>1. PICK place \in Places :
          GetJob(r, j, place) /\ place # "idle" /\ place # "committing"
          /\ (place \in WritesJob => jobs[j].status # "completed")
          /\ UNCHANGED <<jobs, rows, captures>>
          /\ \E x : request' = [request EXCEPT ![r] = x] /\ x.id = j /\ x.at = place
    <3>1. ASSUME NEW place, request' = [request EXCEPT ![r] = Starts(r, j, place)]
          PROVE  \E x : request' = [request EXCEPT ![r] = x] /\ x.id = j /\ x.at = place
      <4>1. PICK x : x = Starts(r, j, place)
        OBVIOUS
      <4>2. request' = [request EXCEPT ![r] = x] /\ x.id = j /\ x.at = place
        BY <3>1, <4>1, StartsIs
      <4>3. QED
        BY <4>2
    <3>2. CASE GetPreview(r, j)
      BY <3>1, <3>2 DEF GetPreview, Places
    <3>3. CASE Cancel(r, j) \/ Commit(r, j)
      BY <3>1, <3>3 DEF Cancel, Commit, Places
    <3>4. ASSUME NEW copy, NEW chosen, NEW place \in {"completing", "applying"},
                 LoadRows(r, j, place, copy, chosen)
          PROVE  \E x : request' = [request EXCEPT ![r] = x] /\ x.id = j /\ x.at = place
      <4>1. PICK x : x = [Idle EXCEPT !.at = place, !.id = j, !.copy = copy, !.chosen = chosen]
        OBVIOUS
      <4>2. request' = [request EXCEPT ![r] = x]
        BY <3>4, <4>1 DEF LoadRows
      <4>3. x.id = j /\ x.at = place
        BY <4>1, IdleIs DEF IsRequest
      <4>4. QED
        BY <4>2, <4>3
    <3>5. CASE RequestsPreview(r, j)
      BY <3>4, <3>5 DEF RequestsPreview, CompletionPreview, Places, WritesJob
    <3>6. CASE RequestsApply(r, j)
      BY <3>4, <3>6 DEF RequestsApply, CompletionApply, Places, WritesJob
    <3>7. QED
      BY <1>4, <3>2, <3>3, <3>5, <3>6 DEF Requested
  <2>2. QED
    BY <2>1, CameIn
<1>5. ASSUME NEW r \in Requests, Abort(r) PROVE CarefulInv'
  BY <1>5, GoesAway DEF Abort
<1>6. QED
  BY <1>1, <1>2, <1>3, <1>4, <1>5, CreateHolds, MarkHolds, CompletesHold, CommitsHold DEF Next

LEMMA CarefulInit == Init => CarefulInv
<1> SUFFICES ASSUME Init PROVE CarefulInv
  OBVIOUS
<1>1. \A j \in Jobs : jobs[j].status = "none" /\ rows[j] = <<>>
  BY DEF Init, NoJob
<1>2. \A c \in CaptureIds : captures[c].status = "absent"
  BY DEF Init, Absentee
<1>3. NothingEarly
  BY <1>1, <1>2 DEF NothingEarly, CaptureIds, RowIds
<1>4. \A r \in Requests, j \in Jobs : ~ Serves(r, j)
  BY IdleIs DEF Init, Serves
<1>5. ASSUME NEW j \in Careful PROVE JobHolds(j)
  <2>1. j \in Jobs
    BY CarefulAssumption
  <2>2. Reported(j) /\ Counted(j)
    BY <1>1, <2>1 DEF Reported, Counted
  <2>3. ServedAlone(j) /\ HeldByServers(j)
    BY <1>4, <2>1 DEF ServedAlone, HeldByServers
  <2>4. QED
    BY <2>2, <2>3 DEF JobHolds
<1>6. QED
  BY <1>3, <1>5, CarefulByJob

\* What a job of a client that waits answers once it is completed are the states
\* of its rows, counted, and its error report lists as many rows as it says were
\* skipped or failed: though earlier commits were cut off at any point.
THEOREM CompletedJobsCountTheirRows == Spec => []CountsMatchRows
<1>1. CarefulInv => CountsMatchRows
  BY DEF CarefulInv
<1>2. CapturesInv /\ [Next]_vars => CapturesInv'
  BY CapturesNext
<1>3. QED
  BY ImportInit, ImportNext, TypeInit, TypeNext, CapturesInit, CarefulInit, CarefulNext, <1>1, <1>2, PTL
  DEF Spec

\* A row of such a job that is offered again or reported as skipped has left no
\* capture behind, and one that says imported has one, through crashes between
\* the rows, lost answers and whatever the trash holds.
THEOREM CommitsLeaveNothingBehind == Spec => []CapturesAreReported
<1>1. CarefulInv => CapturesAreReported
  BY DEF CarefulInv
<1>2. CapturesInv /\ [Next]_vars => CapturesInv'
  BY CapturesNext
<1>3. QED
  BY ImportInit, ImportNext, TypeInit, TypeNext, CapturesInit, CarefulInit, CarefulNext, <1>1, <1>2, PTL
  DEF Spec

-----------------------------------------------------------------------------
(* What changes a job, and the states of its rows                          *)

LEMMA JobsChange ==
  ASSUME ImportInv, [Next]_vars, NEW j \in Jobs, jobs'[j] # jobs[j]
  PROVE  \/ jobs[j].status = "none"
         \/ \E r \in Requests : Serves(r, j) /\ request[r].at \in WritesJob
<1>1. ASSUME NEW k \in Jobs, NEW text \in Texts, CreateJob(k, text) PROVE jobs[j].status = "none"
  BY <1>1 DEF CreateJob, InsertJob, ImportInv, TablesInv
<1>2. ASSUME NEW r \in Requests, NEW status, NEW counts, UpdateJob(r, status, counts),
             request[r].at \in WritesJob
      PROVE  Serves(r, j)
  <2>1. request[r].at # "idle"
    BY <1>2 DEF WritesJob
  <2>2. PICK i \in Jobs : i = request[r].id
    BY <2>1 DEF ImportInv, RequestInv
  <2>3. j = i
    BY <1>2, <2>2, UpdateTouches DEF ImportInv
  <2>4. QED
    BY <2>1, <2>2, <2>3 DEF Serves
<1>3. ASSUME NEW r \in Requests, MarkPreviewed(r) \/ MarkCancelled(r) \/ CompleteJob(r)
      PROVE  Serves(r, j) /\ request[r].at \in WritesJob
  BY <1>2, <1>3 DEF MarkPreviewed, MarkCancelled, CompleteJob, WritesJob
<1>4. ASSUME NEW r \in Requests, Completes(r) PROVE FALSE
  BY <1>4 DEF Completes, GenerateFieldProposals, GenerateNothing, ApplyRow, CompletionAnswers
<1>5. ASSUME NEW r \in Requests, Commits(r) PROVE CompleteJob(r)
  <2>1. CASE CountRow(r) \/ SkipRow(r) \/ FailRow(r)
    BY <2>1 DEF CountRow, SkipRow, FailRow
  <2>2. CASE CommitRow(r) \/ LoseCommitAnswer(r)
    BY <2>2 DEF CommitRow, LoseCommitAnswer
  <2>3. CASE \E skips \in SUBSET (1 .. MaxRows) : ListRows(r, skips)
    BY <2>3 DEF ListRows
  <2>4. QED
    BY <1>5, <2>1, <2>2, <2>3 DEF Commits
<1>6. ASSUME NEW r \in Requests, NEW k \in Jobs, Requested(r, k) PROVE FALSE
  BY <1>6 DEF Requested, GetPreview, Cancel, Commit, RequestsPreview, CompletionPreview,
              RequestsApply, CompletionApply
<1>7. QED
  BY <1>1, <1>3, <1>4, <1>5, <1>6 DEF Next, Abort, SetLifecycle, ImportSingle, vars

\* A row has another state only after the step of a commit that is at it.
LEMMA StatesChange ==
  ASSUME ImportInv, TypeInv, NothingEarly, [Next]_vars, NEW j \in Jobs, NEW n \in DOMAIN rows[j],
         rows'[j][n].status # rows[j][n].status
  PROVE  \E r \in Requests : /\ Serves(r, j) /\ CommitsRow(r) /\ request[r].next = n
                             /\ CommitRow(r) \/ rows'[j][n].status # "imported"
<1>1. rows' # rows /\ n \in 1 .. Len(rows[j])
  BY RowNumbers
<1>2. ASSUME NEW k \in Jobs, NEW text \in Texts, CreateJob(k, text) PROVE FALSE
  <2>1. jobs[k].status = "none" /\ rows' = [rows EXCEPT ![k] = BuildImportRows(ParsedRows(text))]
    BY <1>2 DEF CreateJob, InsertJob
  <2>2. rows[k] = <<>>
    BY <2>1 DEF NothingEarly
  <2>3. k # j
    BY <2>2
  <2>4. QED
    BY <2>1, <2>3
<1>3. ASSUME NEW r \in Requests, NEW place \in {"completing", "applying"}, Working(r, place),
             NEW proposals, Write(r, SetRowCompletion(Stored(r), proposals))
      PROVE  FALSE
  <2>1. /\ request[r].id \in Jobs /\ Stored(r) \in ImportRow
        /\ request[r].next \in 1 .. Len(rows[request[r].id])
    BY <1>3, AtARow DEF GoesByRow
  <2>2. PICK row : row = SetRowCompletion(Stored(r), proposals)
    OBVIOUS
  <2>3. row.status = Stored(r).status
    BY <2>1, <2>2 DEF SetRowCompletion, ImportRow
  <2>4. Rewritten(request[r].id, request[r].next, row)
    BY <1>3, <2>1, <2>2, WriteRewrites DEF ImportInv
  <2>5. QED
    BY <1>1, <2>1, <2>3, <2>4 DEF Rewritten, Stored
<1>4. ASSUME NEW r \in Requests, Completes(r) PROVE FALSE
  <2>1. CASE GenerateNothing(r) \/ CompletionAnswers(r)
    BY <1>1, <2>1 DEF GenerateNothing, CompletionAnswers
  <2>2. CASE ApplyRow(r)
    BY <1>1, <1>3, <2>2 DEF ApplyRow
  <2>3. ASSUME NEW fields, GenerateFieldProposals(r, fields) PROVE FALSE
    BY <1>3, <2>3 DEF GenerateFieldProposals, Completable
  <2>4. QED
    BY <1>4, <2>1, <2>2, <2>3 DEF Completes
<1>5. ASSUME NEW r \in Requests, SkipRow(r) \/ CommitRow(r) \/ FailRow(r) \/ LoseCommitAnswer(r)
      PROVE  /\ Serves(r, j) /\ CommitsRow(r) /\ request[r].next = n
             /\ CommitRow(r) \/ rows'[j][n].status # "imported"
  <2>1. PICK status \in Settled :
          Write(r, MarkRowState(Stored(r), status)) /\ (CommitRow(r) \/ status # "imported")
    BY <1>5 DEF SkipRow, CommitRow, FailRow, LoseCommitAnswer, Settled
  <2>2. CommitsRow(r)
    BY <1>5 DEF SkipRow, CommitRow, FailRow, LoseCommitAnswer, Importable
  <2>3. /\ request[r].id \in Jobs /\ Stored(r) \in ImportRow /\ request[r].at = "committing"
        /\ request[r].next \in 1 .. Len(rows[request[r].id])
    BY <2>2, AtARow DEF CommitsRow, GoesByRow
  <2>4. PICK row : row = MarkRowState(Stored(r), status)
    OBVIOUS
  <2>5. row.status = status
    BY <2>3, <2>4 DEF MarkRowState, ImportRow
  <2>6. Rewritten(request[r].id, request[r].next, row)
    BY <2>1, <2>3, <2>4, WriteRewrites DEF ImportInv
  <2>7. request[r].id = j /\ request[r].next = n /\ rows'[j][n] = row
    BY <1>1, <2>6 DEF Rewritten
  <2>8. QED
    BY <2>1, <2>2, <2>3, <2>5, <2>7 DEF Serves
<1>6. ASSUME NEW r \in Requests, Commits(r)
      PROVE  SkipRow(r) \/ CommitRow(r) \/ FailRow(r) \/ LoseCommitAnswer(r)
  BY <1>1, <1>6 DEF Commits, ListRows, CountRow, CompleteJob
<1>7. ASSUME NEW r \in Requests, NEW k \in Jobs, Requested(r, k) PROVE FALSE
  BY <1>1, <1>7 DEF Requested, GetPreview, Cancel, Commit, RequestsPreview, CompletionPreview,
                    RequestsApply, CompletionApply
<1>8. QED
  BY <1>1, <1>2, <1>4, <1>5, <1>6, <1>7
  DEF Next, MarkPreviewed, MarkCancelled, Abort, SetLifecycle, ImportSingle, vars

JobStaysDone(j) ==
  jobs[j].status = "completed" =>
    /\ jobs'[j] = jobs[j]
    /\ \A n \in DOMAIN rows[j] : rows'[j][n].status = rows[j][n].status

LEMMA CompletedJobStays ==
  ASSUME ImportInv, TypeInv, CarefulInv, [Next]_vars, NEW j \in Careful
  PROVE  JobStaysDone(j)
<1> SUFFICES ASSUME jobs[j].status = "completed"
             PROVE  /\ jobs'[j] = jobs[j]
                    /\ \A n \in DOMAIN rows[j] : rows'[j][n].status = rows[j][n].status
  BY DEF JobStaysDone
<1>1. j \in Jobs /\ NothingEarly
  BY CarefulAssumption DEF CarefulInv
<1>2. ASSUME NEW r \in Requests, Serves(r, j) PROVE request[r].at \notin WritesJob
  BY <1>2 DEF CarefulInv, StillHolds, Serves
<1>3. jobs'[j] = jobs[j]
  BY <1>1, <1>2, JobsChange
<1>4. \A r \in Requests : Serves(r, j) => ~ CommitsRow(r)
  BY <1>2 DEF CommitsRow, Working, WritesJob
<1>5. \A n \in DOMAIN rows[j] : rows'[j][n].status = rows[j][n].status
  BY <1>1, <1>4, StatesChange
<1>6. QED
  BY <1>3, <1>5

\* A completed job of a client that waits for its answers stays completed, with
\* the counts it has answered and its rows as they are: no cancel, preview,
\* completion or commit that comes later, or fails halfway, changes them.
THEOREM CompletedJobsAreFinal == Spec => JobIsFinal
<1>1. ImportInv /\ TypeInv /\ CarefulInv /\ [Next]_vars
        => [\A j \in Careful : jobs[j].status = "completed" =>
              /\ jobs'[j] = jobs[j]
              /\ \A n \in DOMAIN rows[j] : rows'[j][n].status = rows[j][n].status]_vars
  BY CompletedJobStays DEF JobStaysDone
<1>2. CapturesInv /\ [Next]_vars => CapturesInv'
  BY CapturesNext
<1>3. QED
  BY ImportInit, ImportNext, TypeInit, TypeNext, CapturesInit, CarefulInit, CarefulNext, <1>1, <1>2, PTL
  DEF Spec, JobIsFinal

\* The card of a row that is imported now has a proposed value where the user
\* had accepted one, and only there.
CardAsAccepted(j, n) ==
  (rows[j][n].status # "imported" /\ rows'[j][n].status = "imported") =>
    \A f \in Fields \ (PipelineFills \cup rows[j][n].given) :
      captures'[<<j, n>>].card[f] = "proposed" <=>
        f \in DOMAIN rows[j][n].proposals /\ rows[j][n].proposals[f] = "accepted"

LEMMA CardGetsAccepted ==
  ASSUME ImportInv, TypeInv, CapturesInv, CarefulInv, [Next]_vars, NEW j \in Careful,
         NEW n \in DOMAIN rows[j]
  PROVE  CardAsAccepted(j, n)
<1> SUFFICES ASSUME rows[j][n].status # "imported", rows'[j][n].status = "imported",
                    NEW f \in Fields \ (PipelineFills \cup rows[j][n].given)
             PROVE  captures'[<<j, n>>].card[f] = "proposed" <=>
                      f \in DOMAIN rows[j][n].proposals /\ rows[j][n].proposals[f] = "accepted"
  BY DEF CardAsAccepted
<1>1. j \in Jobs /\ NothingEarly
  BY CarefulAssumption DEF CarefulInv
<1>2. PICK r \in Requests : Serves(r, j) /\ CommitsRow(r) /\ request[r].next = n /\ CommitRow(r)
  BY <1>1, StatesChange
<1>3. request[r].id = j /\ RowId(r) = <<j, n>> /\ <<j, n>> \in CaptureIds
  BY <1>1, <1>2, RowNumbers DEF Serves, RowId
<1>4. Row(r) = rows[j][n] /\ captures[<<j, n>>].status = "absent"
  BY <1>2, <1>3, CommitFinds DEF CommitRow, Importable
<1> DEFINE new == [status |-> "live", ext |-> Row(r).ext, hash |-> Words(Row(r).content),
                   card |-> ApplyAcceptedProposals(Row(r), PipelineCard(Row(r)))]
<1>5. captures' = [captures EXCEPT ![<<j, n>>] = new]
  BY <1>2, <1>3, <1>4 DEF CommitRow, CreateCapture
<1>6. captures'[<<j, n>>].card = ApplyAcceptedProposals(rows[j][n], PipelineCard(rows[j][n]))
  <2>1. new.card = ApplyAcceptedProposals(rows[j][n], PipelineCard(rows[j][n]))
    BY <1>4
  <2> HIDE DEF new
  <2>2. captures'[<<j, n>>] = new
    BY <1>3, <1>5 DEF CapturesInv
  <2>3. QED
    BY <2>1, <2>2
<1>7. PipelineCard(rows[j][n])[f] = "empty"
  BY DEF PipelineCard
<1>8. QED
  BY <1>6, <1>7 DEF ApplyAcceptedProposals

\* What the user has accepted for a field that neither the file nor the pipeline
\* fills is on the card of the row that is imported, and nothing else is: however
\* often the row was proposed for, decided about, or met by a commit before.
THEOREM AcceptedProposalsReachTheCard == Spec => AcceptedReachesCard
<1>1. ImportInv /\ TypeInv /\ CapturesInv /\ CarefulInv /\ [Next]_vars
        => [\A j \in Careful : \A n \in DOMAIN rows[j] :
              (rows[j][n].status # "imported" /\ rows'[j][n].status = "imported") =>
                \A f \in Fields \ (PipelineFills \cup rows[j][n].given) :
                  captures'[<<j, n>>].card[f] = "proposed" <=>
                    f \in DOMAIN rows[j][n].proposals /\ rows[j][n].proposals[f] = "accepted"]_vars
  BY CardGetsAccepted DEF CardAsAccepted
<1>2. CapturesInv /\ [Next]_vars => CapturesInv'
  BY CapturesNext
<1>3. QED
  BY ImportInit, ImportNext, TypeInit, TypeNext, CapturesInit, CarefulInit, CarefulNext, <1>1, <1>2, PTL
  DEF Spec, AcceptedReachesCard

-----------------------------------------------------------------------------
(* Rows and texts                                                          *)

\* The rows that a completion or a commit writes keep what the file gave.
LEMMA SourceWritten ==
  ASSUME NEW row \in ImportRow, NEW proposals, NEW status
  PROVE  /\ SourceOf(SetRowCompletion(row, proposals)) = SourceOf(row)
         /\ SourceOf(MarkRowState(row, status)) = SourceOf(row)
BY DEF SourceOf, SetRowCompletion, MarkRowState, ImportRow

LEMMA RowsKeepSource ==
  ASSUME ImportInv, TypeInv, [Next]_vars, NEW j \in Jobs, jobs[j].status # "none"
  PROVE  /\ DOMAIN rows'[j] = DOMAIN rows[j]
         /\ \A n \in DOMAIN rows[j] : SourceOf(rows'[j][n]) = SourceOf(rows[j][n])
<1>1. DOMAIN rows[j] = 1 .. Len(rows[j])
  BY RowNumbers
<1> SUFFICES ASSUME rows' # rows
             PROVE  /\ DOMAIN rows'[j] = DOMAIN rows[j]
                    /\ \A n \in DOMAIN rows[j] : SourceOf(rows'[j][n]) = SourceOf(rows[j][n])
  OBVIOUS
<1>2. ASSUME NEW r \in Requests, NEW place \in GoesByRow, Working(r, place), NEW row, Write(r, row),
             SourceOf(row) = SourceOf(Stored(r))
      PROVE  /\ DOMAIN rows'[j] = DOMAIN rows[j]
             /\ \A n \in DOMAIN rows[j] : SourceOf(rows'[j][n]) = SourceOf(rows[j][n])
  <2>1. request[r].id \in Jobs /\ request[r].next \in 1 .. Len(rows[request[r].id])
    BY <1>2, AtARow
  <2>2. Rewritten(request[r].id, request[r].next, row)
    BY <1>2, <2>1, WriteRewrites DEF ImportInv
  <2>3. \A n \in 1 .. Len(rows[j]) :
          rows'[j][n] = IF j = request[r].id /\ n = request[r].next THEN row ELSE rows[j][n]
    BY <2>2 DEF Rewritten
  <2>4. QED
    BY <1>1, <1>2, <2>2, <2>3 DEF Rewritten, Stored
<1>3. ASSUME NEW r \in Requests, Completes(r)
      PROVE  \E place, proposals :
               place \in GoesByRow /\ Working(r, place) /\ Write(r, SetRowCompletion(Stored(r), proposals))
  <2>1. CASE GenerateNothing(r) \/ CompletionAnswers(r)
    BY <2>1 DEF GenerateNothing, CompletionAnswers
  <2>2. CASE ApplyRow(r)
    BY <2>2 DEF ApplyRow, GoesByRow
  <2>3. ASSUME NEW fields, GenerateFieldProposals(r, fields)
        PROVE  \E place, proposals :
                 place \in GoesByRow /\ Working(r, place) /\ Write(r, SetRowCompletion(Stored(r), proposals))
    BY <2>3 DEF GenerateFieldProposals, Completable, GoesByRow
  <2>4. QED
    BY <1>3, <2>1, <2>2, <2>3 DEF Completes
<1>4. ASSUME NEW r \in Requests, Commits(r)
      PROVE  \E place, status :
               place \in GoesByRow /\ Working(r, place) /\ Write(r, MarkRowState(Stored(r), status))
  <2>1. CASE SkipRow(r) \/ CommitRow(r) \/ FailRow(r) \/ LoseCommitAnswer(r)
    BY <2>1 DEF SkipRow, CommitRow, FailRow, LoseCommitAnswer, Importable, CommitsRow, GoesByRow
  <2>2. CASE CountRow(r) \/ CompleteJob(r) \/ \E skips \in SUBSET (1 .. MaxRows) : ListRows(r, skips)
    BY <2>2 DEF ListRows, CountRow, CompleteJob
  <2>3. QED
    BY <1>4, <2>1, <2>2 DEF Commits
<1>5. ASSUME NEW r \in Requests, NEW place \in GoesByRow, Working(r, place)
      PROVE  Stored(r) \in ImportRow
  BY <1>5, AtARow
<1>6. ASSUME NEW r \in Requests, Completes(r) \/ Commits(r)
      PROVE  /\ DOMAIN rows'[j] = DOMAIN rows[j]
             /\ \A n \in DOMAIN rows[j] : SourceOf(rows'[j][n]) = SourceOf(rows[j][n])
  <2>1. PICK place, row :
          place \in GoesByRow /\ Working(r, place) /\ Write(r, row) /\ SourceOf(row) = SourceOf(Stored(r))
    <3>1. CASE Completes(r)
      <4>1. PICK place, proposals :
              place \in GoesByRow /\ Working(r, place) /\ Write(r, SetRowCompletion(Stored(r), proposals))
        BY <1>3, <3>1
      <4>2. SourceOf(SetRowCompletion(Stored(r), proposals)) = SourceOf(Stored(r))
        BY <1>5, <4>1, SourceWritten
      <4>3. QED
        BY <4>1, <4>2
    <3>2. CASE Commits(r)
      <4>1. PICK place, status :
              place \in GoesByRow /\ Working(r, place) /\ Write(r, MarkRowState(Stored(r), status))
        BY <1>4, <3>2
      <4>2. SourceOf(MarkRowState(Stored(r), status)) = SourceOf(Stored(r))
        BY <1>5, <4>1, SourceWritten
      <4>3. QED
        BY <4>1, <4>2
    <3>3. QED
      BY <1>6, <3>1, <3>2
  <2>2. QED
    BY <1>2, <2>1
<1>7. ASSUME NEW k \in Jobs, NEW text \in Texts, CreateJob(k, text)
      PROVE  rows'[j] = rows[j]
  BY <1>7 DEF CreateJob, InsertJob, ImportInv, TablesInv
<1>8. ASSUME NEW r \in Requests, NEW k \in Jobs, Requested(r, k) PROVE FALSE
  BY <1>8 DEF Requested, GetPreview, Cancel, Commit, RequestsPreview, CompletionPreview,
              RequestsApply, CompletionApply
<1>9. QED
  BY <1>6, <1>7, <1>8
  DEF Next, MarkPreviewed, MarkCancelled, Abort, SetLifecycle, ImportSingle, vars

\* The text of a job is never written again.
LEMMA TextStays ==
  ASSUME ImportInv, [Next]_vars, NEW j \in Jobs, jobs[j].status # "none"
  PROVE  jobs'[j].text = jobs[j].text
<1> SUFFICES ASSUME jobs' # jobs PROVE jobs'[j].text = jobs[j].text
  OBVIOUS
<1>1. ASSUME NEW r \in Requests, NEW status, NEW counts, UpdateJob(r, status, counts)
      PROVE  jobs'[j].text = jobs[j].text
  <2>1. PICK i : i = request[r].id
    OBVIOUS
  <2>2. PICK new : new = [jobs[i] EXCEPT !.status = status, !.counts = counts]
    OBVIOUS
  <2>3. jobs' = [jobs EXCEPT ![i] = new] /\ DOMAIN jobs = Jobs
    BY <1>1, <2>1, <2>2 DEF UpdateJob, ImportInv, TablesInv
  <2>4. i = j => new.text = jobs[j].text
    BY <2>2 DEF ImportInv, TablesInv, IsJob
  <2>5. QED
    BY <2>3, <2>4
<1>2. ASSUME NEW r \in Requests, MarkPreviewed(r) \/ MarkCancelled(r) PROVE jobs'[j].text = jobs[j].text
  BY <1>1, <1>2 DEF MarkPreviewed, MarkCancelled
<1>3. ASSUME NEW k \in Jobs, NEW text \in Texts, CreateJob(k, text) PROVE jobs'[j].text = jobs[j].text
  BY <1>3 DEF CreateJob, InsertJob, ImportInv, TablesInv
<1>4. ASSUME NEW r \in Requests, Completes(r) PROVE FALSE
  BY <1>4 DEF Completes, GenerateFieldProposals, GenerateNothing, ApplyRow, CompletionAnswers
<1>5. ASSUME NEW r \in Requests, Commits(r) PROVE jobs'[j].text = jobs[j].text
  <2>1. CASE CountRow(r) \/ SkipRow(r) \/ FailRow(r)
    BY <2>1 DEF CountRow, SkipRow, FailRow
  <2>2. CASE CommitRow(r) \/ LoseCommitAnswer(r)
    BY <2>2 DEF CommitRow, LoseCommitAnswer
  <2>3. CASE \E skips \in SUBSET (1 .. MaxRows) : ListRows(r, skips)
    BY <2>3 DEF ListRows
  <2>4. CASE CompleteJob(r)
    BY <1>1, <2>4 DEF CompleteJob
  <2>5. QED
    BY <1>5, <2>1, <2>2, <2>3, <2>4 DEF Commits
<1>6. ASSUME NEW r \in Requests, NEW k \in Jobs, Requested(r, k) PROVE FALSE
  BY <1>6 DEF Requested, GetPreview, Cancel, Commit, RequestsPreview, CompletionPreview,
              RequestsApply, CompletionApply
<1>7. QED
  BY <1>2, <1>3, <1>4, <1>5, <1>6 DEF Next, Abort, SetLifecycle, ImportSingle, vars

\* Only a job that is created comes to be there.
LEMMA JobAppears ==
  ASSUME ImportInv, [Next]_vars, NEW j \in Jobs, jobs[j].status = "none", jobs'[j].status # "none"
  PROVE  \E text \in Texts : CreateJob(j, text)
<1>1. jobs' # jobs
  OBVIOUS
<1>2. ASSUME NEW k \in Jobs, NEW text \in Texts, CreateJob(k, text) PROVE k = j
  BY <1>2 DEF CreateJob, InsertJob, ImportInv, TablesInv
<1>3. ASSUME NEW r \in Requests, NEW status, NEW counts, UpdateJob(r, status, counts),
             request[r].at \in WritesJob
      PROVE  FALSE
  <2>1. request[r].at # "idle"
    BY <1>3 DEF WritesJob
  <2>2. PICK i \in Jobs : i = request[r].id
    BY <2>1 DEF ImportInv, RequestInv
  <2>3. jobs[i].status # "none"
    BY <2>1, <2>2 DEF ImportInv, RequestInv
  <2>4. j = i
    BY <1>3, <2>2, UpdateTouches DEF ImportInv
  <2>5. QED
    BY <2>3, <2>4
<1>4. ASSUME NEW r \in Requests, MarkPreviewed(r) \/ MarkCancelled(r) \/ CompleteJob(r) PROVE FALSE
  BY <1>3, <1>4 DEF MarkPreviewed, MarkCancelled, CompleteJob, WritesJob
<1>5. ASSUME NEW r \in Requests, Completes(r) PROVE FALSE
  BY <1>1, <1>5 DEF Completes, GenerateFieldProposals, GenerateNothing, ApplyRow, CompletionAnswers
<1>6. ASSUME NEW r \in Requests, Commits(r) PROVE FALSE
  <2>1. CASE CountRow(r) \/ SkipRow(r) \/ FailRow(r)
    BY <1>1, <2>1 DEF CountRow, SkipRow, FailRow
  <2>2. CASE CommitRow(r) \/ LoseCommitAnswer(r)
    BY <1>1, <2>2 DEF CommitRow, LoseCommitAnswer
  <2>3. CASE \E skips \in SUBSET (1 .. MaxRows) : ListRows(r, skips)
    BY <1>1, <2>3 DEF ListRows
  <2>4. CASE CompleteJob(r)
    BY <1>4, <2>4
  <2>5. QED
    BY <1>6, <2>1, <2>2, <2>3, <2>4 DEF Commits
<1>7. ASSUME NEW r \in Requests, NEW k \in Jobs, Requested(r, k) PROVE FALSE
  BY <1>1, <1>7 DEF Requested, GetPreview, Cancel, Commit, RequestsPreview, CompletionPreview,
                    RequestsApply, CompletionApply
<1>8. QED
  BY <1>1, <1>2, <1>4, <1>5, <1>6, <1>7 DEF Next, Abort, SetLifecycle, ImportSingle, vars

\* These rows are what the parser makes of this text.
RowsOf(text, list) ==
  /\ text \in Texts /\ Accepted(text)
  /\ DOMAIN list = 1 .. Len(ParsedRows(text))
  /\ \A n \in 1 .. Len(ParsedRows(text)) : SourceOf(list[n]) = ParsedSource(ParsedRows(text)[n])

LEMMA ParsedByJob == RowsAreParsed <=> \A j \in Jobs : jobs[j].status # "none" => RowsOf(jobs[j].text, rows[j])
BY DEF RowsAreParsed, RowsOf

LEMMA ParsedNextByJob ==
  ASSUME \A j \in Jobs : jobs'[j].status # "none" => RowsOf(jobs'[j].text, rows'[j])
  PROVE  RowsAreParsed'
BY DEF RowsAreParsed, RowsOf, SourceOf

\* The rows that a new job gets.
LEMMA BuiltFromText ==
  ASSUME NEW text \in Texts, Accepted(text)
  PROVE  RowsOf(text, BuildImportRows(ParsedRows(text)))
<1> DEFINE parsed == ParsedRows(text)
           built == BuildImportRows(parsed)
<1> HIDE DEF parsed
<1>1. DOMAIN built = 1 .. Len(parsed)
  BY DEF BuildImportRows
<1>2. ASSUME NEW n \in 1 .. Len(parsed) PROVE SourceOf(built[n]) = ParsedSource(parsed[n])
  <2>1. built[n] = [ext |-> parsed[n].external_id, content |-> parsed[n].content,
                    given |-> parsed[n].given, errors |-> parsed[n].errors,
                    dedupe |-> Dedupe(parsed, n),
                    status |-> IF parsed[n].errors = {} THEN "pending" ELSE "needs_input",
                    captured |-> FALSE, proposals |-> NoProposals]
    BY DEF BuildImportRows
  <2> HIDE DEF built
  <2>2. QED
    BY <2>1 DEF SourceOf, ParsedSource
<1> HIDE DEF built
<1>3. QED
  BY <1>1, <1>2 DEF RowsOf, parsed, built

LEMMA ParsedNext == ImportInv /\ TypeInv /\ RowsAreParsed /\ [Next]_vars => RowsAreParsed'
<1> SUFFICES ASSUME ImportInv, TypeInv, RowsAreParsed, [Next]_vars PROVE RowsAreParsed'
  OBVIOUS
<1>1. SUFFICES ASSUME NEW j \in Jobs, jobs'[j].status # "none" PROVE RowsOf(jobs'[j].text, rows'[j])
  BY ParsedNextByJob
<1>2. CASE jobs[j].status = "none"
  <2>1. PICK text \in Texts : CreateJob(j, text)
    BY <1>1, <1>2, JobAppears
  <2>2. jobs'[j].text = text /\ rows'[j] = BuildImportRows(ParsedRows(text)) /\ Accepted(text)
    BY <2>1 DEF CreateJob, InsertJob, ImportInv, TablesInv
  <2>3. QED
    BY <2>1, <2>2, BuiltFromText
<1>3. CASE jobs[j].status # "none"
  <2>1. RowsOf(jobs[j].text, rows[j])
    BY <1>3, ParsedByJob
  <2>2. jobs'[j].text = jobs[j].text
    BY <1>3, TextStays
  <2>3. /\ DOMAIN rows'[j] = DOMAIN rows[j]
        /\ \A n \in DOMAIN rows[j] : SourceOf(rows'[j][n]) = SourceOf(rows[j][n])
    BY <1>3, RowsKeepSource
  <2>4. QED
    BY <2>1, <2>2, <2>3 DEF RowsOf
<1>4. QED
  BY <1>2, <1>3

LEMMA ParsedInit == Init => RowsAreParsed
BY DEF Init, NoJob, RowsAreParsed

\* However a job is previewed, completed, decided and committed, and whatever
\* overlaps or fails, its rows are those that the parser made of its text.
THEOREM RowsAreTheirTexts == Spec => []RowsAreParsed
<1>1. CapturesInv /\ [Next]_vars => CapturesInv'
  BY CapturesNext
<1>2. QED
  BY ImportInit, ImportNext, TypeInit, TypeNext, CapturesInit, ParsedInit, ParsedNext, <1>1, PTL DEF Spec

-----------------------------------------------------------------------------
(* Records and objects                                                     *)

LEMMA FirstExists ==
  ASSUME NEW n \in Nat, NEW S, S \subseteq 1 .. n, S # {}
  PROVE  \E i \in S : \A j \in S : i <= j
<1> DEFINE Before == OpToRel(<, Nat)
<1>1. S \subseteq Nat
  OBVIOUS
<1>0. IsWellFoundedOn(Before, Nat)
  BY NatLessThanWellFounded
<1> HIDE DEF Before
<1>2. PICK i \in S : \A j \in S : <<j, i>> \notin Before
  BY <1>0, <1>1, WFMin
<1>3. \A j \in S : ~ (j < i)
  BY <1>1, <1>2 DEF OpToRel, Before
<1>4. QED
  BY <1>1, <1>3

Nothing == {"", Null, Absent}

\* A header may use exactly these names for a field.
StandFor(names, c) == \A s : CanonicalColumn(s) = c <=> s \in names

\* What the parser finds in a record.
Found(header, cells) == Lookup([i \in DOMAIN header |-> CanonicalColumn(header[i])], cells)

\* What the parser finds for a field is what the record has under the first
\* column that may stand for it.
LEMMA LookupFinds ==
  ASSUME NEW header \in Seq(STRING), NEW cells \in Seq(STRING), NEW c \in Columns,
         NEW names, StandFor(names, c)
  PROVE  {AsString(Found(header, cells)[c])} \ {""} = Under(header, names, cells) \ Nothing
<1> DEFINE columns == [i \in DOMAIN header |-> CanonicalColumn(header[i])]
           at == {i \in DOMAIN columns : columns[i] = c}
           first == CHOOSE i \in at : \A j \in at : i <= j
           found == Found(header, cells)[c]
           named == {k \in DOMAIN header \cap DOMAIN cells :
                       header[k] \in names /\ \A h \in 1 .. (k - 1) : header[h] \notin names}
<1>1. /\ DOMAIN header = 1 .. Len(header) /\ Len(header) \in Nat
      /\ DOMAIN cells = 1 .. Len(cells) /\ Len(cells) \in Nat
  OBVIOUS
<1>2. at = {i \in 1 .. Len(header) : header[i] \in names}
  BY <1>1 DEF StandFor
<1>3. found = IF at = {} THEN Absent ELSE IF first <= Len(cells) THEN cells[first] ELSE Null
  BY DEF Lookup, Found
<1>4. Under(header, names, cells) = {cells[i] : i \in named}
  BY DEF Under
<1> SUFFICES {AsString(found)} \ {""} = Under(header, names, cells) \ Nothing
  OBVIOUS
<1> HIDE DEF found, columns
<1>5. CASE at = {}
  <2>1. named = {}
    BY <1>1, <1>2, <1>5
  <2>2. found = Absent
    BY <1>3, <1>5
  <2>3. QED
    BY <1>4, <2>1, <2>2 DEF AsString
<1>6. CASE at # {}
  <2>1. \E i \in at : \A j \in at : i <= j
    BY <1>1, <1>2, <1>6, FirstExists
  <2>2. first \in at /\ \A j \in at : first <= j
    BY <2>1
  <2> HIDE DEF at, first
  <2>3. first \in 1 .. Len(header) /\ header[first] \in names
        /\ \A j \in 1 .. Len(header) : header[j] \in names => first <= j
    BY <1>2, <2>2
  <2>4. named = IF first <= Len(cells) THEN {first} ELSE {}
    BY <1>1, <2>3
  <2> HIDE DEF named
  <2>5. CASE first <= Len(cells)
    <3>1. found = cells[first] /\ Under(header, names, cells) = {cells[first]}
      BY <1>3, <1>4, <1>6, <2>4, <2>5
    <3>2. QED
      BY <3>1 DEF AsString, Nothing
  <2>6. CASE ~ (first <= Len(cells))
    <3>1. found = Null /\ Under(header, names, cells) = {}
      BY <1>3, <1>4, <1>6, <2>4, <2>6
    <3>2. QED
      BY <3>1 DEF AsString
  <2>7. QED
    BY <2>5, <2>6
<1>7. QED
  BY <1>5, <1>6

LEMMA TextHolds ==
  ASSUME NEW row, NEW texts, NEW keys, NEW text, NEW key,
         row.content = Content(text), row.ext = key,
         {text} \ {""} = texts \ Nothing, {key} \ {""} = keys \ Nothing
  PROVE  Holds(row, texts, keys)
<1>1. {row.content} \ {<<>>} = {<<line>> : line \in texts \ Nothing}
  <2>1. CASE text = ""
    BY <2>1 DEF Content
  <2>2. CASE text # ""
    <3>1. row.content = <<text>> /\ texts \ Nothing = {text}
      BY <2>2 DEF Content
    <3>2. <<text>> # <<>>
      OBVIOUS
    <3>3. QED
      BY <3>1, <3>2
  <2>3. QED
    BY <2>1, <2>2
<1>2. QED
  BY <1>1 DEF Holds, Nothing

LEMMA Populated ==
  ASSUME NEW v
  PROVE  /\ PopulateRow(v).content = Content(AsString(v["content"]))
         /\ PopulateRow(v).external_id = AsString(v["external_id"])
BY DEF PopulateRow

LEMMA HeaderNames ==
  /\ "content" \in Columns /\ StandFor(ContentNames, "content")
  /\ "external_id" \in Columns /\ StandFor(KeyNames, "external_id")
<1>1. StandFor(ContentNames, "content")
  BY DEF CanonicalColumn, ContentNames, StandFor
<1>2. StandFor(KeyNames, "external_id")
  BY DEF CanonicalColumn, KeyNames, StandFor
<1>3. QED
  BY <1>1, <1>2 DEF Columns

LEMMA FoundFields ==
  ASSUME NEW header \in Seq(STRING), NEW cells \in Seq(STRING)
  PROVE  /\ {AsString(Found(header, cells)["content"])} \ {""} = Under(header, ContentNames, cells) \ Nothing
         /\ {AsString(Found(header, cells)["external_id"])} \ {""} = Under(header, KeyNames, cells) \ Nothing
<1> DEFINE Finds(c, names) ==
             {AsString(Found(header, cells)[c])} \ {""} = Under(header, names, cells) \ Nothing
<1>0. \A c \in Columns : \A names : StandFor(names, c) => Finds(c, names)
  BY LookupFinds
<1> HIDE DEF Finds
<1>1. Finds("content", ContentNames)
  BY <1>0, HeaderNames
<1>2. Finds("external_id", KeyNames)
  BY <1>0, HeaderNames
<1> USE DEF Finds
<1>3. QED
  BY <1>1, <1>2

\* The text and the key of a row of a job are those of the parser's row.
LEMMA RowsOfText ==
  ASSUME NEW text, NEW list, RowsOf(text, list), NEW n \in 1 .. Len(ParsedRows(text))
  PROVE  /\ list[n].content = ParsedRows(text)[n].content
         /\ list[n].ext = ParsedRows(text)[n].external_id
BY DEF RowsOf, SourceOf, ParsedSource

\* A list that is not empty is as long as it was made.
LEMMA MadeTo ==
  ASSUME NEW m \in Int, NEW S, NEW made \in [1 .. m -> S], Len(made) \in 1 .. MaxRows
  PROVE  Len(made) = m
<1>1. CASE m \in Nat
  BY <1>1
<1>2. CASE m \notin Nat
  <2>1. 1 .. m = 1 .. 0
    BY <1>2
  <2>2. made \in [1 .. 0 -> S] /\ 0 \in Nat
    BY <2>1
  <2>3. Len(made) = 0
    BY <2>2
  <2>4. QED
    BY <2>3, MaxRowsAssumption
<1>3. QED
  BY <1>1, <1>2

LEMMA TableIsKept ==
  ASSUME NEW text, NEW list, RowsOf(text, list), NormalizeFormat(text.format) = "csv"
  PROVE  TableKept(Filled(text.lines), list)
<1> DEFINE records == Filled(text.lines)
           header == records[1].cells
           cell(k) == Found(header, records[k + 1].cells)
           made == [k \in 1 .. (Len(records) - 1) |-> PopulateRow(cell(k))]
<1>1. /\ text \in Texts /\ Accepted(text) /\ Len(records) \in Nat /\ DOMAIN records = 1 .. Len(records)
      /\ \A n \in 1 .. Len(records) : records[n].kind # "malformed" => records[n].cells \in Seq(STRING)
  BY TextsAssumption DEF RowsOf
<1>2. /\ [text EXCEPT !.format = "csv"].format = "csv"
      /\ [text EXCEPT !.format = "csv"].lines = text.lines
  BY <1>1, TextsAssumption
<1>3. Parse([text EXCEPT !.format = NormalizeFormat(text.format)]) = ParseCSV(text.lines)
  BY <1>2 DEF Parse
<1>4. ParseCSV(text.lines).ok /\ Len(ParseCSV(text.lines).rows) \in 1 .. MaxRows
      /\ ParsedRows(text) = ParseCSV(text.lines).rows
  BY <1>1, <1>3 DEF Accepted, ParsedRows
<1>5. records # <<>> /\ (\A i \in DOMAIN records : records[i].kind # "malformed")
      /\ ParseCSV(text.lines) = Parsed(made)
  BY <1>4 DEF ParseCSV, Failure, Found
<1> HIDE DEF records
<1>6. ParsedRows(text) = made /\ Len(made) \in 1 .. MaxRows
  BY <1>4, <1>5 DEF Parsed
<1>7. Len(made) = Len(records) - 1
  <2>1. /\ made \in [1 .. (Len(records) - 1) -> {PopulateRow(cell(k)) : k \in 1 .. (Len(records) - 1)}]
        /\ Len(records) - 1 \in Int
    BY <1>1
  <2> HIDE DEF made
  <2>2. QED
    BY <1>6, <2>1, MadeTo
<1>8. DOMAIN list = 1 .. (Len(records) - 1)
  BY <1>6, <1>7 DEF RowsOf
<1>9. \A n \in 1 .. Len(records) : records[n].cells \in Seq(STRING)
  BY <1>1, <1>5
<1>10. ASSUME NEW n \in 1 .. (Len(records) - 1)
       PROVE  Holds(list[n], Under(header, ContentNames, records[n + 1].cells),
                    Under(header, KeyNames, records[n + 1].cells))
  <2>1. list[n].content = made[n].content /\ list[n].ext = made[n].external_id
    BY <1>6, <1>7, RowsOfText
  <2>2. made[n] = PopulateRow(cell(n))
    OBVIOUS
  <2>3. header \in Seq(STRING) /\ records[n + 1].cells \in Seq(STRING)
    <3>1. 1 \in 1 .. Len(records) /\ n + 1 \in 1 .. Len(records)
      BY <1>1
    <3>2. QED
      BY <1>9, <3>1
  <2> HIDE DEF header
  <2>4. /\ {AsString(cell(n)["content"])} \ {""} = Under(header, ContentNames, records[n + 1].cells) \ Nothing
        /\ {AsString(cell(n)["external_id"])} \ {""} = Under(header, KeyNames, records[n + 1].cells) \ Nothing
    BY <2>3, FoundFields
  <2> HIDE DEF cell, made
  <2>5. list[n].content = Content(AsString(cell(n)["content"])) /\ list[n].ext = AsString(cell(n)["external_id"])
    BY <2>1, <2>2, Populated
  <2>6. QED
    BY <2>4, <2>5, TextHolds
<1>11. QED
  BY <1>8, <1>10 DEF TableKept, records

LEMMA ObjectsAreKept ==
  ASSUME NEW text, NEW list, RowsOf(text, list), NormalizeFormat(text.format) = "jsonl"
  PROVE  ObjectsKept(Filled(text.lines), list)
<1> DEFINE records == Filled(text.lines)
           value(object, c) == IF c \in DOMAIN object THEN object[c] ELSE Absent
           under(object, c) == {object[k] : k \in {c} \cap DOMAIN object}
           fields(k) == [c \in Columns |-> value(records[k].object, c)]
           broken == [NoFields EXCEPT !.errors = {"invalid_json"}]
           made == [k \in DOMAIN records |->
                      IF records[k].kind = "malformed" THEN broken ELSE PopulateRow(fields(k))]
<1>1. text \in Texts /\ Accepted(text) /\ Len(records) \in Nat /\ DOMAIN records = 1 .. Len(records)
  BY TextsAssumption DEF RowsOf
<1>2. /\ [text EXCEPT !.format = "jsonl"].format = "jsonl"
      /\ [text EXCEPT !.format = "jsonl"].lines = text.lines
  BY <1>1, TextsAssumption
<1>3. Parse([text EXCEPT !.format = NormalizeFormat(text.format)]) = ParseJSONL(text.lines)
  BY <1>2 DEF Parse
<1>4. ParseJSONL(text.lines) = Parsed(made)
  BY DEF ParseJSONL
<1>5. ParsedRows(text) = made
  <2>1. ParsedRows(text) = ParseJSONL(text.lines).rows
    BY <1>3 DEF ParsedRows
  <2> HIDE DEF made
  <2>2. QED
    BY <1>4, <2>1 DEF Parsed
<1> HIDE DEF records
<1>6. Len(made) = Len(records)
  BY <1>1
<1>7. DOMAIN list = 1 .. Len(records)
  BY <1>5, <1>6 DEF RowsOf
<1>8. ASSUME NEW n \in 1 .. Len(records)
      PROVE  IF records[n].kind = "malformed" THEN Holds(list[n], {}, {})
             ELSE Holds(list[n], under(records[n].object, "content"), under(records[n].object, "external_id"))
  <2>1. list[n].content = made[n].content /\ list[n].ext = made[n].external_id
    <3> HIDE DEF made
    <3>1. n \in 1 .. Len(ParsedRows(text))
      BY <1>5, <1>6
    <3>2. QED
      BY <1>5, <3>1, RowsOfText
  <2>2. made[n] = IF records[n].kind = "malformed" THEN broken ELSE PopulateRow(fields(n))
    BY <1>1
  <2>3. CASE records[n].kind = "malformed"
    <3>1. broken.content = NoFields.content /\ broken.external_id = NoFields.external_id
      BY DEF NoFields, PopulateRow
    <3>2. NoFields.content = Content("") /\ NoFields.external_id = ""
      BY Populated DEF NoFields, AsString, Columns
    <3>3. QED
      BY <2>1, <2>2, <2>3, <3>1, <3>2, TextHolds DEF Nothing
  <2>4. CASE records[n].kind # "malformed"
    <3>1. \A c \in Columns : {AsString(fields(n)[c])} \ {""} = under(records[n].object, c) \ Nothing
      BY DEF AsString, Nothing
    <3>2. /\ list[n].content = Content(AsString(fields(n)["content"]))
          /\ list[n].ext = AsString(fields(n)["external_id"])
      BY <2>1, <2>2, <2>4, Populated
    <3>3. "content" \in Columns /\ "external_id" \in Columns
      BY DEF Columns
    <3> HIDE DEF fields, under
    <3>4. QED
      BY <2>4, <3>1, <3>2, <3>3, TextHolds
  <2>5. QED
    BY <2>3, <2>4
<1>9. QED
  BY <1>7, <1>8 DEF ObjectsKept, records

\* However a job of records or objects is previewed, completed, decided and
\* committed, and whatever overlaps or fails, each of its rows has the text and
\* the key that the user uploaded in the record of that number.
THEOREM RecordsKeepTheirText == Spec => []RecordsKeepText
<1>1. RowsAreParsed => RecordsKeepText
  <2> SUFFICES ASSUME RowsAreParsed, NEW j \in Jobs, jobs[j].status # "none",
                      NormalizeFormat(jobs[j].text.format) # "plain_text"
               PROVE  TextKept(jobs[j].text, rows[j])
    BY DEF RecordsKeepText
  <2>1. RowsOf(jobs[j].text, rows[j])
    BY ParsedByJob
  <2>2. NormalizeFormat(jobs[j].text.format) \in {"csv", "jsonl"}
    BY <2>1 DEF RowsOf, Accepted
  <2>3. CASE NormalizeFormat(jobs[j].text.format) = "csv"
    BY <2>1, <2>3, TableIsKept DEF TextKept
  <2>4. CASE NormalizeFormat(jobs[j].text.format) = "jsonl"
    BY <2>1, <2>4, ObjectsAreKept DEF TextKept
  <2>5. QED
    BY <2>2, <2>3, <2>4
<1>2. QED
  BY RowsAreTheirTexts, <1>1, PTL
=============================================================================
