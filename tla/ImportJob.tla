------------------------------ MODULE ImportJob ------------------------------
(***************************************************************************)
(* The batch imports of one user, all from one source: a text becomes a    *)
(* job of rows; requests preview it, complete the rows' missing fields     *)
(* with proposals, accept some of them, and commit the job, which creates  *)
(* one capture per row, each in a transaction of its own.                  *)
(*                                                                         *)
(* An action is one statement of the database or one transaction.  A       *)
(* request works on the copies of the job and of the rows that it has      *)
(* read; requests overlap, fail at any statement, and are gone after a     *)
(* crash.  A job in Careful belongs to a client that waits for one answer  *)
(* about the job before it sends the next request about it.                *)
(*                                                                         *)
(* Left out: the consent gate of the completion (a refused request changes *)
(* nothing), the values of the proposals, and ids: row n of job j has the  *)
(* id <<j, n>>, which is also the id of its capture.                       *)
(***************************************************************************)
EXTENDS ImportParser

CONSTANTS
  Jobs,      \* ids of import jobs
  Careful,   \* the jobs whose client waits for each answer
  Late,      \* pairs: what a request about another job may be doing when what is sent
  MaxJobs,   \* bound: jobs that are created
  Requests,  \* places for requests that are being served
  Texts,     \* what clients upload
  Fields,    \* the card fields that are followed
  Singles    \* captures that are imported one by one: [id, ext, hash]

ASSUME CarefulAssumption == Careful \subseteq Jobs
ASSUME FieldsAssumption == Fields \subseteq {"title", "tags"}

\* What a text is, as far as the proofs need it: records are numbered, and a
\* record of a table that can be read is a sequence of cells.
ASSUME TextsAssumption ==
  \A text \in Texts :
    /\ DOMAIN text = {"format", "source", "lines"}
    /\ NormalizeFormat(text.format) \in {"csv", "jsonl"} =>
         /\ Len(Filled(text.lines)) \in Nat
         /\ DOMAIN Filled(text.lines) = 1 .. Len(Filled(text.lines))
    /\ NormalizeFormat(text.format) = "csv" =>
         \A n \in 1 .. Len(Filled(text.lines)) :
           Filled(text.lines)[n].kind # "malformed" => Filled(text.lines)[n].cells \in Seq(STRING)

VARIABLES
  jobs,      \* import_jobs: status, counts and raw text
  rows,      \* import_rows of each job, by row number
  captures,  \* captures and the two card fields that an import may fill
  request    \* what each running request has read and done

vars == <<jobs, rows, captures, request>>

-----------------------------------------------------------------------------
PipelineFills == {"title"}  \* the pipeline takes a title from the text

JobStatuses == {"none", "draft", "previewed", "completed", "cancelled"}
RowStatuses == {"pending", "needs_input", "imported", "skipped", "failed"}
Settled == {"imported", "skipped", "failed"}
DedupeStatuses == {"none", "duplicate_external", "suggested"}
ProposalStatuses == {"pending", "accepted", "rejected"}
Counters == {"total", "valid", "invalid", "duplicate", "imported", "skipped", "failed"}

NoCounts == [c \in Counters |-> 0]
NoText == [format |-> "none", source |-> "", lines |-> <<>>]
NoJob == [status |-> "none", counts |-> NoCounts, text |-> NoText]
NoProposals == [f \in {} |-> "pending"]

RowIds == Jobs \X (1 .. MaxRows)
CaptureIds == RowIds \cup {s.id : s \in Singles}

\* Ids of rows and of other captures are drawn apart.
ASSUME SinglesAssumption == {s.id : s \in Singles} \cap RowIds = {}

Absentee == [status |-> "absent", ext |-> "", hash |-> <<>>, card |-> [f \in Fields |-> "empty"]]

\* counts: those of the job that was read; copy: the rows still to be done, the
\* first of which has the number next; chosen: the rows that the client wants
\* completed, or skipped.
Idle == [at |-> "idle", counts |-> NoCounts, copy |-> <<>>, id |-> "none", chosen |-> {}, next |-> 1,
         tally |-> [s \in Settled |-> 0]]

Init ==
  /\ jobs = [j \in Jobs |-> NoJob]
  /\ rows = [j \in Jobs |-> <<>>]
  /\ captures = [c \in CaptureIds |-> Absentee]
  /\ request = [r \in Requests |-> Idle]

-----------------------------------------------------------------------------
(* What the database answers                                               *)

Live(c) == captures[c].status = "live"

FindExternalDuplicates(exts) == {e \in exts \ {""} : \E c \in CaptureIds : Live(c) /\ captures[c].ext = e}

FindContentHashMatches(hashes) ==
  {h \in hashes \ {<<>>} : \E c \in CaptureIds : Live(c) /\ captures[c].hash = h}

\* A capture other than c has the key already; a unique index says the same.
FindExternalDuplicate(c, ext) ==
  ext # "" /\ \E d \in CaptureIds \ {c} : Live(d) /\ captures[d].ext = ext

\* Mutation: capture_id is left as it was.
MarkRowStateOnly(row, status) == [row EXCEPT !.status = status]

MarkRowState(row, status) == [row EXCEPT !.status = status, !.captured = (status = "imported")]
SetRowCompletion(row, proposals) == [row EXCEPT !.proposals = proposals]

-----------------------------------------------------------------------------
(* CreateJob                                                               *)

\* The verdict on row n: its key exists, or its text does, here or earlier in
\* the batch.
Dedupe(parsed, n) ==
  LET hash == Words(parsed[n].content)
      earlier == {Words(parsed[k].content) : k \in 1 .. (n - 1)}
  IN IF parsed[n].external_id \in FindExternalDuplicates({parsed[n].external_id})
       THEN "duplicate_external"
     ELSE IF hash # <<>> /\ hash \in earlier \cup FindContentHashMatches({hash})
       THEN "suggested"
     ELSE "none"

BuildImportRows(parsed) ==
  [n \in 1 .. Len(parsed) |->
     [ext |-> parsed[n].external_id,
      content |-> parsed[n].content,
      given |-> parsed[n].given,
      errors |-> parsed[n].errors,
      dedupe |-> Dedupe(parsed, n),
      status |-> IF parsed[n].errors = {} THEN "pending" ELSE "needs_input",
      captured |-> FALSE,
      proposals |-> NoProposals]]

\* Rows that need input are the invalid ones.
DraftCounts(built) ==
  LET invalid == Cardinality({n \in DOMAIN built : built[n].errors # {}})
  IN [NoCounts EXCEPT !["total"] = Len(built),
                      !["invalid"] = invalid,
                      !["valid"] = Len(built) - invalid,
                      !["duplicate"] = Cardinality({n \in DOMAIN built :
                                                      built[n].dedupe = "duplicate_external"})]

\* The job and its rows go into the tables in one transaction.
InsertJob(j, text, built) ==
  /\ jobs' = [jobs EXCEPT ![j] = [status |-> "draft", counts |-> DraftCounts(built), text |-> text]]
  /\ rows' = [rows EXCEPT ![j] = built]

CreateJob(j, text) ==
  /\ jobs[j].status = "none"
  /\ Cardinality({k \in Jobs : jobs[k].status # "none"}) < MaxJobs
  /\ Accepted(text)
  /\ InsertJob(j, text, BuildImportRows(ParsedRows(text)))
  /\ UNCHANGED <<captures, request>>

-----------------------------------------------------------------------------
(* Requests                                                                *)

Serves(r, j) == request[r].at # "idle" /\ request[r].id = j

\* A request about j comes in and reads the job; its client may have sent
\* others before.
GetJob(r, j, place) ==
  /\ request[r].at = "idle"
  /\ jobs[j].status # "none"
  /\ \A q \in Requests : Serves(q, j) => j \notin Careful /\ <<request[q].at, place>> \in Late

Starts(r, j, place) == [Idle EXCEPT !.at = place, !.id = j, !.counts = jobs[j].counts]
Answers(r) == request' = [request EXCEPT ![r] = Idle]

\* Status and counts are written from the copy, whatever they have become.
UpdateJob(r, status, counts) ==
  jobs' = [jobs EXCEPT ![request[r].id] =
    [jobs[request[r].id] EXCEPT !.status = status, !.counts = counts]]

\* A preview of a draft marks the job; any other only reads.
GetPreview(r, j) ==
  /\ GetJob(r, j, "previewing")
  /\ jobs[j].status = "draft"
  /\ request' = [request EXCEPT ![r] = Starts(r, j, "previewing")]
  /\ UNCHANGED <<jobs, rows, captures>>

MarkPreviewed(r) ==
  /\ request[r].at = "previewing"
  /\ UpdateJob(r, "previewed", request[r].counts)
  /\ Answers(r)
  /\ UNCHANGED <<rows, captures>>

\* A completed job is not cancelled.
Cancel(r, j) ==
  /\ GetJob(r, j, "cancelling")
  /\ jobs[j].status # "completed"
  /\ request' = [request EXCEPT ![r] = Starts(r, j, "cancelling")]
  /\ UNCHANGED <<jobs, rows, captures>>

MarkCancelled(r) ==
  /\ request[r].at = "cancelling"
  /\ UpdateJob(r, "cancelled", request[r].counts)
  /\ Answers(r)
  /\ UNCHANGED <<rows, captures>>

-----------------------------------------------------------------------------
(* Completion                                                              *)

Row(r) == Head(request[r].copy)
Working(r, place) == request[r].at = place /\ request[r].copy # <<>>
Advanced(r) ==
  [request EXCEPT ![r] = [request[r] EXCEPT !.copy = Tail(@), !.next = @ + 1]]
Write(r, row) ==
  rows' = [rows EXCEPT ![request[r].id] = [rows[request[r].id] EXCEPT ![request[r].next] = row]]
Stored(r) == rows[request[r].id][request[r].next]

\* Of the job these requests read only that it is there.
LoadRows(r, j, place, copy, chosen) ==
  request' = [request EXCEPT ![r] = [Idle EXCEPT !.at = place, !.id = j, !.copy = copy,
                                                 !.chosen = chosen]]

\* The client names the rows, or means all of them.  Of each row this reads
\* what never changes.
CompletionPreview(r, j, chosen) ==
  /\ GetJob(r, j, "completing")
  /\ LoadRows(r, j, "completing",
       [n \in DOMAIN rows[j] |-> [errors |-> rows[j][n].errors, content |-> rows[j][n].content,
                                  given |-> rows[j][n].given]], chosen)
  /\ UNCHANGED <<jobs, rows, captures>>

\* What the card will lack, as candidateCardForRow has it.
MissingFields(row) == Fields \ row.given

\* What the generator is asked about: the rows that were named, if they are
\* valid and lack something.
Completable(r) ==
  /\ Working(r, "completing")
  /\ request[r].next \in request[r].chosen
  /\ Row(r).errors = {}
  /\ Row(r).content # <<>>
  /\ MissingFields(Row(r)) # {}

\* The answer replaces the proposals of the row, accepted ones too.
GenerateFieldProposals(r, fields) ==
  /\ Completable(r)
  /\ fields \subseteq MissingFields(Row(r))
  /\ Write(r, SetRowCompletion(Stored(r), [f \in fields |-> "pending"]))
  /\ request' = Advanced(r)
  /\ UNCHANGED <<jobs, captures>>

\* The row is not completable, or the generator fails and nothing is kept of it.
GenerateNothing(r) ==
  /\ Working(r, "completing")
  /\ request' = Advanced(r)
  /\ UNCHANGED <<jobs, rows, captures>>

\* The proposals with these fields are wanted, whatever became of them before.
Decided(proposals, wanted) ==
  [f \in DOMAIN proposals |->
     IF f \in wanted THEN "accepted"
     ELSE IF proposals[f] = "pending" THEN "rejected" ELSE proposals[f]]

\* The decisions are made on the copy and are written row by row.
CompletionApply(r, j, chosen, wanted) ==
  /\ GetJob(r, j, "applying")
  /\ LoadRows(r, j, "applying",
       [n \in DOMAIN rows[j] |-> Decided(rows[j][n].proposals, wanted)], chosen)
  /\ UNCHANGED <<jobs, rows, captures>>

ApplyRow(r) ==
  /\ Working(r, "applying")
  /\ IF request[r].next \in request[r].chosen
     THEN Write(r, SetRowCompletion(Stored(r), Row(r)))
     ELSE UNCHANGED rows
  /\ request' = Advanced(r)
  /\ UNCHANGED <<jobs, captures>>

CompletionAnswers(r) ==
  /\ request[r].at \in {"completing", "applying"}
  /\ request[r].copy = <<>>
  /\ Answers(r)
  /\ UNCHANGED <<jobs, rows, captures>>

-----------------------------------------------------------------------------
(* Commit                                                                  *)

\* A completed job answers what it has counted; a cancelled one is committed.
Commit(r, j) ==
  /\ GetJob(r, j, "listing")
  /\ jobs[j].status # "completed"
  /\ request' = [request EXCEPT ![r] = Starts(r, j, "listing")]
  /\ UNCHANGED <<jobs, rows, captures>>

Suggested(j) == {n \in DOMAIN rows[j] : rows[j][n].dedupe = "suggested"}

\* duplicate_content_action and row_actions come down to a choice for each
\* suspected duplicate.
ListRows(r, skips) ==
  /\ request[r].at = "listing"
  /\ skips \subseteq Suggested(request[r].id)
  /\ request' = [request EXCEPT ![r] =
       [request[r] EXCEPT !.at = "committing", !.copy = rows[request[r].id], !.chosen = skips]]
  /\ UNCHANGED <<jobs, rows, captures>>

CommitsRow(r) == Working(r, "committing")

Tallied(r, status) ==
  [request EXCEPT ![r] = [request[r] EXCEPT !.copy = Tail(@), !.next = @ + 1, !.tally[status] = @ + 1]]

\* Mutation: only what this request settles is counted.
CountRowUncounted(r) ==
  /\ CommitsRow(r)
  /\ Row(r).status \in Settled
  /\ request' = Advanced(r)
  /\ UNCHANGED <<jobs, rows, captures>>

CountRow(r) ==
  /\ CommitsRow(r)
  /\ Row(r).status \in Settled
  /\ request' = Tallied(r, Row(r).status)
  /\ UNCHANGED <<jobs, rows, captures>>

MustSkip(r) ==
  \/ Row(r).errors # {}
  \/ Row(r).dedupe = "duplicate_external"
  \/ request[r].next \in request[r].chosen

\* Mutation: a skipped row is counted and not marked.
SkipRowUnmarked(r) ==
  /\ CommitsRow(r)
  /\ Row(r).status \notin Settled
  /\ MustSkip(r)
  /\ request' = Tallied(r, "skipped")
  /\ UNCHANGED <<jobs, rows, captures>>

SkipRow(r) ==
  /\ CommitsRow(r)
  /\ Row(r).status \notin Settled
  /\ MustSkip(r)
  /\ Write(r, MarkRowState(Stored(r), "skipped"))
  /\ request' = Tallied(r, "skipped")
  /\ UNCHANGED <<jobs, captures>>

Importable(r) == CommitsRow(r) /\ Row(r).status \notin Settled /\ ~ MustSkip(r)

RowId(r) == <<request[r].id, request[r].next>>

\* Create refuses a row without text, a key that another capture has, and the
\* id of a capture that is in the trash.
Refused(r) ==
  \/ Row(r).content = <<>>
  \/ FindExternalDuplicate(RowId(r), Row(r).ext)
  \/ captures[RowId(r)].status = "trashed"

\* The card that the capture pipeline builds.
PipelineCard(row) ==
  [f \in Fields |-> IF f \in row.given THEN "given"
                    ELSE IF f \in PipelineFills THEN "fallback" ELSE "empty"]

\* Mutation: proposals that nobody has decided about count as accepted.
ApplyUndecidedProposals(row, card) ==
  [f \in Fields |-> IF card[f] = "empty" /\ f \in DOMAIN row.proposals
                       /\ row.proposals[f] # "rejected"
                    THEN "proposed" ELSE card[f]]

\* What was accepted fills what the pipeline has left empty.
ApplyAcceptedProposals(row, card) ==
  [f \in Fields |-> IF card[f] = "empty" /\ f \in DOMAIN row.proposals
                       /\ row.proposals[f] = "accepted"
                    THEN "proposed" ELSE card[f]]

\* A capture that is there already is a replay: nothing is applied to it.
CreateCapture(r) ==
  IF captures[RowId(r)].status = "live" THEN captures
  ELSE [captures EXCEPT ![RowId(r)] =
          [status |-> "live", ext |-> Row(r).ext, hash |-> Words(Row(r).content),
           card |-> ApplyAcceptedProposals(Row(r), PipelineCard(Row(r)))]]

\* Mutation: the row is marked after the transaction of the capture.
CommitRowUnmarked(r) ==
  /\ Importable(r)
  /\ ~ Refused(r)
  /\ captures' = CreateCapture(r)
  /\ request' = Tallied(r, "imported")
  /\ UNCHANGED <<jobs, rows>>

CommitRow(r) ==
  /\ Importable(r)
  /\ ~ Refused(r)
  /\ captures' = CreateCapture(r)
  /\ Write(r, MarkRowState(Stored(r), "imported"))
  /\ request' = Tallied(r, "imported")
  /\ UNCHANGED jobs

\* The transaction fails, or Create refuses the row.
FailRow(r) ==
  /\ Importable(r)
  /\ Write(r, MarkRowState(Stored(r), "failed"))
  /\ request' = Tallied(r, "failed")
  /\ UNCHANGED <<jobs, captures>>

\* The transaction takes effect and its answer is lost: the row is marked failed.
LoseCommitAnswer(r) ==
  /\ Importable(r)
  /\ ~ Refused(r)
  /\ captures' = CreateCapture(r)
  /\ Write(r, MarkRowState(Stored(r), "failed"))
  /\ request' = Tallied(r, "failed")
  /\ UNCHANGED jobs

CommittedCounts(r) ==
  [c \in Counters |-> IF c \in Settled THEN request[r].tally[c] ELSE request[r].counts[c]]

CompleteJob(r) ==
  /\ request[r].at = "committing"
  /\ request[r].copy = <<>>
  /\ UpdateJob(r, "completed", CommittedCounts(r))
  /\ Answers(r)
  /\ UNCHANGED <<rows, captures>>

-----------------------------------------------------------------------------
(* Around the jobs                                                         *)

\* A statement fails, the client hangs up or the server crashes.
Abort(r) ==
  /\ request[r].at # "idle"
  /\ Answers(r)
  /\ UNCHANGED <<jobs, rows, captures>>

SetLifecycle(c) ==
  /\ Live(c)
  /\ captures' = [captures EXCEPT ![c].status = "trashed"]
  /\ UNCHANGED <<jobs, rows, request>>

ImportSingle(s) ==
  /\ captures[s.id].status = "absent"
  /\ ~ FindExternalDuplicate(s.id, s.ext)
  /\ captures' = [captures EXCEPT ![s.id] =
       [status |-> "live", ext |-> s.ext, hash |-> s.hash,
        card |-> PipelineCard([given |-> {}])]]
  /\ UNCHANGED <<jobs, rows, request>>

\* The rows that the report of a job lists.
ErrorReport(j) == {n \in DOMAIN rows[j] : rows[j][n].status # "imported"}

Completes(r) ==
  \/ \E fields \in SUBSET Fields : GenerateFieldProposals(r, fields)
  \/ GenerateNothing(r)
  \/ ApplyRow(r)
  \/ CompletionAnswers(r)

Commits(r) ==
  \/ \E skips \in SUBSET (1 .. MaxRows) : ListRows(r, skips)
  \/ CountRow(r)
  \/ SkipRow(r)
  \/ CommitRow(r)
  \/ FailRow(r)
  \/ LoseCommitAnswer(r)
  \/ CompleteJob(r)

RequestsPreview(r, j) ==
  \E chosen \in SUBSET (DOMAIN rows[j]) : CompletionPreview(r, j, chosen)

RequestsApply(r, j) ==
  \E chosen \in SUBSET (DOMAIN rows[j]) \ {{}}, wanted \in SUBSET Fields :
    CompletionApply(r, j, chosen, wanted)

Requested(r, j) ==
  \/ GetPreview(r, j)
  \/ Cancel(r, j)
  \/ Commit(r, j)
  \/ RequestsPreview(r, j)
  \/ RequestsApply(r, j)

Next ==
  \/ \E j \in Jobs, text \in Texts : CreateJob(j, text)
  \/ \E r \in Requests, j \in Jobs : Requested(r, j)
  \/ \E r \in Requests : MarkPreviewed(r) \/ MarkCancelled(r) \/ Completes(r) \/ Commits(r)
  \/ \E r \in Requests : Abort(r)
  \/ \E c \in CaptureIds : SetLifecycle(c)
  \/ \E s \in Singles : ImportSingle(s)

Spec == Init /\ [][Next]_vars

-----------------------------------------------------------------------------
(* Properties                                                              *)

JobType == [status : JobStatuses, counts : [Counters -> 0 .. MaxRows], text : Texts \cup {NoText}]

\* Type invariant: what the tables hold and what a request has in hand.  The
\* contents of a row are what the parser returns, and keep.
TypeOK ==
  /\ jobs \in [Jobs -> JobType]
  /\ \A j \in Jobs :
       /\ DOMAIN rows[j] = 1 .. jobs[j].counts["total"]
       /\ \A n \in DOMAIN rows[j] :
            /\ rows[j][n].status \in RowStatuses
            /\ rows[j][n].dedupe \in DedupeStatuses
            /\ rows[j][n].captured <=> rows[j][n].status = "imported"
            /\ DOMAIN rows[j][n].proposals \subseteq Fields \ rows[j][n].given
  /\ \A c \in CaptureIds : captures[c].status \in {"absent", "live", "trashed"}
  /\ \A r \in Requests :
       /\ request[r].at \in {"idle", "previewing", "cancelling", "completing", "applying",
                             "listing", "committing"}
       /\ request[r].next \in 1 .. MaxRows + 1
       /\ \A s \in Settled : request[r].tally[s] \in 0 .. MaxRows

\* When a commit says that the job is completed, none of its rows is left to
\* do, however many requests about it overlap and whichever of them failed.
CompletedIsSettled ==
  \A j \in Jobs : jobs[j].status = "completed" =>
    \A n \in DOMAIN rows[j] : rows[j][n].status \in Settled

\* The counts that a completed job answers ever after are those of its rows,
\* though commits before the last may have been cut off, and the rows that
\* were not imported are the ones in its error report.
CountsMatchRows ==
  \A j \in Careful : jobs[j].status = "completed" =>
    /\ \A s \in Settled :
         jobs[j].counts[s] = Cardinality({n \in DOMAIN rows[j] : rows[j][n].status = s})
    /\ Cardinality(ErrorReport(j)) = jobs[j].counts["skipped"] + jobs[j].counts["failed"]

\* A capture exists if its row says imported, and only if it says imported or,
\* after a lost answer of the database, failed: a row that is offered again or
\* reported as skipped has left nothing behind.
CapturesAreReported ==
  \A j \in Careful : \A n \in DOMAIN rows[j] :
    /\ rows[j][n].status = "imported" => captures[<<j, n>>].status # "absent"
    /\ captures[<<j, n>>].status # "absent" => rows[j][n].status \in {"imported", "failed"}

\* The columns of a table that hold the text and the external key of a record.
ContentNames == {"content", "text", "body"}
KeyNames == {"external_id", "externalid", "id"}

\* What a record has under the first column with one of these names: at most
\* one cell, and none where the record is too short.
Under(header, names, cells) ==
  {cells[i] : i \in {k \in DOMAIN header \cap DOMAIN cells :
                      header[k] \in names /\ \A h \in 1 .. (k - 1) : header[h] \notin names}}

\* The row has this text and this key, if there are any.
Holds(row, texts, keys) ==
  LET Nothing == {"", Null, Absent}
  IN /\ {row.content} \ {<<>>} = {<<line>> : line \in texts \ Nothing}
     /\ {row.ext} \ {""} = keys \ Nothing

\* Row n of a table is its record n after the header.
TableKept(records, list) ==
  /\ DOMAIN list = 1 .. (Len(records) - 1)
  /\ \A n \in DOMAIN list :
       LET header == records[1].cells
           cells == records[n + 1].cells
       IN Holds(list[n], Under(header, ContentNames, cells), Under(header, KeyNames, cells))

\* Row n of a list of objects is its line n; a line that cannot be read is an
\* empty row.
ObjectsKept(records, list) ==
  /\ DOMAIN list = 1 .. Len(records)
  /\ \A n \in DOMAIN list :
       IF records[n].kind = "malformed" THEN Holds(list[n], {}, {})
       ELSE LET object == records[n].object
                value(key) == {object[k] : k \in {key} \cap DOMAIN object}
            IN Holds(list[n], value("content"), value("external_id"))

\* The rows of plain text have its lines, in order, without the separators and
\* the blank ones; the rows of the other formats are its records, in order,
\* each with its text and its key.
TextKept(text, list) ==
  CASE NormalizeFormat(text.format) = "csv"   -> TableKept(Filled(text.lines), list)
    [] NormalizeFormat(text.format) = "jsonl" -> ObjectsKept(Filled(text.lines), list)
    [] OTHER -> FlattenSeq([n \in DOMAIN list |-> Words(list[n].content)])
                  = SelectSeq(text.lines, LAMBDA l : l \notin {"", Separator})

\* No block, record or object of an imported text is lost, cut or moved, in the
\* parser or by a later preview, completion or commit: the rows of a job hold
\* the texts and the external keys that the user has uploaded.
RowsKeepText ==
  \A j \in Jobs : jobs[j].status # "none" => TextKept(jobs[j].text, rows[j])

\* A field that neither the file nor the pipeline fills has the proposed value
\* on the imported card exactly if the user had accepted the proposal before
\* the row was imported, however often the row was proposed for and decided.
AcceptedReachesCard ==
  [][\A j \in Careful : \A n \in DOMAIN rows[j] :
       (rows[j][n].status # "imported" /\ rows'[j][n].status = "imported") =>
         \A f \in Fields \ (PipelineFills \cup rows[j][n].given) :
           captures'[<<j, n>>].card[f] = "proposed" <=>
             f \in DOMAIN rows[j][n].proposals /\ rows[j][n].proposals[f] = "accepted"]_vars

\* A completed job stays completed, its counts and the states of its rows as
\* they are, if its client waits for its answers.
JobIsFinal ==
  [][\A j \in Careful : jobs[j].status = "completed" =>
       /\ jobs'[j] = jobs[j]
       /\ \A n \in DOMAIN rows[j] : rows'[j][n].status = rows[j][n].status]_vars

-----------------------------------------------------------------------------
(* What makes them inductive                                               *)

WritesJob == {"previewing", "cancelling", "listing", "committing"}
GoesByRow == {"completing", "applying", "committing"}

\* The row that a request will come to after i - 1 others.
RowAhead(q, i) == rows[q.id][q.next + i - 1]

\* What a request has in hand fits the job that it serves: the counts are those
\* of a job with as many rows, the copy is of the rows from the next one on, and
\* the tally counts no row twice.
HandFits(q) ==
  /\ q.counts \in [Counters -> 0 .. MaxRows]
  /\ DOMAIN q.tally = Settled
  /\ \A s \in Settled : q.tally[s] \in 0 .. q.next - 1
  /\ q.at \in WritesJob => q.counts["total"] = Len(rows[q.id])
  /\ q.at \in GoesByRow => Len(q.copy) + q.next = Len(rows[q.id]) + 1
  /\ q.at \notin GoesByRow => q.next = 1
  /\ q.at = "completing" =>
       \A i \in 1 .. Len(q.copy) : q.copy[i].given = RowAhead(q, i).given
  /\ q.at = "applying" =>
       \A i \in 1 .. Len(q.copy) : DOMAIN q.copy[i] \subseteq Fields \ RowAhead(q, i).given

\* The types, and what keeps them.
TypeInv ==
  /\ TypeOK
  /\ \A r \in Requests : HandFits(request[r])

ServedAlone(j) == \A q, r \in Requests : Serves(q, j) /\ Serves(r, j) => q = r

\* What such a request has read is still so: the job is not completed, the rows
\* ahead are as they were listed, those behind are the ones that it has counted.
StillHolds(q) ==
  /\ q.at \in WritesJob => jobs[q.id].status # "completed"
  /\ q.at = "committing" =>
       /\ \A i \in 1 .. Len(q.copy) : q.copy[i] = RowAhead(q, i)
       /\ \A s \in Settled :
            q.tally[s] = Cardinality({n \in 1 .. (q.next - 1) : rows[q.id][n].status = s})

\* A job that is not there has no rows, and no row has a capture before its job
\* is there.
NothingEarly ==
  \A j \in Jobs : jobs[j].status = "none" =>
    /\ rows[j] = <<>>
    /\ \A n \in 1 .. MaxRows : captures[<<j, n>>].status = "absent"

\* What the file gave of a row, and what the parser makes of a text.
SourceOf(row) == <<row.ext, row.content, row.given, row.errors>>
ParsedSource(p) == <<p.external_id, p.content, p.given, p.errors>>

\* The rows of a job are those of its text, whatever was done to them since.
RowsAreParsed ==
  \A j \in Jobs : jobs[j].status # "none" =>
    LET parsed == ParsedRows(jobs[j].text)
    IN /\ jobs[j].text \in Texts /\ Accepted(jobs[j].text)
       /\ DOMAIN rows[j] = 1 .. Len(parsed)
       /\ \A n \in 1 .. Len(parsed) : SourceOf(rows[j][n]) = ParsedSource(parsed[n])

\* The part of RowsKeepText that speaks of records and objects.
RecordsKeepText ==
  \A j \in Jobs : jobs[j].status # "none" /\ NormalizeFormat(jobs[j].text.format) # "plain_text" =>
    TextKept(jobs[j].text, rows[j])

\* The jobs of clients that wait for their answers.
CarefulInv ==
  /\ \A j \in Careful : ServedAlone(j)
  /\ \A j \in Careful : \A r \in Requests : Serves(r, j) => StillHolds(request[r])
  /\ NothingEarly
  /\ CapturesAreReported
  /\ CountsMatchRows
=============================================================================
