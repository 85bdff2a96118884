# Formal models of WeaveBrain

WeaveBrain keeps what a user captures (text or a recording), enriches it with AI
if the user has agreed, and brings it back later. A Flutter app saves captures on
the device first and sends them to a Go server; the server stores them in
PostgreSQL, enriches them from an outbox table with polling workers, and lets the
user correct and complete the resulting memory cards.

This directory holds TLA+ models of the parts of that program whose correctness
depends on the order of steps of several actors, the TLC runs that check them on
small instances, and TLAPS proofs of their safety for every instance.

| module | what it is |
|---|---|
| `CaptureOutbox` | enrichment outbox: consent, claims with leases, attempts, marks, cancel, reorganize |
| `EnrichmentTask` | what the outbox promises: one task per capture |
| `CaptureOutboxProofs` | types, consent, exclusive claims, truth and finality of outcomes; the outbox implements `EnrichmentTask` |
| `MemoryCard` | one memory card, its revision trail and its AI completion proposals |
| `MemoryCardProofs` | types, numbering of the trail, truth, finality and place of proposals; for one request at a time, trail and card agree, and completions fill gaps and take back their own |
| `CaptureSync` | the app's local capture queue, its sync pass and the accounts on the device |
| `CaptureSyncProofs` | types, queue, claims, ownership, finality, what has reached the server, the retry timer |
| `AudioUpload` | one recording: the app's requests and the handlers that store, complete and transcribe it |
| `StoredRecording` | what the upload promises: the audio is stored once and whole, and stays |
| `AudioUploadProofs` | types, complete audio, kept progress, finished uploads; the upload implements `StoredRecording` |
| `ImportParser` | a batch import: how a text is cut into rows, and which of them are in error |
| `ImportJob` | the job of a batch import: preview, completion, decisions, commit and cancellation |
| `ImportJobProofs` | types, rows and texts; a completed job has no row left to do; counts, captures, finality and accepted proposals of a careful client |
| `Echo` | the memory that is shown again: current echo, verdicts, expiry, settings |
| `EchoProofs` | types, one open echo, distance between two showings, final verdicts, settings |
| `VoiceSession` | one WebSocket of the voice input: reader, recognizer, pump and their channels |
| `VoiceSessionProofs` | types, that no channel is closed twice, and that the answer to a stop comes last |
| `MemoryStream` | the memory stream: pages cut by a cursor, and the list in the app that joins them |
| `MemoryStreamProofs` | types, the pages miss and repeat nothing |
| `MC*` | instances for TLC (symmetry sets, texts of imports) |

`PROJECT.json` lists components, runs, mutants, the source lines of every
definition, findings, hazards and theorems.

## The system and its parts

**Server** (`src/WeaveBrain`): handlers in `internal/api` call services in
`internal/service`, which call repositories in `internal/db/repository`. There is
no transaction across repository calls except in the commit of an import row: a
request is a sequence of separate statements, and the database serializes
statements, not requests. Several server processes may run; each has one outbox
worker. **App** (`src/weave_flutter`): single-threaded Dart; steps interleave at
`await`. A local database (sembast) and the secure storage survive a crash.

| component | state | operations | interacts with | what is hard | what must hold |
|---|---|---|---|---|---|
| Enrichment outbox | `capture_outbox` rows: status, attempt count, consent snapshot, `next_run_at`, `updated_at` | `ClaimDue`, `processOne`, three marks, `CancelByUser`, `ReorganizeByUser` | inserted by capture creation; cancelled and re-enqueued by settings | several workers, leases, crashes, lost marks | consent, exclusive work, true and final outcomes, every event settles |
| AI consent settings | one row per user with a revision | read, compare-and-set update, cancel, reorganize | outbox | decisions on what was read earlier | an opt-out is respected |
| Capture creation | `captures`, `memory_cards`, a first revision, an outbox event | idempotent create, trash, restore | all others | a consent read before the insert | all rows or none; one capture per id |
| Memory card and trail | card fields, version, `memory_card_revisions` | correct, append note, title from a transcript | completion, transcripts | whole-row writes from an old copy | trail and card agree |
| AI completion | `completion_proposals` | preview, apply, undo | memory card | several statements per request, no lock | empty fields only, applied once, undo takes back its own |
| Device queue and sync | local captures, `capture_sync_queue`, retry timer | save, queue, claim, send, settle, retry, recover | session, server | triggers during a pass, crashes, account changes | nothing lost, nothing sent before it is claimed |
| App session | token, stored user, shown account | sign in, sign out, 401 | sync | three places changed one after the other | nothing is sent for another account (it is: see the findings) |
| Audio upload | chunk files, asset row; sent chunks on the device | initiate, chunk, complete, transcribe, correct | capture, sync | files and rows change separately | a complete asset stays complete; what can be stored and transcribed gets through |
| Voice stream | goroutines and channels of a WebSocket | start, audio, stop, hang up | speech recognizer, review | channels that are full, closed twice or never closed | a stop comes after all texts and is answered; no channel is closed twice |
| Imports | job and row states, counts | create, preview, complete, decide, commit, cancel | capture creation, completion | whole-row writes of the job, commits that are cut off or overlap | counts, rows and captures agree; a completed job is done |
| Echo | echoes of a user, settings with a revision | current, verdict, expire, settings | memory card | check then insert over five statements | one open echo; a memory stays away for its time |
| Memory stream and list | nothing on the server between two pages; items, cursor and filter in the app | load, next page, refresh, search | memory card | a sort key that changes between pages, pages asked for twice | nothing is missed or shown twice |
| Agent and tools, Temporal workflows | in external frameworks | | language models | | |
| Rate limiter | a sorted set in Redis | allow | handlers | | |
| Users, credentials, legacy ideas, projects, reminders, timeline | plain rows | create, read, update, delete | | | |
| Process wiring, migrations, app screens | | start, stop, render | | shutdown order | |

## What is modelled, and how it corresponds to the code

### CaptureOutbox

One user, because every statement filters on `user_id`. One action is one
statement, one call of the pipeline, or a passing of time; nothing in
`outbox_worker.go`, `ai_settings_service.go` or `capture_service.go` holds a
transaction across two of them.

* `event[c]` is the row of `capture_outbox`. Its two times are abstract: `due` is
  `next_run_at <= now`, `stale` is `updated_at` older than the lease.
* `ResolvePolicySnapshot` and `InsertCapture` are the two statements of a create;
  the consent may change between them. A failed read falls back to "off".
* `UpdateRead`, `UpdateWrite`, `CancelQueued`, `ReorganizeRead` and
  `ReorganizeByUser` are the statements of the settings requests.
* `ClaimDue` claims a whole batch in one statement and raises the attempt count;
  `SkipItem`, `LoadCapture`, `Enrich` and `MarkItem` are the steps of
  `processOne`. A mark requires only that the row is in `processing`: nothing ties
  a row to the worker that claimed it.
* `WorkerStops`, `MarkLost` and `RequestDies` are crashes and failed statements;
  `LeaseExpires` and `LeaseExpiresEarly` are time.

The lease (`ClaimLease`) is taken for a batch and never renewed.
`LeaseOutlastsWork` says whether a live worker always finishes a batch within it.
Exclusive claims, true outcomes and the refinement need that; consent, finality
and termination are checked without it.

`EnrichmentTask` is the promise without workers, leases or attempts: a task per
capture that is worked on only while it runs and is wanted, is done only after its
work, and never leaves a final stage, except that skipped tasks may be reopened.
The refinement maps the outbox status to a stage and "the whole pipeline ran" to
`worked`.

### MemoryCard

One card, several requests. A request reads the card (`...Read`), decides
(`ApplyDecide`, `UndoDecide`), and writes back all the fields of the copy it read
(`WriteRevision`), as `AppendRevisionAndUpdateCard` does: the update compares no
version, and numbers the revision inside the statement. A request may die or be
refused between any two statements. Fields are `Empty` or one of `Values`;
trimming, "uncategorized" and the empty list are all `Empty`. The language model
is a free choice of values, with two proposals for one field allowed.
`UpdateCardTitle` is the title of a transcript, which changes the row without a
revision or a version. The history field `from` of a revision names the proposals
that it wrote. `Mark` is each of `MarkAccepted`, `MarkRejected` and `MarkExpired`,
which are one statement with three statuses.

### CaptureSync

One device, one app process, several accounts. An action is what happens between
two awaits. A pass (`pass`) goes through `currentUserId`, `listPending`, and for
each capture `claimOwner`, `markSyncing`, the request, the upload, and the
transaction that settles it, then `_scheduleNextRetry`. `Starts` is
`syncPending`: it joins an active pass, or cancels the timer and starts one. The
token and the account are separate keys of the secure storage; the token is read
when a request is sent, the account when a pass begins. A 401 clears both without
anybody waiting, and the screen keeps its account. `Restart` is a crash followed
by `recoverInterruptedSync`, `checkAuth` and the startup pass. The server is its
answers: it stores a capture once for the account of the token, refuses it, or its
answer is lost.

`Limit` is the 50 of `listPending`, taken before captures of other accounts are
left out. "refused" stands for the states conflict and rejected.

### AudioUpload

One recording, sent by one device to one server. A handler is a call
(`calls[k]`) that goes through places; an action is one statement of the database
or one operation on a file, because no lock or transaction spans two of them.

* `asset` is `upload_state` of the row, `staged` the chunk files, `final` the
  chunks that are whole and in place in the final file. Bytes are not modelled:
  `os.WriteFile` leaves a chunk torn between its truncation (`TruncateChunk`) and
  the end of its writing (`WriteChunk`), and a recording that has changed on the
  device (`recording.intact` is false) differs in its last chunk, which is what the
  size and the hash of `Verify` find out.
* `Initiate`, `ReadAsset`, `Refuse`, `UpdateChunkProgress` are the statements of
  the upload; `ListStagedChunks`, `CreateFinal`, `CopyChunk`, `CopyFails`,
  `Verify`, `Commit`, `RemoveChunk`, `StagingRemoved` those of a completion.
  `CreateFinal` empties a file that another call may be writing, and `CopyFails`
  removes it under that call, whose writes then go nowhere (`attached`).
* `Recognize`, `AppendTranscript`, `UpdateCardTitle` are a transcription;
  `Correct` is a correction by the user, from any device. A transcription is refused,
  however often it is asked for, when the server has no recognizer or the recognizer
  finds no words (`audio_service.go:253-255` and `271-274`).
* The device (`at`, `waiting`, `uploaded`) sends a request, waits for its answer,
  keeps its progress (`KeepProgress`) and, when anything fails (`PassFails`), starts
  over in a later pass from what it kept. `HandlerFails` and `ServerCrash` are
  failures of the server; a lost answer is a `PassFails` whose call goes on.

A request that the device has given up still runs on the server. `Late` names the
requests that may run on when the device sends again; the others have ended by
then. `Cases` pairs a recording with the `setting` of the server. Its `store` is what
`AUDIO_STORE_DIR` makes of the paths: `physicalPath` checks that the cleaned path begins
with the directory as it was given (`audio_store.go:149-158`), so one that is written
uncleaned, like the default `./data/audio` (`main.go:91`), refuses every completion
("unclean", `EscapesStore`); the recognizer is given the path relative to the store and
opens it from the working directory of the process, so it finds the file only if the
two are the same ("working"), and not with any other directory ("elsewhere"). `provider`
says whether a recognizer is configured. Left out: `received_chunks`, which is only shown,
and `MarkFailed`, which nothing calls.

`StoredRecording` is the promise without files, calls and failures: chunks are confirmed
one after the other, the audio is stored once, whole and after every chunk was confirmed,
and never changes or goes away; the recognizer speaks only of stored audio; transcripts are
only added; the device is through, for ever, when all that it wanted is there. The
refinement takes the final file as the audio when the row says complete, and
`audioUploadedChunks` of the device as what was confirmed.

### ImportParser and ImportJob

`ParsedRows` is the parser: blocks between separators, a header with its aliases and
short records, objects on lines. A line, a cell or a value is one of the strings that
the parsers tell apart, and a text counts as its lines. It is checked as part of the
jobs that are created from it (`RowsKeepText`), and, for plain text, on every text of
up to five lines (`BlocksKeepWords`, an assumption of `MCImportJob` that TLC evaluates).
`TextKept` says what a text owes its rows without the parser's operators: the lines of
plain text, in order; the cell under the first column that is named for the text and for
the external key, in the record of the same number; the value of the key in the object of
the same number.

`ImportJob` keeps `jobs`, `rows` and the `captures` they become. A request reads the job
(`GetJob`) and, if it commits, all its rows (`ListRows`), and goes on with its copies:
`UpdateJob` writes status and counts from the copy, `CountRow`, `SkipRow`, `CommitRow` and
`FailRow` decide by the copy of the row. `CommitRow` is the one transaction, capture and
row together; `LoseCommitAnswer` is its success with a lost answer. `Abort` is a failed
statement, a client that hangs up, or a crash. A job in `Careful` belongs to a client that
waits for one answer about it before it sends the next request; `Late` says which requests
about the other jobs may overlap.

### Echo

`echoes` is the table in the order of its ids, `settings` the row with its revision.
`CurrentEcho` begins a request that asks for the echo of the day; `ReadLatest`,
`FetchMemory`, `Expire`, `PickCandidate` and `Create` are its statements, and between any
two of them a verdict, another request, or the trash may come. `NoCandidate` answers that
there is none. `Feedback` and `RecordVerdict` are a verdict, `UpdateSettings` and
`SaveSettings` a change of the settings. A day passes whenever it likes. Which of the
eligible memories is preferred is left open: any may be picked. `OneReader` says that the
devices do not ask for the current echo at the same time.

### VoiceSession

`reader` is the loop of the handler, `sessions` the recognizers with their audio channel,
results channel, sender, receiver and pump, `closed` the done channels that were closed,
`mail` what the client has sent and nobody has read. `Start` silences the session before
and makes a new one; `StartFails` leaves an audio channel that nobody listens to;
`Stop` closes the audio channel and waits; `AnswerStop` is the answer after the done
channel is closed. The recognizer is that of FunASR: a sender that ends the speech when its
channel is closed, and a receiver that looks at its context only when the server has a
text. `HangUp` loses what was on its way, and from then on a write may fail, after which
all of them do. `panicked` is the second close of a channel, which ends the process.
`Orderly` says that the client starts when nothing runs and stops what it started.

### MemoryStream

`List` is the query of a page: the memories that match the filter, past the cursor, in the
order of the pin and the age, one more than the page has. The cursor is the sort key of the
last memory of the page, as it was then. `Load`, `LoadMore`, `Receive` and `Fail` are the
notifier in the app; a page is appended to the list it was asked from. Captures are made,
pinned, archived and deleted meanwhile. `steady` is a history variable: what has not
changed since the first page was cut. `Patient` says that the user starts no load while a
page is on its way.

## Runs

| run | instance | shows |
|---|---|---|
| `outbox_lease` | 2 captures, 2 workers, 1 settings request, batches of 2, 2 attempts, 2 settings writes, 2 faults, leases that outlast the work | claims are exclusive, and the outbox implements `EnrichmentTask`: a ready event was wholly enriched, and outcomes are final |
| `outbox_overrun` | 1 capture, 2 workers, 2 settings requests, leases that may expire under a live worker | consent, and every event settles |
| `memory_serial` | 1 request at a time, 2 fields, 2 values, 4 versions, 2 previews of up to 2 proposals | apply fills only empty fields, and for its own version; undo takes back only its own; one pending batch; the trail explains the card |
| `memory_overlap` | 2 requests, 1 value, 3 versions, 2 previews | numbering of the trail, acceptance follows the write |
| `memory_apply_race` | 2 requests, 2 values | finding: apply overwrites what landed after its read |
| `sync_one_account` | 1 recording, a guest who becomes one account, 3 faults | claimed before sent, synced only when the server has all of it, a retry is armed, and the queue drains |
| `sync_accounts` | 1 capture, 2 accounts, no faults | finding: a capture of account A is sent with the token of account B |
| `audio_upload` | 2 chunks, 2 calls at a time, 3 faults, 1 correction, late initiations and transcriptions; every recording on a server that is set up, a sound one on every other | complete means whole, kept progress means staged, the upload implements `StoredRecording`, an intact recording reaches every server that can store it, and the app gets through unless a transcript is wanted that cannot be had |
| `import` | 1 job from 4 texts, up to 2 rows, 2 requests, 1 single import, a careful client or one whose commits overlap with commits and cancellations | rows keep the texts and keys of their blocks, records and objects; a completed job is done, its counts and captures are those of its rows; what was accepted reaches the card |
| `echo` | 2 memories, 2 requests, 4 days, 2 cadences, 2 cooldowns, 2 changes of the settings | one echo is open, and a memory stays away for its time |
| `voice` | 2 sessions, 2 chunks, 2 texts of a session, channels of one, an orderly client that may hang up | no channel is closed twice, a stop comes after all texts, and is answered |
| `stream` | 4 captures in pages of one, 3 moves, 2 filters, 2 pages on their way | the list misses and repeats nothing that stayed as it was |

Why these bounds are enough: two workers, two requests or two accounts are the
least that interfere, and every property relates at most two of them; two captures
let a batch be partly processed; two attempts
distinguish "retry" from "last attempt"; two settings writes are an opt-in and an
opt-out, and two faults are a crash and the loss of what follows. In `MemoryCard`
two fields distinguish the field that is written from one that is merely written
back; two previews let a batch be superseded; three or four versions let a
correction fall before, between and after an apply and an undo. In `CaptureSync`
three faults are a lost answer, a failed upload and a crash in one history. In
`AudioUpload` one chunk can be sent and another not, a given-up call can run beside
the current one, and three faults break the same upload three times; a recording or a
server with two flaws is refused at the first of them. In `ImportJob` two
rows let one be settled and the other not when a commit is cut off, and let the second
repeat the first; the table names its columns by aliases and the list has a broken line; the second request cancels, commits again, or decides while the first
runs. In `Echo` four days hold a showing, its expiry and its return after either cooldown,
and two revisions let two devices change different switches. In `VoiceSession` the second
session is the one that could meet the channels of the first, channels of one fill up, and
two texts can come out of order. In `MemoryStream` pages of one put a cut between any two of
four memories, and three moves change what is before, at and after a cursor. The proofs
below remove the bounds for the safety properties that they cover.
`MaxRevision`, `MaxFaults`, `MaxVersion`, `MaxPreviews`, `MaxCorrections`, `MaxJobs`, `MaxDay`,
`MaxStarts`, `MaxChunks`, `MaxHeard` and `MaxMoves` bound what would otherwise grow without
end; `MaxBatch` and `MaxPatch` the size of a choice; `MaxRows` is the server's own limit.
Captures, workers, requests and values are symmetric where a run declares it and checks
no liveness. Deadlock is checked in the sync runs; it is off in the others, where all the
bounded work can be done and nothing has to happen any more.

### Fairness

* Outbox (`FairSpec`): a worker polls every second and works through its batch
  (`ClaimDue`, `WorkerStep`), and clocks advance (`BackoffElapses`,
  `LeaseExpires`). Users owe nothing, and crashes are bounded: `EventSettles`
  holds because a claim is counted as an attempt whatever becomes of it.
* Sync (`Spec`): the app runs its own steps, its timer fires, retry times pass,
  and it returns to the foreground or the network returns again and again
  (`Resume`). The last one is needed: a trigger that joins a pass which has already
  listed the queue adds nothing to it, so a capture saved at that moment waits for
  the next trigger. Nobody has to save or sign in, and nothing has to fail.
  `Drains` speaks of an account that stays signed in, and assumes that a pass can
  see the whole queue: with a `Limit` that another account's captures fill, it
  fails, because they are taken first and then left out.
* Audio (`Spec`): a call of the server goes on, and the device goes on with its own
  steps; what the code refuses every time, fairness does not help: `Finishes` speaks of
  recordings that can be stored and, if a transcript is wanted, transcribed, and
  `AudioArrives` of all that can be stored; `Begin`, the next pass, is the app's retry timer, which is armed while the
  capture is queued (`RetryIsArmed` of `CaptureSync`). Faults are bounded.
* Voice (`Fairness`): goroutines run, so the reader, the sender, and the pump go on. Of the
  recognizer's server it is assumed that it closes the connection some time after it was
  told that the speech is over, or was lost; nothing in the code bounds that time. The
  client owes nothing. `StopIsAnswered` speaks of a session that did start.
* `MemoryCard`, `ImportJob`, `Echo` and `MemoryStream` have none: they check safety only, and
  nothing in their code runs by itself.

## Findings

* **memory_apply_race.** `completion_service.go:187` says that apply never
  overwrites a non-empty field. It checks a copy, and writes the copy without
  comparing the version. Serially the promise holds (`memory_serial`).
* **sync_accounts.** `docs/R2_LOCAL_CAPTURE_CONTRACT.md:147` says that account B does not
  send captures of account A. A pass keeps the account it began with
  (`capture_sync_service.dart:127`), and every request takes the token that is stored when
  it is sent. If A signs out and B signs in between `claimOwner` and the request, the server
  stores the capture for B. What holds is that nothing is sent before it is claimed
  (`SentIsClaimed`, proved as `WhatIsSentIsClaimed` for any accounts), and that a claim is
  never changed.

Seen while modelling, in the parts that the modules describe:

* *Opt-out.* `ai_settings_service.go:183` says that switching AI organizing off drops
  queued events so that no AI call is made retroactively. `CancelByUser` reaches `queued`
  and `retry_wait` rows; one that was in `processing` at that moment and fails goes back to
  `retry_wait` with its old consent and is enriched later (`outbox_worker.go:237`).
* *Settings of the audio store.* `docker-compose.yml` leaves `AUDIO_STORE_DIR` at its default of
  `./data/audio` (`main.go:91`), and `physicalPath` compares cleaned paths with this uncleaned
  one (`audio_store.go:154`): no recording is ever completed. With an absolute directory it is, but `audio_service.go:262` says that the provider reads from the
  file path and that a warm open verifies that it can; the warm open joins `storage_path` to
  the directory of the store, and the provider is given the bare `storage_path`, so it finds
  nothing unless the directory is the working directory. A transcription that is refused, for
  this reason, for want of a recognizer or because there are no words in the recording, fails
  the whole upload in the app, which repeats it in every pass: without `Transcribable` as its
  premise `Finishes` fails, and `AudioArrives` still holds.
* *Full queue of another account.* With a `Limit` that another account's captures fill,
  `Drains` fails.

Outbox. Nothing ties a mark to a claim. A worker that overruns its lease marks the event
while another works on it: the row then says ready or failed for a claim that is still under
way, whose own mark finds the row no longer in processing and is dropped; or it says
`retry_wait`, and a third claim starts beside the second. What still holds then is that the
consent of the event is respected, that every event settles, and that an outcome stays.

Memory cards. Two corrections that overlap both read the card, and the later writes back the
fields that it did not change as they were before the earlier: the trail has both changes, the
card has one, so `TrailExplainsCard` fails with two requests, while the numbering
(`VersionCountsRevisions`) holds. Two previews that overlap expire what was pending before
either inserts, and both batches stay pending: `OnePendingBatch` fails. The title that a
transcript writes is overwritten by a correction or an apply that read the card before.

Late requests. The properties of `audio_upload` depend on `Late`, which the code does
not ensure: no handler holds a lock on its asset, and the app's timeout does not stop
it. With a late completion, a second one empties the final file, misses chunks that
the first has removed, and deletes the file of a complete asset: `CompleteKeepsAudio`,
`ProgressIsStaged` and `Finishes` fail. With a late chunk, `UpdateChunkProgress` moves
a complete asset back to uploading after its chunks are gone: `ProgressIsStaged`,
`DoneMeansStored` and `Finishes` fail, `CompleteKeepsAudio` holds. In both cases
`ImplementsRecording` fails.

Imports. A client that does not wait for its answers finds the job changed: `UpdateJob`
writes the whole row from a copy, so a cancellation or a preview that read the job before
can overwrite a completed one, and the counts of two commits are those of the later. What
holds whatever overlaps is `CompletedIsSettled`. A cancelled job can be committed. A
transaction whose answer is lost leaves a row that says failed with no capture id although
its capture exists. A completion that is previewed again drops what was accepted. A CSV
whose coordinate columns are declared and empty has rows in error
(`import_parser.go:339-349`), although the template of `DOMAIN_AND_AI_SPEC_V3.md` leaves
them empty; a coordinate `NaN` passes the range check and fails the encoding of the job; one
malformed CSV record fails the whole text, where the comment at `import_parser.go:52-55`
has it fail its row. Of two rows with one external id in a batch, the second ends failed.
Accepted proposals for the title never reach the card, because the pipeline has given it
one, and neither does the summary (`import_service.go:853`).

Echo. Requests for the current echo that overlap make two echoes that are open, of which the
older is never looked at again: with `OneReader = FALSE`, `OneOpenEcho` and
`EchoesKeepTheirDistance` fail. A memory that goes to the trash between `PickCandidate` and
`Create` makes the request fail, where the comment at `echo_service.go:166-168` says that it
never does for a healthy user. The answer with a new echo carries no creation time. An
expiry that comes after a verdict counts as done, so the verdict may be followed at once by
the next echo.

Voice. The app opens one connection for each recording and does not look at error messages:
after a failed start its stop makes the reader wait for ever on a channel that nobody
closes (`voice_ws.go:184`), and a reader that waits does not notice that the client is gone.
This is why `StopIsAnswered` asks for a session that did start. Two starts without a stop
share one done channel, and the second close ends the process: with `Orderly = FALSE`,
`DoneClosedOnce` fails. `stt/provider.go:15-18` says that the results channel is closed when
the audio is exhausted or the context is cancelled; the receiver of FunASR waits for its
server in both cases, and closes the connection only after both goroutines have ended
(`funasr/provider.go:136-140`).

Memory stream. A page that was asked for before a new search or a refresh comes after it: it
shows what the old filter found, and the next page uses its cursor with the new filter,
which `API_V3_CONTRACT.md:288` rules out. With `Patient = FALSE`, `PagesMissNothing` fails. A
page asked for twice does no harm, because each answer is appended to the list it was asked
from. `updateLocally` and `removeLocally` of the notifier have no callers.

Other parts. A recording that does not match its hash never gets
through, because its chunks are removed from the server and stay sent on the device.
A transcript of the recognizer that is appended after the user's correction takes its
place as the latest revision. `claimOwner` throws for a capture of another account,
outside the `try` of a pass; the proof of `ClaimsAgree` says that no interleaving
reaches it. `Apply` rejects proposals for fields that have a value; the proof of
`NothingIsRejected` says that it never does outside its test, because fields change
only with the version, which it compares first, and the one exception, the title,
is never empty. The first revision of an import records `primary_type` and `tags`
as empty even when the import set them (`capture_service.go:430`). The pipeline of the rate
limiter (`ratelimit/redis.go`) is no transaction and counts refused requests too. At the end
of the process, speech recognition and the outbox stop before the HTTP server does
(`main.go:257-280`).

## Proofs

Every theorem holds for all values of the constants that satisfy the assumptions
of the module: any number of captures, workers, requests, accounts and fields,
and any bounds.

**CaptureOutbox.** `TypeCorrect` is inductive by itself. `EnrichedOnlyWithConsent`
is not: a step of a worker depends on a claim that was copied from the row long
before. `ConsentInv` adds that a claim never carries more consent than its row
(rows only gain consent, and keep their privacy mode), and `RowsInv` that rows and
captures appear together; `ConsentRespected` follows whatever the lease does.
`OutcomesStay` needs no more than types: every statement guards its status. The
other three (`ClaimsAreExclusive`, `ReadyIsEnriched`, `AttemptsAreRespected`)
assume `LeaseOutlastsWork`, by `LeaseInv`: every claim mirrors its row, which stays
in processing and fresh, and what a worker is about to record is true.
`OutboxImplementsTask` maps initial states and every step to the abstract task
under the same assumption.

**MemoryCard.** `ProposalsSettleOnce` follows from the guards of the statements
alone. `VersionsCount` and `AcceptedAreWritten` need `TrailInv`, which says of each
request in flight that what it read is not ahead of the card, that what it is about
to write covers the proposals it will accept, and that what it is about to accept
is written. The trail only grows, so this survives the steps of other requests.
`NothingIsRejected` needs `GapInv`: two copies of one version of the card, in
requests or in the row, differ at most in the title, and every one lacks what is
proposed for that version, whether the proposal is stored or still on its way.
That one completion is the latest, for the type of an undo, uses the
well-foundedness of the natural numbers. The properties of `memory_serial` are theorems
under `OneAtATime`, that all requests are one. `SerialInv` adds to them what the request
holds (`SeesTheRow`): the card that it decides by is the row, what it is about to write is
the row with its changes, no proposal is pending when new ones are generated, and only
those of one preview are when they are inserted. From it follow `TrailIsTheCard`,
`CompletionsFitTheirVersion`, `NothingIsAppliedTwice`, `OneBatchIsPending`,
`CompletionFillsOnlyGaps` and `UndoTakesBackItsOwn`, although the request may die between
any two statements: what it leaves behind is pending for a version that is no longer the
card's, or is superseded by the next preview.

**CaptureSync.** `SyncInv` says that the queue holds exactly what waits to be sent,
that a pass goes through queued captures of its own account, each once, and that it
is about to settle as synced only what the server has. From it follow
`NothingIsLost`, `ClaimsAgree`, `WhatIsSentIsClaimed`, `SyncedIsOnServer`, `OwnersStay` and
`SettledStays`, for any number of accounts. `RetryTimerIsArmed`, for one account,
needs `ArmInv`: what is to be retried was claimed before, and a pass that is about to arm
the timer has found it in the queue.

**AudioUpload.** `AudioTypes` holds whatever is late. The other theorems assume
`NothingOverlaps`: chunks and completions are not late. `UploadInv` says that one call
at a time writes files (`OneUpload`), that such a call found the asset incomplete, and
that what a completion has verified is still so when it commits; `CompleteAudioIsKept`
follows. `DoneInv` adds what an answer, and what the device does after it, tell of the
server (`DoneIsStored`). `ChunksInv` adds which chunks a call may touch: never one that
the device has kept as sent, so that a completion of an intact recording finds every
chunk and is never refused (`KeptProgressIsStaged`). `UploadImplementsRecording` needs of
these that a commit is of a whole file after every chunk was kept, that no step touches the
final file or the row of a complete asset, and that a device which is through knows it from
an answer; `SttInv` adds that what is transcribed was complete when it was read, and still is.

**Echo.** `HandInv` adds to the types what a request has in hand; `EchoTypes`, `VerdictsStay`
and `PatchesAdd` hold whatever overlaps. The other two assume `OneReader`. `ReadersInv` says
that one request at a time is on its way to the current echo, and that no echo is open when it
goes on to pick one; `OneEchoIsOpen` follows. `DistanceInv` says that every echo kept its
distance from those before it and that a request about to create one has a memory that is
rested on the day that it will be written with, however long ago it was picked
(`DistanceIsKept`). Verdicts may change the cooldown of an echo only while it is open, and a
memory is picked only when none is.

**VoiceSession.** `VoiceTypes` holds whatever the client sends. `OrderlyIsSafe` needs
`ChannelInv`: done channels are numbered in order, a pump has one of its own, which is not
closed (`OwnChannel`), and, as long as a start is on its way or the client is idle, nobody has
closed or is going to close the one that the next session will get (`Turns`).
`StoppedIsTheLastWord` follows the texts from the recognizer through the results channel and
the pump to the connection. `ToldInv` says that, until a write fails, the client has been
told every text that a pump took from its channel, and the channel holds the others in order
(`Written`); that the texts of a session were told once and in order (`Messages`); and that
a session whose stop was answered is over, with nothing left in its channel (`Ended`). It
assumes an orderly client, because two sessions that share a done channel are answered
together.

**ImportJob.** `CompletedJobsAreDone` holds for careful and hasty clients alike. `ImportInv`
says of each commit that the rows before its next one are settled, that those which were
settled when it listed them still are, and that its copy reaches to the end of the job
(`CommitSoFar`). It survives the steps of other requests because a settled row stays
settled, whoever writes it (`RowsKept`), and because the rows of a job are inserted once.
`JobsAreTyped` needs what a request has in hand (`TypeInv`) and the shape of the captures
(`CapturesInv`). For the jobs in `Careful`, `CarefulInv` says that a request is served
alone, that the job and the rows ahead of it are still as it read them, and that its tally
counts the rows behind it; `CompletedJobsCountTheirRows`, `CommitsLeaveNothingBehind`,
`CompletedJobsAreFinal` and `AcceptedProposalsReachTheCard` follow. They rest on
`SinglesAssumption`, that a capture created on its own is none of a row, and
`CarefulAssumption`, that `Careful` is a set of jobs. `RowsAreTheirTexts` says that the rows
of a job are at all times those that the parser made of its text, whatever overlaps.
`RecordsKeepTheirText` goes on to the text itself: every row of a table or of a list of objects
has the text and the key of the record of its number, whatever names, repeated columns and
short records the table has. It needs that the parser's choice of a column is the first one
with such a name (`LookupFinds`, by the least-number principle) and `TextsAssumption`: the
provers cannot look into `SelectSeq`, so that the lines that are left after the blank ones are
numbered from one is stated there, where TLC evaluates it for the texts of the run. The same
for plain text, whose rows are the lines of a fold, is checked by the run alone
(`RowsKeepText`, `BlocksKeepWords`).

**MemoryStream.** `StreamTypes` holds whatever the user does. `ScrollingMissesNothing` assumes `Patient`. `StreamInv` says that while a load is on its way
nothing else is and the list has no cursor, that pages go on from a list that is shown
(`Turns`), and that whatever a request goes on from, or will show, is complete up to its
cursor for the filter that the list still has (`Held`), be it the answer to a page that was
asked for twice. `PageReaches` is the heart of it: since the order of the stream is total, a
page adds exactly the memories between its cursor and the next, and what moves across a
cursor is no longer steady.

Some theorems state properties that no run checks. They are either implied, on an instance,
by a property that a run does check, or were checked by TLC before they were proved and are
now left to the proof: `ReadyIsEnriched`, `AttemptsAreRespected`,
`OutcomesStay`, `ProposalsSettleOnce`, `NothingIsRejected`, `NothingIsAppliedTwice`,
`ClaimsAgree`, `OwnersStay`, `SettledStays`, `DoneIsStored`, `RowsAreTheirTexts`,
`CompletedJobsAreFinal`, `RecordsKeepTheirText`, `VerdictsStay`, `PatchesAdd`.

**Only model-checked**: liveness (`EventSettles`, `Drains`, `AudioArrives`, `Finishes`,
`StopIsAnswered`), which needs fairness and is out of the prover's reach, and that the rows of
plain text keep its lines (`RowsKeepText`, whose part about tables and objects is
`RecordsKeepTheirText`), which folds and filters sequences: induction over data is out of the
prover's reach too. Every other safety property of a passing run is a theorem, some of them
under the assumption under which the run checks them: `LeaseOutlastsWork`, `OneAtATime`,
`OneAccount`, `NothingOverlaps`, `OneReader`, `Orderly`, `Patient`.

## Not modelled, and why

* Validation and request hashing of captures: decisions on one request's data.
* Text search, the other filters of the stream, restore from the trash and the detail view of
  memory cards: they change nothing that a property here looks at.
* In imports, the consent gate of the completion and the values of proposals; in echoes, the
  ranking of candidates and the reason that is shown.
* Notifications of echoes in the app: calls of the operating system.
* The rate limiter: each decision is inside Redis.
* The language model, speech and embedding providers: external; their answers are
  free choices.
* Agent supervisor, tools and Temporal workflows: their control is in frameworks
  outside the repository, and approval in `hitl.go` is automatic.
* Users, credentials, legacy ideas, projects, reminders, timeline: single
  statements without a protocol.
* Screens, process wiring, migrations: rendering and I/O.

## Plan

1. `CaptureOutbox`, `EnrichmentTask`, refinement and proofs: done.
2. `MemoryCard` and proofs: done.
3. `CaptureSync` and proofs: done.
4. `AudioUpload`, `StoredRecording`, refinement and proofs: done.
5. `ImportParser`, `ImportJob` and proofs: done.
6. `Echo` and proofs: done.
7. `VoiceSession` and proofs: done.
8. `MemoryStream` and proofs: done. Left: other filters and their search.
9. Not begun: the composition of sync with audio upload, so that a recording is synced only
   when its asset is complete; the rate limiter.
