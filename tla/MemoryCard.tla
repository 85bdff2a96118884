----------------------------- MODULE MemoryCard -----------------------------
(***************************************************************************)
(* One memory card of WeaveBrain, its revision trail and the AI completion *)
(* proposals for its missing fields.  User corrections, notes, transcript  *)
(* titles, and the preview, apply and undo of completions all work on the  *)
(* same row.                                                               *)
(*                                                                         *)
(* Every action is one database statement or one model call.  A request    *)
(* reads the card, decides, and writes back ALL the fields of the copy it  *)
(* read; the write compares no version.  A request may die, or be refused, *)
(* between any two statements.  With one member in Requests the requests   *)
(* run one after the other; with two they overlap.                         *)
(*                                                                         *)
(* A field is Empty or holds one of Values: a blank text, "uncategorized"  *)
(* and the empty list are all Empty.  A proposal always has a value; that  *)
(* of "uncategorized", which fills nothing, is left out.  Refusals that    *)
(* change nothing (consent off, invalid input, card not ready) are not     *)
(* told apart from a request that is never made.                           *)
(***************************************************************************)
EXTENDS Naturals, Sequences, FiniteSets

CONSTANTS
  Fields,       \* columns of memory_cards that can be corrected or completed
  Values,       \* non-empty field values
  Empty,        \* what a missing field holds
  Requests,     \* requests for this card that run concurrently
  MaxVersion,   \* bound: the card's version
  MaxPreviews,  \* bound: completion previews
  MaxBatch,     \* bound: proposals in one preview
  MaxPatch      \* bound: fields in one correction

ASSUME FieldsAssumption == "title" \in Fields
ASSUME ValuesAssumption == Empty \notin Values
ASSUME CardBounds == MaxVersion \in Nat \ {0} /\ MaxPreviews \in Nat /\ MaxBatch \in Nat
                        /\ MaxPatch \in Nat

VARIABLES
  fields,     \* the completable columns of the row of memory_cards
  version,    \* memory_cards.version
  live,       \* the capture is not soft-deleted
  revisions,  \* memory_card_revisions, oldest first
  proposals,  \* completion_proposals
  previews,   \* preview ids handed out
  request     \* what each request has read and is about to do

vars == <<fields, version, live, revisions, proposals, previews, request>>

-----------------------------------------------------------------------------
FieldValue == Values \cup {Empty}
Card == [Fields -> FieldValue]
Changes == UNION {[F -> FieldValue] : F \in SUBSET Fields}

ProposalStatus == {"pending", "accepted", "rejected", "expired"}
Proposal == [preview : Nat, field : Fields, value : Values, revision : Nat,
             status : ProposalStatus]

\* What identifies a proposal: everything but its status.
Id(p) == [preview |-> p.preview, field |-> p.field, value |-> p.value,
          revision |-> p.revision]
Ids(S) == {Id(p) : p \in S}
ProposalId == [preview : Nat, field : Fields, value : Values, revision : Nat]

\* An undo has source "user" and is marked in its provenance.  "from" names
\* the proposals that an apply wrote; the provenance has their preview only.
Revision == [version : Nat, source : {"fallback", "user", "ai", "undo"},
             changes : Changes, from : SUBSET ProposalId]

Idle == [op |-> "idle"]

\* A write carries the whole card; accepts names the proposals to accept then.
Write == [op : {"write"}, source : {"user", "ai", "undo"}, card : Card, changes : Changes,
          accepts : SUBSET ProposalId]

Request == {Idle, [op |-> "note"]} \cup Write
  \cup [op : {"apply", "preview", "generate"}, card : Card, version : Nat]
  \cup [op : {"undo"}, card : Card]
  \cup [op : {"insert"}, todo : SUBSET ProposalId]
  \cup [op : {"mark"}, ids : SUBSET ProposalId, status : ProposalStatus \ {"pending"},
         then : {Idle} \cup Write]

TypeOK ==
  /\ fields \in Card
  /\ version \in Nat
  /\ live \in BOOLEAN
  /\ revisions \in Seq(Revision)
  /\ proposals \subseteq Proposal
  /\ previews \in Nat
  /\ request \in [Requests -> Request]

\* The first revision records the title, the summary if there is one, and every
\* other field as empty: what an import set in those is not in it.
FirstChanges(card) ==
  [f \in {g \in Fields : g = "summary" => card[g] # Empty} |->
     IF f \in {"title", "summary"} THEN card[f] ELSE Empty]

\* A capture is created with a title; an import may bring other fields.
Init ==
  /\ fields \in {f \in Card : f["title"] # Empty}
  /\ version = 1
  /\ live = TRUE
  /\ revisions = <<[version |-> 1, source |-> "fallback", changes |-> FirstChanges(fields),
                   from |-> {}]>>
  /\ proposals = {}
  /\ previews = 0
  /\ request = [r \in Requests |-> Idle]

Missing(card) == {f \in Fields : card[f] = Empty}

\* GetByID: a request begins by loading the card of a capture that is not
\* deleted, and goes on with what it does next.
Loads(r, next) ==
  /\ request[r] = Idle /\ live
  /\ request' = [request EXCEPT ![r] = next]

Continues(r, next) == request' = [request EXCEPT ![r] = next]

-----------------------------------------------------------------------------
(* Corrections, notes, titles and deletion.                                *)

\* Mutation: the copy to patch starts blank.
PatchedOverBlank(card, changes) ==
  [f \in Fields |-> IF f \in DOMAIN changes THEN changes[f] ELSE Empty]

\* A copy of the card with some fields changed.
Patched(card, changes) ==
  [f \in Fields |-> IF f \in DOMAIN changes THEN changes[f] ELSE card[f]]

\* Correct: patch a copy of the card; a title cannot be cleared.
CorrectRead(r) ==
  /\ \E F \in {G \in SUBSET Fields : Cardinality(G) \in 1 .. MaxPatch} : \E changes \in [F -> FieldValue] :
        /\ "title" \in F => changes["title"] # Empty
        /\ Loads(r, [op |-> "write", source |-> "user", card |-> Patched(fields, changes),
                     changes |-> changes, accepts |-> {}])
  /\ UNCHANGED <<fields, version, live, revisions, proposals, previews>>

NoteRead(r) ==
  /\ Loads(r, [op |-> "note"])
  /\ UNCHANGED <<fields, version, live, revisions, proposals, previews>>

\* Mutation: the revision is recorded at the version the card already has.
AppendedAtSameVersion(source, changes, from) ==
  Append(revisions, [version |-> version, source |-> source, changes |-> changes,
                     from |-> from])

Appended(source, changes, from) ==
  Append(revisions, [version |-> version + 1, source |-> source, changes |-> changes,
                     from |-> from])

\* AppendNoteAndBump: a revision and a new version, no field.
AppendNote(r) ==
  /\ request[r].op = "note" /\ version < MaxVersion
  /\ revisions' = Appended("user", <<>>, {})
  /\ version' = version + 1
  /\ Continues(r, Idle)
  /\ UNCHANGED <<fields, live, proposals, previews>>

\* Setting the status of the proposals in ids, if any, before what comes next.
Marking(ids, status, next) ==
  IF ids = {} THEN next ELSE [op |-> "mark", ids |-> ids, status |-> status, then |-> next]

\* AppendRevisionAndUpdateCard: the revision and the card in one statement.
\* Every field comes from the request's copy; a deleted capture is no obstacle.
WriteRevision(r) ==
  /\ request[r].op = "write" /\ version < MaxVersion
  /\ LET w == request[r] IN
       /\ revisions' = Appended(w.source, w.changes, w.accepts)
       /\ fields' = w.card
       /\ Continues(r, Marking(w.accepts, "accepted", Idle))
  /\ version' = version + 1
  /\ UNCHANGED <<live, proposals, previews>>

\* A transcript arrives: its title goes straight into the row, without a
\* revision and without a new version.
UpdateCardTitle(r) ==
  /\ request[r] = Idle
  /\ \E title \in Values : fields' = [fields EXCEPT !["title"] = title]
  /\ UNCHANGED <<version, live, revisions, proposals, previews, request>>

DeleteMemory(r) ==
  /\ request[r] = Idle /\ live
  /\ live' = FALSE
  /\ UNCHANGED <<fields, version, revisions, proposals, previews, request>>

-----------------------------------------------------------------------------
(* Completion preview.                                                     *)

PreviewRead(r) ==
  /\ Loads(r, [op |-> "preview", card |-> fields, version |-> version])
  /\ UNCHANGED <<fields, version, live, revisions, proposals, previews>>

\* The statements that move proposals touch pending ones only.
Moved(ids, status) ==
  {IF Id(p) \in ids /\ p.status = "pending" THEN [p EXCEPT !.status = status] ELSE p :
     p \in proposals}

\* Mutation: the previous batch is left alone.
NoIds == {}

AllIds == Ids(proposals)

\* A new preview supersedes the previous pending batch; with no field missing
\* nothing is generated.
ExpireAllPending(r) ==
  /\ request[r].op = "preview"
  /\ proposals' = Moved(AllIds, "expired")
  /\ Continues(r, IF Missing(request[r].card) = {} THEN Idle
                  ELSE [request[r] EXCEPT !.op = "generate"])
  /\ UNCHANGED <<fields, version, live, revisions, previews>>

\* The model proposes values for missing fields, perhaps two for one field.
Generate(r) ==
  /\ request[r].op = "generate" /\ previews < MaxPreviews
  /\ previews' = previews + 1
  /\ \E todo \in SUBSET [preview : {previews + 1}, field : Missing(request[r].card),
                         value : Values, revision : {request[r].version}] :
        /\ todo # {} /\ Cardinality(todo) <= MaxBatch
        /\ Continues(r, [op |-> "insert", todo |-> todo])
  /\ UNCHANGED <<fields, version, live, revisions, proposals>>

\* CreateProposals: one insert per proposal.
InsertProposal(r) ==
  /\ request[r].op = "insert"
  /\ \E id \in request[r].todo :
        /\ proposals' = proposals \cup
             {[preview |-> id.preview, field |-> id.field, value |-> id.value,
               revision |-> id.revision, status |-> "pending"]}
        /\ Continues(r, IF request[r].todo = {id} THEN Idle
                        ELSE [request[r] EXCEPT !.todo = @ \ {id}])
  /\ UNCHANGED <<fields, version, live, revisions, previews>>

-----------------------------------------------------------------------------
(* Completion apply.                                                       *)

ApplyRead(r) ==
  /\ proposals # {}
  /\ Loads(r, [op |-> "apply", card |-> fields, version |-> version])
  /\ UNCHANGED <<fields, version, live, revisions, proposals, previews>>

Pending(S) == {p \in S : p.status = "pending"}

\* Mutation: nothing is outdated.
OutdatedNever(S, v) == {}

\* Proposals made for another version of the card than the one that was read.
Outdated(S, v) == {p \in Pending(S) : p.revision # v}

Fillable(S, card) == {p \in Pending(S) : card[p.field] = Empty}

\* Mutation: a proposal is written as it is stored, not decoded.
FillingsUndecoded(S) ==
  {changes \in [{p.field : p \in S} -> S] : \A f \in DOMAIN changes : changes[f].field = f}

\* What filling the fields of S from its proposals can give.
Fillings(S) ==
  {changes \in [{p.field : p \in S} -> Values] :
     \A f \in DOMAIN changes : \E p \in S : p.field = f /\ p.value = changes[f]}

\* Writing what the proposals in S fill, if any.
Completion(card, S, changes) ==
  IF S = {} THEN Idle
  ELSE [op |-> "write", source |-> "ai", card |-> Patched(card, changes), changes |-> changes,
        accepts |-> Ids(S)]

\* ListByIDs and the decision: all accepted, or nothing pending: no change; an
\* outdated one: it alone expires; otherwise proposals for fields that have a
\* value are rejected and the others written.
ApplyDecide(r) ==
  /\ request[r].op = "apply"
  /\ LET card == request[r].card
         v == request[r].version IN
     \E S \in SUBSET proposals \ {{}} :
       IF Outdated(S, v) # {}
       THEN \E p \in Outdated(S, v) : Continues(r, Marking({Id(p)}, "expired", Idle))
       ELSE \E changes \in Fillings(Fillable(S, card)) :
              Continues(r, Marking(Ids(Pending(S) \ Fillable(S, card)), "rejected",
                                   Completion(card, Fillable(S, card), changes)))
  /\ UNCHANGED <<fields, version, live, revisions, proposals, previews>>

\* MarkExpired, MarkRejected, MarkAccepted.
Mark(r) ==
  /\ request[r].op = "mark"
  /\ proposals' = Moved(request[r].ids, request[r].status)
  /\ Continues(r, request[r].then)
  /\ UNCHANGED <<fields, version, live, revisions, previews>>

-----------------------------------------------------------------------------
(* Completion undo.                                                        *)

UndoRead(r) ==
  /\ Loads(r, [op |-> "undo", card |-> fields])
  /\ UNCHANGED <<fields, version, live, revisions, proposals, previews>>

\* The latest completion in the trail, undone already or not.
Completions == {i \in DOMAIN revisions : revisions[i].source = "ai"}
LatestCompletion == CHOOSE i \in Completions : \A j \in Completions : j <= i

\* Mutation: every field of the completion is reverted.
RevertibleAll(card, changes) == DOMAIN changes

\* Fields that still hold what the completion put there.
Revertible(card, changes) == {f \in DOMAIN changes : card[f] = changes[f]}

\* ListRevisions and the decision.  What an apply filled was empty before.
UndoDecide(r) ==
  /\ request[r].op = "undo" /\ Completions # {}
  /\ LET card == request[r].card
         F == Revertible(card, revisions[LatestCompletion].changes)
         changes == [f \in F |-> Empty] IN
       /\ F # {}
       /\ Continues(r, [op |-> "write", source |-> "undo", card |-> Patched(card, changes),
                        changes |-> changes, accepts |-> {}])
  /\ UNCHANGED <<fields, version, live, revisions, proposals, previews>>

-----------------------------------------------------------------------------
\* Mutation: the error of the write is ignored, and what it should have
\* written is accepted.
WriteErrorIgnored(r) ==
  /\ request[r].op = "write"
  /\ Continues(r, Marking(request[r].accepts, "accepted", Idle))
  /\ UNCHANGED <<fields, version, live, revisions, proposals, previews>>

\* A statement fails, an unexpected conflict is reported, or the process dies.
RequestDies(r) ==
  /\ request[r] # Idle
  /\ Continues(r, Idle)
  /\ UNCHANGED <<fields, version, live, revisions, proposals, previews>>

RequestStep(r) ==
  \/ CorrectRead(r) \/ NoteRead(r) \/ AppendNote(r) \/ WriteRevision(r)
  \/ PreviewRead(r) \/ ExpireAllPending(r) \/ Generate(r) \/ InsertProposal(r)
  \/ ApplyRead(r) \/ ApplyDecide(r) \/ Mark(r)
  \/ UndoRead(r) \/ UndoDecide(r) \/ RequestDies(r)
  \/ UpdateCardTitle(r) \/ DeleteMemory(r)

Next == \E r \in Requests : RequestStep(r)

Spec == Init /\ [][Next]_vars

-----------------------------------------------------------------------------
(* Properties that hold however requests overlap.                          *)

\* A card's version and its trail move together: every revision number is the
\* version it produced, although the two live in different tables.
VersionCountsRevisions ==
  /\ version = Len(revisions)
  /\ \A i \in DOMAIN revisions : revisions[i].version = i

\* An accepted proposal is backed by a revision in the trail that wrote its
\* field, made after the version it was proposed for: whatever dies or
\* overlaps, acceptance never runs ahead of the card.
Written(id) ==
  \E i \in DOMAIN revisions :
    /\ id \in revisions[i].from
    /\ id.field \in DOMAIN revisions[i].changes
    /\ revisions[i].version > id.revision

AcceptedWereWritten ==
  \A p \in proposals : p.status = "accepted" => Written(Id(p))

\* A proposal that was accepted, rejected or expired stays so: a preview, an
\* apply and a second apply that overlap cannot move it again.
ProposalsAreFinal ==
  [][\A p \in proposals : p.status # "pending" => p \in proposals']_vars

\* What a request has read is not from the future; what it is about to write
\* covers what it will accept; what it is about to accept is written.
WritesItsProposals(w) ==
  \A id \in w.accepts : id.field \in DOMAIN w.changes /\ id.revision <= version

RequestIsTrue(q) ==
  /\ q.op \in {"apply", "preview", "generate"} => q.version <= version
  /\ q.op = "insert" => \A id \in q.todo : id.revision <= version
  /\ q.op = "write" => WritesItsProposals(q)
  /\ q.op = "mark" =>
       /\ q.status = "accepted" => \A id \in q.ids : Written(id)
       /\ q.then.op = "write" => WritesItsProposals(q.then)

\* Inductive invariant of the two properties above.
TrailInv ==
  /\ VersionCountsRevisions
  /\ AcceptedWereWritten
  /\ \A p \in proposals : p.revision <= version
  /\ \A r \in Requests : RequestIsTrue(request[r])

\* A proposal made for the card's current version is for a field the card
\* lacks, and none is ever rejected: fields are filled in only with a new
\* version, except the title, which is never empty.  The version check alone
\* protects what the user wrote before an apply read the card.
NothingToReject ==
  \A p \in proposals :
    /\ p.revision = version => fields[p.field] = Empty
    /\ p.status # "rejected"

\* The versions of the card that are known: the row, and what requests read.
Sightings ==
  {[version |-> version, card |-> fields]} \cup
  {[version |-> request[r].version, card |-> request[r].card] :
     r \in {s \in Requests : request[s].op \in {"apply", "preview", "generate"}}}

\* The proposals, stored or about to be.
Offers ==
  Ids(proposals) \cup
  UNION {request[r].todo : r \in {s \in Requests : request[s].op = "insert"}}

\* A write keeps a title, and no completion has one.
KeepsTitle(w) ==
  /\ w.card["title"] # Empty
  /\ w.source = "ai" => "title" \notin DOMAIN w.changes

RequestKeepsTitle(q) ==
  /\ q.op = "undo" => q.card["title"] # Empty
  /\ q.op = "write" => KeepsTitle(q)
  /\ q.op = "mark" => /\ q.status # "rejected"
                      /\ q.then.op = "write" => KeepsTitle(q.then)

\* Inductive invariant of NothingToReject: whoever has seen a version saw the
\* same card but for the title, and lacked there what is proposed for it.
GapInv ==
  /\ \A a, b \in Sightings : a.version = b.version =>
       \A f \in Fields \ {"title"} : a.card[f] = b.card[f]
  /\ \A a \in Sightings : a.card["title"] # Empty
  /\ \A id \in Offers :
       /\ id.field # "title"
       /\ \A a \in Sightings : a.version = id.revision => a.card[id.field] = Empty
  /\ \A p \in proposals : p.status # "rejected"
  /\ \A i \in DOMAIN revisions : revisions[i].source = "ai" =>
       "title" \notin DOMAIN revisions[i].changes
  /\ \A r \in Requests : RequestKeepsTitle(request[r])

CardInv == TrailInv /\ GapInv

-----------------------------------------------------------------------------
(* Properties of requests that do not overlap, in spite of requests that   *)
(* die half way.                                                           *)

Trailing(source) ==
  /\ Len(revisions') = Len(revisions) + 1
  /\ revisions'[Len(revisions')].source = source

\* Apply never overwrites a field that has a value: what the user, an import or
\* a transcript wrote is still there after it.
FillsOnlyEmptyFields ==
  [][Trailing("ai") =>
       \A f \in Fields : fields[f] # Empty => fields'[f] = fields[f]]_vars

\* A completion writes only proposals that were made for the version of the
\* card that it replaces.
AppliesToItsVersion ==
  \A i \in DOMAIN revisions : \A id \in revisions[i].from : id.revision + 1 = i

\* No proposal is written twice, not even by a retry after a request that died
\* between writing the card and accepting the proposals.
AppliedOnce ==
  \A i, j \in DOMAIN revisions : i # j => revisions[i].from \cap revisions[j].from = {}

\* An undo takes back only what the latest completion wrote and is still there.
UndoSparesOtherValues ==
  [][Trailing("undo") =>
       \A f \in Fields : fields'[f] # fields[f] =>
         fields[f] = revisions[LatestCompletion].changes[f]]_vars

\* A new preview supersedes the previous batch, even one cut short.
OnePendingBatch ==
  \A p, q \in Pending(proposals) : p.preview = q.preview

Tellings(f) == {i \in DOMAIN revisions : f \in DOMAIN revisions[i].changes}

\* The trail explains the card: every field but the title, which transcripts
\* set behind the trail's back, holds what the latest revision of it says; the
\* first revision is an authority on the summary only.
TrailExplainsCard ==
  \A f \in Fields \ {"title"} : \A i \in Tellings(f) :
    (i > 1 \/ f = "summary") /\ (\A j \in Tellings(f) : j <= i) =>
      fields[f] = revisions[i].changes[f]

\* With one request at a time, the row is still what the request has read.
OneAtATime == \A r, s \in Requests : r = s

PatchesTheRow(w) ==
  /\ w.card = Patched(fields, w.changes)
  /\ w.source = "ai" => \A f \in DOMAIN w.changes : fields[f] = Empty
  /\ w.source = "undo" =>
       \A f \in DOMAIN w.changes : fields[f] = revisions[LatestCompletion].changes[f]
  /\ \A id \in w.accepts : id.revision = version

SeesTheRow(q) ==
  /\ q.op \in {"apply", "preview", "generate", "undo"} => q.card = fields
  /\ q.op \in {"apply", "preview", "generate"} => q.version = version
  /\ q.op = "write" => PatchesTheRow(q)
  /\ q.op = "mark" => (q.then.op = "write" => PatchesTheRow(q.then))
  /\ q.op = "generate" => Pending(proposals) = {}
  /\ q.op = "insert" => /\ \A id \in q.todo : id.preview = previews
                        /\ \A p \in Pending(proposals) : p.preview = previews

\* Inductive invariant of requests that do not overlap.
SerialInv ==
  /\ AppliesToItsVersion
  /\ OnePendingBatch
  /\ TrailExplainsCard
  /\ \A r \in Requests : SeesTheRow(request[r])
=============================================================================
