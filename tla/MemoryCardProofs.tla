--------------------------- MODULE MemoryCardProofs ---------------------------
(***************************************************************************)
(* Proofs about MemoryCard for every value of its constants: any fields    *)
(* and values, and any number of requests that overlap in any way.         *)
(***************************************************************************)
EXTENDS MemoryCard, SequenceTheorems, WellFoundedInduction, TLAPS

-----------------------------------------------------------------------------
(* What requests and proposals are made of.                                *)

LEMMA RequestTypes ==
  ASSUME NEW q \in Request
  PROVE  /\ q.op = "write" => q \in Write
         /\ q.op \in {"apply", "preview", "generate"} => q.card \in Card /\ q.version \in Nat
         /\ q.op = "undo" => q.card \in Card
         /\ q.op = "insert" => q.todo \in SUBSET ProposalId
         /\ q.op = "mark" => /\ q.ids \in SUBSET ProposalId /\ q.then \in {Idle} \cup Write
                             /\ q.status \in ProposalStatus
BY DEF Request, Write, Idle

LEMMA RequestMakes ==
  /\ Idle \in Request /\ [op |-> "note"] \in Request /\ Write \subseteq Request
  /\ \A card \in Card : [op |-> "undo", card |-> card] \in Request
  /\ \A card \in Card, v \in Nat, op \in {"apply", "preview", "generate"} :
       [op |-> op, card |-> card, version |-> v] \in Request
  /\ \A ids \in SUBSET ProposalId :
       /\ [op |-> "insert", todo |-> ids] \in Request
       /\ \A s \in {"accepted", "rejected", "expired"}, next \in {Idle} \cup Write :
            Marking(ids, s, next) \in Request
BY DEF Request, Write, Idle, Marking, ProposalStatus

LEMMA MarkingIs ==
  ASSUME NEW ids, NEW s, NEW next
  PROVE  \/ Marking(ids, s, next) = next
         \/ /\ Marking(ids, s, next).op = "mark" /\ Marking(ids, s, next).ids = ids
            /\ Marking(ids, s, next).status = s /\ Marking(ids, s, next).then = next
            /\ ids # {}
BY DEF Marking

LEMMA ProposalFields ==
  ASSUME NEW p \in Proposal, NEW s \in ProposalStatus
  PROVE  /\ [p EXCEPT !.status = s] \in Proposal
         /\ [p EXCEPT !.status = s].status = s
         /\ [p EXCEPT !.status = s].revision = p.revision
         /\ Id([p EXCEPT !.status = s]) = Id(p)
         /\ Id(p) \in ProposalId /\ Id(p).revision = p.revision /\ Id(p).field = p.field
BY DEF Proposal, Id, ProposalId

LEMMA MovedProposals ==
  ASSUME TypeOK, NEW ids, NEW s \in ProposalStatus, NEW p \in Moved(ids, s)
  PROVE  \E q \in proposals :
           /\ Id(p) = Id(q) /\ p.revision = q.revision /\ p \in Proposal
           /\ p.status = q.status \/ (p.status = s /\ Id(p) \in ids)
<1>1. PICK q \in proposals :
        p = IF Id(q) \in ids /\ q.status = "pending" THEN [q EXCEPT !.status = s] ELSE q
  BY DEF Moved
<1>2. q \in Proposal /\ q.status \in ProposalStatus
  BY DEF TypeOK, Proposal
<1>3. CASE Id(q) \in ids /\ q.status = "pending"
  <2>1. p = [q EXCEPT !.status = s]
    BY <1>1, <1>3
  <2> QED
    BY <1>2, <1>3, <2>1, ProposalFields
<1>4. CASE ~(Id(q) \in ids /\ q.status = "pending")
  BY <1>1, <1>2, <1>4
<1> QED
  BY <1>3, <1>4

LEMMA PatchedType ==
  ASSUME NEW card \in Card, NEW changes \in Changes
  PROVE  Patched(card, changes) \in Card
<1>1. DOMAIN changes \subseteq Fields /\ \A f \in DOMAIN changes : changes[f] \in FieldValue
  BY DEF Changes
<1>2. \A f \in Fields : card[f] \in FieldValue
  BY DEF Card
<1> QED
  BY <1>1, <1>2 DEF Patched, Card

LEMMA FillingsType ==
  ASSUME NEW S \in SUBSET Proposal, NEW changes \in Fillings(S)
  PROVE  changes \in Changes /\ DOMAIN changes = {p.field : p \in S}
<1>1. changes \in [{p.field : p \in S} -> Values]
  BY DEF Fillings
<1>2. {p.field : p \in S} \in SUBSET Fields
  BY DEF Proposal
<1>3. Values \subseteq FieldValue
  BY DEF FieldValue
<1>4. changes \in [{p.field : p \in S} -> FieldValue]
  BY <1>1, <1>3
<1> QED
  BY <1>1, <1>2, <1>4 DEF Changes

\* Pending proposals for a version of the card.
Current(v) == {p \in Pending(proposals) : p.revision = v}

\* What ApplyDecide decides.
LEMMA ApplyDecides ==
  ASSUME TypeOK, NEW r \in Requests, ApplyDecide(r)
  PROVE  \E next :
           /\ Continues(r, next)
           /\ \/ \E id \in ProposalId : next = Marking({id}, "expired", Idle)
              \/ \E S \in SUBSET Current(request[r].version) :
                   \E changes \in Fillings(Fillable(S, request[r].card)) :
                     next = Marking(Ids(S \ Fillable(S, request[r].card)), "rejected",
                                    Completion(request[r].card,
                                               Fillable(S, request[r].card), changes))
<1>0. proposals \subseteq Proposal
  BY DEF TypeOK
<1>1. PICK S \in SUBSET proposals :
        \/ \E p \in Outdated(S, request[r].version) :
             Continues(r, Marking({Id(p)}, "expired", Idle))
        \/ /\ Outdated(S, request[r].version) = {}
           /\ \E changes \in Fillings(Fillable(S, request[r].card)) :
                Continues(r, Marking(Ids(Pending(S) \ Fillable(S, request[r].card)), "rejected",
                          Completion(request[r].card, Fillable(S, request[r].card), changes)))
  BY Zenon DEF ApplyDecide
<1>2. CASE \E p \in Outdated(S, request[r].version) :
             Continues(r, Marking({Id(p)}, "expired", Idle))
  <2>1. \A p \in Outdated(S, request[r].version) : Id(p) \in ProposalId
    BY <1>0 DEF Outdated, Pending, Proposal, Id, ProposalId
  <2> QED
    BY <1>2, <2>1, Zenon
<1>3. ASSUME Outdated(S, request[r].version) = {},
             NEW changes \in Fillings(Fillable(S, request[r].card)),
             Continues(r, Marking(Ids(Pending(S) \ Fillable(S, request[r].card)), "rejected",
                       Completion(request[r].card, Fillable(S, request[r].card), changes)))
      PROVE  \E T \in SUBSET Current(request[r].version) :
               \E c \in Fillings(Fillable(T, request[r].card)) :
                 Continues(r, Marking(Ids(T \ Fillable(T, request[r].card)), "rejected",
                           Completion(request[r].card, Fillable(T, request[r].card), c)))
  <2>1. Pending(S) \in SUBSET Current(request[r].version)
    BY <1>3 DEF Pending, Outdated, Current
  <2>2. Fillable(Pending(S), request[r].card) = Fillable(S, request[r].card)
    BY DEF Fillable, Pending
  <2> QED
    BY <1>3, <2>1, <2>2, Zenon
<1> QED
  BY <1>1, <1>2, <1>3, Zenon

LEMMA IdsType == ASSUME TypeOK, NEW S \in SUBSET proposals PROVE Ids(S) \in SUBSET ProposalId
BY ProposalFields DEF Ids, TypeOK, Proposal, Id, ProposalId

LEMMA DecisionTypes ==
  ASSUME TypeOK, NEW card \in Card, NEW S \in SUBSET proposals, NEW T \in SUBSET proposals,
         NEW changes \in Fillings(T)
  PROVE  /\ Completion(card, T, changes) \in {Idle} \cup Write
         /\ Marking(Ids(S), "rejected", Completion(card, T, changes)) \in Request
<1>1. changes \in Changes
  BY FillingsType DEF TypeOK
<1>2. Completion(card, T, changes) \in {Idle} \cup Write
  BY <1>1, IdsType, PatchedType DEF Completion, Write
<1> QED
  BY <1>2, IdsType, RequestMakes

-----------------------------------------------------------------------------
(* Type correctness.                                                       *)

LEMMA InitType == Init => TypeOK
<1> SUFFICES ASSUME Init PROVE TypeOK
  OBVIOUS
<1>1. fields \in Card
  BY DEF Init
<1>2. FirstChanges(fields) \in Changes
  <2> DEFINE F == {g \in Fields : g = "summary" => fields[g] # Empty}
  <2>1. FirstChanges(fields) \in [F -> FieldValue]
    BY <1>1 DEF FirstChanges, Card, FieldValue
  <2> QED
    BY <2>1 DEF Changes
<1>3. revisions \in Seq(Revision)
  BY <1>2 DEF Init, Revision
<1>4. request \in [Requests -> Request]
  BY RequestMakes DEF Init
<1> QED
  BY <1>1, <1>3, <1>4 DEF Init, TypeOK

LEMMA ContinueType ==
  ASSUME TypeOK, NEW r \in Requests, NEW next \in Request, Continues(r, next)
  PROVE  request' \in [Requests -> Request]
BY DEF TypeOK, Continues

\* The trail is finite, so one completion is the latest.
LEMMA LatestExists ==
  ASSUME revisions \in Seq(Revision), Completions # {}
  PROVE  \E i \in Completions : \A j \in Completions : j <= i
<1> DEFINE Before == OpToRel(<, Nat)
           T == {Len(revisions) - j : j \in Completions}
<1>1. Len(revisions) \in Nat /\ \A j \in Completions : j \in 1 .. Len(revisions)
  BY DEF Completions
<1>2. T \subseteq Nat /\ T # {}
  BY <1>1
<1>3. PICK x \in T : \A y \in T : <<y, x>> \notin Before
  BY <1>2, NatLessThanWellFounded, WFMin
<1>4. \A y \in T : ~(y < x)
  BY <1>2, <1>3 DEF OpToRel
<1>5. PICK i \in Completions : x = Len(revisions) - i
  OBVIOUS
<1>6. \A j \in Completions : ~(Len(revisions) - j < Len(revisions) - i)
  BY <1>4, <1>5
<1>7. \A j \in Completions : j <= i
  BY <1>1, <1>5, <1>6
<1> QED
  BY <1>7

\* The steps that change only what a request is about to do, and what that is.
Thinks(r) == CorrectRead(r) \/ NoteRead(r) \/ PreviewRead(r) \/ Generate(r) \/ ApplyRead(r)
               \/ ApplyDecide(r) \/ UndoRead(r) \/ UndoDecide(r) \/ RequestDies(r)

LEMMA ThinkType ==
  ASSUME TypeOK, NEW r \in Requests, Thinks(r)
  PROVE  \E next \in Request : Continues(r, next)
<1>0. request[r] \in Request /\ fields \in Card /\ version \in Nat /\ revisions \in Seq(Revision)
  BY DEF TypeOK
<1>1. CASE CorrectRead(r)
  <2>1. PICK F \in SUBSET Fields :
          \E changes \in [F -> FieldValue] :
            Continues(r, [op |-> "write", source |-> "user", card |-> Patched(fields, changes),
                          changes |-> changes, accepts |-> {}])
    BY <1>1 DEF CorrectRead, Loads, Continues
  <2>2. PICK changes \in Changes :
          Continues(r, [op |-> "write", source |-> "user", card |-> Patched(fields, changes),
                        changes |-> changes, accepts |-> {}])
    BY <2>1 DEF Changes
  <2>3. Patched(fields, changes) \in Card
    BY <1>0, <2>2, PatchedType
  <2> QED
    BY <2>2, <2>3 DEF Request, Write
<1>2. CASE NoteRead(r)
  BY <1>2, RequestMakes DEF NoteRead, Loads, Continues
<1>3. CASE PreviewRead(r)
  BY <1>0, <1>3, RequestMakes DEF PreviewRead, Loads, Continues
<1>4. CASE Generate(r)
  <2>1. PICK todo \in SUBSET [preview : {previews + 1}, field : Missing(request[r].card),
                              value : Values, revision : {request[r].version}] :
          Continues(r, [op |-> "insert", todo |-> todo])
    BY <1>4 DEF Generate
  <2>2. todo \in SUBSET ProposalId
    <3>1. request[r].version \in Nat
      BY <1>0, <1>4, RequestTypes DEF Generate
    <3>2. previews + 1 \in Nat
      BY DEF TypeOK
    <3> QED
      BY <3>1, <3>2 DEF ProposalId, Missing
  <2> QED
    BY <2>1, <2>2, RequestMakes
<1>5. CASE ApplyRead(r)
  BY <1>0, <1>5, RequestMakes DEF ApplyRead, Loads, Continues
<1>6. CASE ApplyDecide(r)
  <2>1. request[r].card \in Card
    BY <1>0, <1>6, RequestTypes DEF ApplyDecide
  <2>2. \A id \in ProposalId : Marking({id}, "expired", Idle) \in Request
    BY RequestMakes
  <2>3. \A S \in SUBSET Current(request[r].version) :
          /\ Fillable(S, request[r].card) \in SUBSET proposals
          /\ S \ Fillable(S, request[r].card) \in SUBSET proposals
    BY DEF Current, Pending, Fillable
  <2> QED
    BY <1>6, <2>1, <2>2, <2>3, ApplyDecides, DecisionTypes
<1>7. CASE UndoRead(r)
  BY <1>0, <1>7, RequestMakes DEF UndoRead, Loads, Continues
<1>8. CASE UndoDecide(r)
  <2> DEFINE F == Revertible(request[r].card, revisions[LatestCompletion].changes)
             changes == [f \in F |-> Empty]
  <2>1. request[r].card \in Card
    BY <1>0, <1>8, RequestTypes DEF UndoDecide
  <2>2. Continues(r, [op |-> "write", source |-> "undo",
                      card |-> Patched(request[r].card, changes),
                      changes |-> changes, accepts |-> {}])
    BY <1>8 DEF UndoDecide
  <2>3. LatestCompletion \in DOMAIN revisions
    <3>1. PICK i \in Completions : \A j \in Completions : j <= i
      BY <1>0, <1>8, LatestExists DEF UndoDecide
    <3> QED
      BY <3>1 DEF LatestCompletion, Completions
  <2>4. revisions[LatestCompletion].changes \in Changes
    <3>1. DOMAIN revisions = 1 .. Len(revisions)
      BY <1>0
    <3>2. revisions[LatestCompletion] \in Revision
      BY <1>0, <2>3, <3>1
    <3> QED
      BY <3>2 DEF Revision
  <2>5. changes \in Changes
    <3>1. F \in SUBSET Fields
      BY <2>4 DEF Revertible, Changes
    <3>2. changes \in [F -> FieldValue]
      BY DEF FieldValue
    <3> QED
      BY <3>1, <3>2 DEF Changes
  <2>6. Patched(request[r].card, changes) \in Card
    BY <2>1, <2>5, PatchedType
  <2> QED
    BY <2>2, <2>5, <2>6 DEF Request, Write
<1>9. CASE RequestDies(r)
  BY <1>9, RequestMakes DEF RequestDies
<1> QED
  BY <1>1, <1>2, <1>3, <1>4, <1>5, <1>6, <1>7, <1>8, <1>9 DEF Thinks

\* The steps that move proposals and go on.
Moves(r) == ExpireAllPending(r) \/ Mark(r)

LEMMA MoveType ==
  ASSUME TypeOK, NEW r \in Requests, Moves(r)
  PROVE  proposals' \subseteq Proposal /\ \E next \in Request : Continues(r, next)
<1>0. request[r] \in Request
  BY DEF TypeOK
<1>1. PICK s \in ProposalStatus : \E ids : proposals' = Moved(ids, s)
  BY <1>0, RequestTypes DEF Moves, ExpireAllPending, Mark, ProposalStatus
<1>2. proposals' \subseteq Proposal
  BY <1>1, MovedProposals
<1>3. \E next \in Request : Continues(r, next)
  <2>1. CASE ExpireAllPending(r)
    <3>1. request[r].card \in Card /\ request[r].version \in Nat
      BY <1>0, <2>1, RequestTypes DEF ExpireAllPending
    <3>2. [request[r] EXCEPT !.op = "generate"] \in Request
      BY <1>0, <2>1 DEF Request, Write, Idle, ExpireAllPending
    <3> QED
      BY <2>1, <3>2, RequestMakes DEF ExpireAllPending
  <2>2. CASE Mark(r)
    BY <1>0, <2>2, RequestTypes, RequestMakes DEF Mark
  <2> QED
    BY <2>1, <2>2 DEF Moves
<1> QED
  BY <1>2, <1>3

LEMMA AppendedType ==
  ASSUME TypeOK, NEW source \in {"user", "ai", "undo"}, NEW changes \in Changes,
         NEW from \in SUBSET ProposalId
  PROVE  Appended(source, changes, from) \in Seq(Revision)
<1>1. [version |-> version + 1, source |-> source, changes |-> changes, from |-> from] \in Revision
  BY DEF TypeOK, Revision
<1> QED
  BY <1>1 DEF TypeOK, Appended

LEMMA StepType == TypeOK /\ [Next]_vars => TypeOK'
<1> SUFFICES ASSUME TypeOK, [Next]_vars PROVE TypeOK'
  OBVIOUS
<1>1. CASE UNCHANGED vars
  BY <1>1 DEF vars, TypeOK
<1>2. ASSUME NEW r \in Requests, RequestStep(r) PROVE TypeOK'
  <2>0. request[r] \in Request
    BY DEF TypeOK
  <2>1. CASE Thinks(r)
    <3>1. request' \in [Requests -> Request]
      BY <2>1, ThinkType, ContinueType
    <3>2. UNCHANGED <<fields, version, live, revisions, proposals>> /\ previews' \in Nat
      BY <2>1 DEF TypeOK, Thinks, CorrectRead, NoteRead, PreviewRead, Generate, ApplyRead,
        ApplyDecide, UndoRead, UndoDecide, RequestDies
    <3> QED
      BY <3>1, <3>2 DEF TypeOK
  <2>2. CASE Moves(r)
    <3>1. request' \in [Requests -> Request] /\ proposals' \subseteq Proposal
      BY <2>2, MoveType, ContinueType
    <3>2. UNCHANGED <<fields, version, live, revisions, previews>>
      BY <2>2 DEF Moves, ExpireAllPending, Mark
    <3> QED
      BY <3>1, <3>2 DEF TypeOK
  <2>3. CASE AppendNote(r)
    <3>1. <<>> \in Changes
      BY DEF Changes
    <3>2. revisions' \in Seq(Revision)
      BY <2>3, <3>1, AppendedType DEF AppendNote
    <3>3. request' \in [Requests -> Request]
      BY <2>3, RequestMakes, ContinueType DEF AppendNote
    <3> QED
      BY <2>3, <3>2, <3>3 DEF TypeOK, AppendNote
  <2>4. CASE WriteRevision(r)
    <3>1. request[r] \in Write
      BY <2>0, <2>4, RequestTypes DEF WriteRevision
    <3>2. revisions' \in Seq(Revision) /\ fields' \in Card
      BY <2>4, <3>1, AppendedType DEF WriteRevision, Write
    <3>3. request' \in [Requests -> Request]
      <4>1. request[r].accepts \in SUBSET ProposalId
        BY <3>1 DEF Write
      <4> QED
        BY <2>4, <4>1, RequestMakes, ContinueType DEF WriteRevision
    <3> QED
      BY <2>4, <3>2, <3>3 DEF TypeOK, WriteRevision
  <2>5. CASE InsertProposal(r)
    <3>1. request[r].todo \in SUBSET ProposalId
      BY <2>0, <2>5, RequestTypes DEF InsertProposal
    <3>2. PICK id \in request[r].todo :
            /\ proposals' = proposals \cup
                 {[preview |-> id.preview, field |-> id.field, value |-> id.value,
                   revision |-> id.revision, status |-> "pending"]}
            /\ Continues(r, IF request[r].todo = {id} THEN Idle
                            ELSE [request[r] EXCEPT !.todo = @ \ {id}])
      BY <2>5 DEF InsertProposal
    <3>3. proposals' \subseteq Proposal
      BY <3>1, <3>2 DEF TypeOK, Proposal, ProposalId, ProposalStatus
    <3>4. [request[r] EXCEPT !.todo = request[r].todo \ {id}] \in Request
      <4>1. request[r] \in [op : {"insert"}, todo : SUBSET ProposalId]
        BY <2>0, <2>5 DEF InsertProposal, Request, Write, Idle
      <4>2. [request[r] EXCEPT !.todo = request[r].todo \ {id}] \in
              [op : {"insert"}, todo : SUBSET ProposalId]
        BY <3>1, <4>1
      <4> QED
        BY <4>2 DEF Request
    <3>5. request' \in [Requests -> Request]
      BY <3>2, <3>4, RequestMakes, ContinueType
    <3> QED
      BY <2>5, <3>3, <3>5 DEF TypeOK, InsertProposal
  <2>6. CASE UpdateCardTitle(r)
    <3>1. fields' \in Card
      BY <2>6 DEF UpdateCardTitle, TypeOK, Card, FieldValue
    <3> QED
      BY <2>6, <3>1 DEF UpdateCardTitle, TypeOK
  <2>7. CASE DeleteMemory(r)
    BY <2>7 DEF DeleteMemory, TypeOK
  <2> QED
    BY <1>2, <2>1, <2>2, <2>3, <2>4, <2>5, <2>6, <2>7 DEF RequestStep, Thinks, Moves
<1> QED
  BY <1>1, <1>2 DEF Next

\* However requests overlap, the card, its trail, its proposals and what each
\* request holds are well-typed.
THEOREM CardTypes == Spec => []TypeOK
BY InitType, StepType, PTL DEF Spec

-----------------------------------------------------------------------------
(* Proposals settle once.                                                  *)

LEMMA SettledProposalsStay ==
  ASSUME Next
  PROVE  \A p \in proposals : p.status # "pending" => p \in proposals'
<1> SUFFICES ASSUME NEW p \in proposals, p.status # "pending" PROVE p \in proposals'
  OBVIOUS
<1>1. \A ids, s : p \in Moved(ids, s)
  BY DEF Moved
<1>2. PICK r \in Requests : RequestStep(r)
  BY DEF Next
<1>3. \/ UNCHANGED proposals
      \/ \E ids, s : proposals' = Moved(ids, s)
      \/ \E q : proposals' = proposals \cup {q}
  <2>1. CASE ExpireAllPending(r) \/ Mark(r)
    BY <2>1 DEF ExpireAllPending, Mark
  <2>2. CASE InsertProposal(r)
    BY <2>2 DEF InsertProposal
  <2> QED
    BY <1>2, <2>1, <2>2 DEF RequestStep, CorrectRead, NoteRead, AppendNote, WriteRevision,
      PreviewRead, Generate, ApplyRead, ApplyDecide, UndoRead, UndoDecide, RequestDies,
      UpdateCardTitle, DeleteMemory
<1> QED
  BY <1>1, <1>3

\* However previews and applies overlap, a proposal that was accepted, rejected
\* or expired is never moved again.
THEOREM ProposalsSettleOnce == Spec => ProposalsAreFinal
<1>1. [Next]_vars => [\A p \in proposals : p.status # "pending" => p \in proposals']_vars
  BY SettledProposalsStay
<1> QED
  BY <1>1, PTL DEF Spec, ProposalsAreFinal

-----------------------------------------------------------------------------
(* The trail and the proposals.                                            *)

LEMMA InitTrail == Init => TrailInv
<1> SUFFICES ASSUME Init PROVE TrailInv
  OBVIOUS
<1>1. \A r \in Requests : RequestIsTrue(request[r])
  BY DEF Init, RequestIsTrue, Idle
<1>2. VersionCountsRevisions
  BY DEF Init, VersionCountsRevisions
<1> QED
  BY <1>1, <1>2 DEF Init, TrailInv, AcceptedWereWritten

\* Written proposals stay written, and versions that are not ahead stay so.
LEMMA TrailGrows ==
  ASSUME TypeOK, TypeOK', VersionCountsRevisions,
         \/ UNCHANGED <<version, revisions>>
         \/ /\ version' = version + 1
            /\ \E x \in Revision : revisions' = Append(revisions, x) /\ x.version = version + 1
  PROVE  /\ version <= version'
         /\ VersionCountsRevisions'
         /\ \A id : Written(id) => Written(id)'
<1>0. version \in Nat /\ revisions \in Seq(Revision) /\ DOMAIN revisions = 1 .. Len(revisions)
  BY DEF TypeOK
<1>1. CASE UNCHANGED <<version, revisions>>
  BY <1>0, <1>1 DEF VersionCountsRevisions, Written
<1>2. CASE /\ version' = version + 1
           /\ \E x \in Revision : revisions' = Append(revisions, x) /\ x.version = version + 1
  <2>0. version' = version + 1
    BY <1>2
  <2>1. PICK x \in Revision : revisions' = Append(revisions, x) /\ x.version = version + 1
    BY <1>2, Zenon
  <2>2. /\ Len(revisions') = Len(revisions) + 1
        /\ \A i \in 1 .. Len(revisions) : revisions'[i] = revisions[i]
        /\ revisions'[Len(revisions) + 1] = x
    <3>1. /\ Len(Append(revisions, x)) = Len(revisions) + 1
          /\ \A i \in 1 .. Len(revisions) : Append(revisions, x)[i] = revisions[i]
          /\ Append(revisions, x)[Len(revisions) + 1] = x
      BY <1>0, AppendProperties
    <3>2. revisions' = Append(revisions, x)
      BY <2>1, Zenon
    <3> QED
      BY <3>1, <3>2, Zenon
  <2>3. DOMAIN revisions' = 1 .. Len(revisions) + 1
    <3>1. revisions' \in Seq(Revision)
      BY DEF TypeOK
    <3>2. DOMAIN revisions' = 1 .. Len(revisions')
      BY <3>1, LenProperties
    <3> QED
      BY <2>2, <3>2
  <2>4. x.version = version + 1
    BY <2>1, Zenon
  <2>5. VersionCountsRevisions'
    BY <1>0, <2>0, <2>2, <2>3, <2>4 DEF VersionCountsRevisions
  <2>6. \A id : Written(id) => Written(id)'
    BY <1>0, <2>2, <2>3 DEF Written
  <2> QED
    BY <1>0, <2>0, <2>5, <2>6
<1> QED
  BY <1>1, <1>2

\* What is true of a request stays true while the trail grows.
LEMMA RequestStaysTrue ==
  ASSUME TypeOK, NEW q \in Request, RequestIsTrue(q), version <= version', version' \in Nat,
         \A id : Written(id) => Written(id)'
  PROVE  RequestIsTrue(q)'
<1>0. version \in Nat
  BY DEF TypeOK
<1>1. \A n \in Nat : n <= version => n <= version'
  BY <1>0
<1>2. \A id \in ProposalId : id.revision \in Nat
  BY DEF ProposalId
<1>3. q.op \in {"apply", "preview", "generate"} => q.version <= version'
  BY <1>1, RequestTypes DEF RequestIsTrue
<1>4. q.op = "insert" => \A id \in q.todo : id.revision <= version'
  BY <1>1, <1>2, RequestTypes DEF RequestIsTrue
<1>5. ASSUME NEW w \in Write, WritesItsProposals(w)
      PROVE  \A id \in w.accepts : id.field \in DOMAIN w.changes /\ id.revision <= version'
  BY <1>1, <1>2, <1>5 DEF WritesItsProposals, Write
<1>6. q.op = "write" => WritesItsProposals(q)'
  BY <1>5, RequestTypes DEF RequestIsTrue, WritesItsProposals
<1>7. q.op = "mark" =>
        /\ q.status = "accepted" => \A id \in q.ids : Written(id)'
        /\ q.then.op = "write" => WritesItsProposals(q.then)'
  BY <1>5, RequestTypes DEF RequestIsTrue, WritesItsProposals, Idle
<1> QED
  BY <1>3, <1>4, <1>6, <1>7 DEF RequestIsTrue

\* A step that makes RequestIsTrue of what one request goes on with, while the
\* trail stays or grows and the proposals do not run ahead of it.
LEMMA TrailKept ==
  ASSUME TypeOK, TypeOK', TrailInv, NEW r \in Requests, NEW next \in Request, Continues(r, next),
         RequestIsTrue(next)', version <= version', VersionCountsRevisions',
         \A id : Written(id) => Written(id)',
         \A p \in proposals' : \/ \E q \in proposals : /\ Id(p) = Id(q) /\ p.revision = q.revision
                                                       /\ p.status = "accepted" =>
                                                            q.status = "accepted" \/ Written(Id(p))
                               \/ p.revision <= version /\ p.status = "pending"
  PROVE  TrailInv'
<1>0. version \in Nat /\ version' \in Nat
  BY DEF TypeOK
<1>1. AcceptedWereWritten'
  BY DEF AcceptedWereWritten, TrailInv
<1>2. \A p \in proposals' : p.revision <= version'
  <2>1. \A p \in proposals' : p.revision \in Nat
    BY DEF TypeOK, Proposal
  <2>2. \A p \in proposals' : p.revision <= version
    BY DEF TrailInv
  <2> QED
    BY <1>0, <2>1, <2>2
<1>3. \A s \in Requests : RequestIsTrue(request[s])'
  <2>1. \A q \in Request : RequestIsTrue(q) => RequestIsTrue(q)'
    BY <1>0, RequestStaysTrue
  <2>2. ASSUME NEW s \in Requests, s # r PROVE RequestIsTrue(request[s])'
    <3>1. request'[s] = request[s] /\ request[s] \in Request
      BY <2>2 DEF Continues, TypeOK
    <3>2. PICK q \in Request : q = request[s]
      BY <3>1
    <3>3. RequestIsTrue(q)'
      BY <2>1, <3>2 DEF TrailInv
    <3> QED
      BY <3>1, <3>2, <3>3 DEF RequestIsTrue, WritesItsProposals
  <2>3. RequestIsTrue(request[r])'
    <3>1. request'[r] = next
      BY DEF Continues, TypeOK
    <3> QED
      BY <3>1 DEF RequestIsTrue, WritesItsProposals
  <2> QED
    BY <2>2, <2>3
<1> QED
  BY <1>1, <1>2, <1>3 DEF TrailInv

\* What a request goes on with after it has thought is true.
LEMMA ThinkTrue ==
  ASSUME TypeOK, TrailInv, NEW r \in Requests, Thinks(r)
  PROVE  \E next \in Request : Continues(r, next) /\ RequestIsTrue(next)
<1>0. request[r] \in Request /\ RequestIsTrue(request[r]) /\ version \in Nat
  BY DEF TypeOK, TrailInv
<1>1. PICK next \in Request : Continues(r, next)
  BY ThinkType
<1>2. request' = [request EXCEPT ![r] = next] /\ r \in DOMAIN request
  BY <1>1 DEF Continues, TypeOK
<1>3. request'[r] = next
  BY <1>2
<1>4. CASE CorrectRead(r) \/ UndoDecide(r)
  <2>1. \A n : Continues(r, n) => n = next
    BY <1>2, <1>3 DEF Continues
  <2>2. \E source, card, changes :
          Continues(r, [op |-> "write", source |-> source, card |-> card, changes |-> changes,
                        accepts |-> {}])
    <3>1. CASE CorrectRead(r)
      BY <3>1, Zenon DEF CorrectRead, Loads, Continues
    <3>2. CASE UndoDecide(r)
      BY <3>2, Zenon DEF UndoDecide
    <3> QED
      BY <1>4, <3>1, <3>2
  <2>3. next.op = "write" /\ next.accepts = {}
    BY <2>1, <2>2
  <2> QED
    BY <1>1, <2>3 DEF RequestIsTrue, WritesItsProposals
<1>5. CASE NoteRead(r) \/ UndoRead(r) \/ RequestDies(r)
  <2>1. next.op \in {"note", "undo", "idle"}
    BY <1>2, <1>3, <1>5 DEF NoteRead, UndoRead, RequestDies, Loads, Continues, Idle
  <2> QED
    BY <1>1, <2>1 DEF RequestIsTrue
<1>6. CASE PreviewRead(r) \/ ApplyRead(r)
  <2>1. next.op \in {"preview", "apply"} /\ next.version = version
    BY <1>2, <1>3, <1>6 DEF PreviewRead, ApplyRead, Loads, Continues
  <2> QED
    BY <1>0, <1>1, <2>1 DEF RequestIsTrue
<1>7. CASE Generate(r)
  <2>1. next.op = "insert" /\ \A id \in next.todo : id.revision = request[r].version
    BY <1>2, <1>3, <1>7 DEF Generate, Continues
  <2>2. request[r].version <= version
    BY <1>0, <1>7 DEF Generate, RequestIsTrue
  <2> QED
    BY <1>1, <2>1, <2>2 DEF RequestIsTrue
<1>8. CASE ApplyDecide(r)
  <2>1. PICK n :
          /\ Continues(r, n)
          /\ \/ \E id \in ProposalId : n = Marking({id}, "expired", Idle)
             \/ \E S \in SUBSET Current(request[r].version) :
                  \E changes \in Fillings(Fillable(S, request[r].card)) :
                    n = Marking(Ids(S \ Fillable(S, request[r].card)), "rejected",
                                Completion(request[r].card, Fillable(S, request[r].card),
                                           changes))
    BY <1>8, ApplyDecides
  <2>2. n = next
    BY <1>2, <1>3, <2>1 DEF Continues
  <2>3. CASE \E id \in ProposalId : n = Marking({id}, "expired", Idle)
    BY <1>1, <2>2, <2>3 DEF RequestIsTrue, Marking, Idle
  <2>4. ASSUME NEW S \in SUBSET Current(request[r].version),
               NEW changes \in Fillings(Fillable(S, request[r].card)),
               n = Marking(Ids(S \ Fillable(S, request[r].card)), "rejected",
                           Completion(request[r].card, Fillable(S, request[r].card), changes))
        PROVE  RequestIsTrue(next)
    <3> DEFINE T == Fillable(S, request[r].card)
               w == Completion(request[r].card, T, changes)
    <3>1. T \in SUBSET Proposal /\ \A p \in T : p.revision <= version
      BY DEF TypeOK, TrailInv, Current, Pending, Fillable
    <3>2. DOMAIN changes = {p.field : p \in T}
      BY <3>1, FillingsType
    <3>3. \A id \in Ids(T) : id.field \in DOMAIN changes /\ id.revision <= version
      BY <3>1, <3>2 DEF Ids, Id
    <3>4. w.op = "idle" \/ (w.op = "write" /\ WritesItsProposals(w))
      BY <3>3 DEF Completion, WritesItsProposals, Idle
    <3> HIDE DEF w
    <3>5. next = w \/ (next.op = "mark" /\ next.status = "rejected" /\ next.then = w)
      <4>1. next = Marking(Ids(S \ T), "rejected", w)
        BY <2>2, <2>4 DEF w
      <4> QED
        BY <4>1, MarkingIs
    <3> QED
      BY <3>4, <3>5 DEF RequestIsTrue
  <2> QED
    BY <1>1, <2>1, <2>3, <2>4
<1> QED
  BY <1>4, <1>5, <1>6, <1>7, <1>8 DEF Thinks

LEMMA MovesTrail ==
  ASSUME TypeOK, TypeOK', TrailInv, NEW r \in Requests, Moves(r) PROVE TrailInv'
<1>0. request[r] \in Request /\ RequestIsTrue(request[r]) /\ version \in Nat
  BY DEF TypeOK, TrailInv
<1>1. PICK next \in Request : Continues(r, next)
  BY MoveType
<1>2. UNCHANGED <<version, revisions>>
  BY DEF Moves, ExpireAllPending, Mark
<1>3. \A n : Continues(r, n) => n = next
  <2>1. r \in DOMAIN request
    BY DEF TypeOK
  <2> QED
    BY <1>1, <2>1 DEF Continues
<1>4. RequestIsTrue(next)
  <2>1. CASE ExpireAllPending(r)
    <3>1. next = Idle \/ next = [request[r] EXCEPT !.op = "generate"]
      BY <1>3, <2>1 DEF ExpireAllPending
    <3>2. request[r] \in [op : {"preview"}, card : Card, version : Nat]
      BY <1>0, <2>1 DEF ExpireAllPending, Request, Write, Idle
    <3>3. request[r].version <= version
      BY <1>0, <2>1 DEF ExpireAllPending, RequestIsTrue
    <3>4. next = Idle \/ (next.op = "generate" /\ next.version = request[r].version)
      BY <3>1, <3>2
    <3> QED
      BY <3>3, <3>4 DEF RequestIsTrue, Idle
  <2>2. CASE Mark(r)
    <3>1. next = request[r].then /\ request[r].then \in {Idle} \cup Write
      BY <1>0, <1>3, <2>2, RequestTypes DEF Mark
    <3>2. next = Idle \/ (next.op = "write" /\ WritesItsProposals(next))
      BY <1>0, <2>2, <3>1 DEF Mark, RequestIsTrue, Write
    <3> QED
      BY <3>2 DEF RequestIsTrue, Idle
  <2> QED
    BY <2>1, <2>2 DEF Moves
<1>5. version <= version' /\ VersionCountsRevisions' /\ \A id : Written(id) => Written(id)'
  BY <1>2, TrailGrows DEF TrailInv
<1>6. RequestIsTrue(next)'
  BY <1>0, <1>2, <1>4, <1>5, RequestStaysTrue
<1>7. PICK s \in ProposalStatus : \E ids :
        proposals' = Moved(ids, s) /\ (s = "accepted" => \A id \in ids : Written(id))
  <2>1. CASE Mark(r)
    BY <1>0, <2>1, RequestTypes DEF Mark, RequestIsTrue
  <2>2. CASE ExpireAllPending(r)
    BY <2>2 DEF ExpireAllPending, ProposalStatus
  <2> QED
    BY <2>1, <2>2 DEF Moves
<1>8. \A p \in proposals' : \E q \in proposals :
        /\ Id(p) = Id(q) /\ p.revision = q.revision
        /\ p.status = "accepted" => q.status = "accepted" \/ Written(Id(p))
  BY <1>7, MovedProposals
<1> QED
  BY <1>1, <1>5, <1>6, <1>8, TrailKept

LEMMA WriteTrail ==
  ASSUME TypeOK, TypeOK', TrailInv, NEW r \in Requests, AppendNote(r) \/ WriteRevision(r)
  PROVE  TrailInv'
<1>0. /\ request[r] \in Request /\ RequestIsTrue(request[r]) /\ version \in Nat
      /\ revisions \in Seq(Revision)
  BY DEF TypeOK, TrailInv
<1>1. PICK source \in {"user", "ai", "undo"}, changes \in Changes, from \in SUBSET ProposalId :
        /\ revisions' = Appended(source, changes, from)
        /\ version' = version + 1 /\ UNCHANGED proposals
        /\ \/ from = {} /\ Continues(r, Idle)
           \/ /\ Continues(r, Marking(from, "accepted", Idle))
              /\ \A id \in from : id.field \in DOMAIN changes /\ id.revision <= version
  <2>1. CASE AppendNote(r)
    <3>1. <<>> \in Changes
      BY DEF Changes
    <3> QED
      BY <2>1, <3>1 DEF AppendNote
  <2>2. CASE WriteRevision(r)
    <3>1. request[r] \in Write /\ WritesItsProposals(request[r])
      BY <1>0, <2>2, RequestTypes DEF WriteRevision, RequestIsTrue
    <3>2. /\ request[r].source \in {"user", "ai", "undo"} /\ request[r].changes \in Changes
          /\ request[r].accepts \in SUBSET ProposalId
      BY <3>1 DEF Write
    <3> QED
      BY <2>2, <3>1, <3>2 DEF WriteRevision, WritesItsProposals
  <2> QED
    BY <2>1, <2>2
<1> DEFINE x == [version |-> version + 1, source |-> source, changes |-> changes, from |-> from]
<1>2. x \in Revision /\ x.version = version + 1
  BY <1>0 DEF Revision
<1>3. revisions' = Append(revisions, x)
  BY <1>1 DEF Appended
<1>4. version <= version' /\ VersionCountsRevisions' /\ \A id : Written(id) => Written(id)'
  <2> HIDE DEF x
  <2> QED
    BY <1>1, <1>2, <1>3, TrailGrows DEF TrailInv
<1>5. ASSUME NEW id \in from, id.field \in DOMAIN changes, id.revision <= version
      PROVE  Written(id)'
  <2>1. revisions' \in Seq(Revision) /\ version' \in Nat
    BY DEF TypeOK
  <2>2. Len(revisions') = version + 1
    BY <1>1, <1>4 DEF VersionCountsRevisions
  <2>3. DOMAIN revisions' = 1 .. Len(revisions')
    BY <2>1, LenProperties
  <2>4. Len(revisions) = version
    BY DEF TrailInv, VersionCountsRevisions
  <2>5. revisions'[version + 1] = x
    BY <1>0, <1>2, <1>3, <2>4, AppendProperties
  <2>6. id.revision \in Nat
    BY DEF ProposalId
  <2> HIDE DEF x
  <2>7. x.from = from /\ x.changes = changes /\ x.version = version + 1
    BY DEF x
  <2>8. version + 1 \in DOMAIN revisions' /\ version + 1 > id.revision
    BY <1>0, <1>5, <2>2, <2>3, <2>6
  <2> QED
    BY <1>5, <2>5, <2>7, <2>8 DEF Written
<1>6. PICK next \in Request : Continues(r, next) /\ RequestIsTrue(next)'
  <2>1. CASE Continues(r, Idle)
    <3>1. RequestIsTrue(Idle)'
      BY DEF RequestIsTrue, Idle
    <3> QED
      BY <2>1, <3>1, RequestMakes
  <2>2. ASSUME Continues(r, Marking(from, "accepted", Idle)),
               \A id \in from : id.field \in DOMAIN changes /\ id.revision <= version
        PROVE  \E next \in Request : Continues(r, next) /\ RequestIsTrue(next)'
    <3>1. Marking(from, "accepted", Idle) \in Request
      BY RequestMakes
    <3>2. \A id \in from : Written(id)'
      BY <1>5, <2>2
    <3>3. RequestIsTrue(Marking(from, "accepted", Idle))'
      BY <3>2 DEF RequestIsTrue, Marking, Idle
    <3> QED
      BY <2>2, <3>1, <3>3
  <2> QED
    BY <1>1, <2>1, <2>2
<1> QED
  BY <1>1, <1>4, <1>6, TrailKept

LEMMA InsertTrail ==
  ASSUME TypeOK, TypeOK', TrailInv, NEW r \in Requests, InsertProposal(r)
  PROVE  TrailInv'
<1>0. /\ request[r] \in Request /\ RequestIsTrue(request[r]) /\ version \in Nat
      /\ request[r].op = "insert"
  BY DEF TypeOK, TrailInv, InsertProposal
<1>1. request[r] \in [op : {"insert"}, todo : SUBSET ProposalId]
  BY <1>0 DEF Request, Write, Idle
<1>2. \A id \in request[r].todo : id.revision <= version
  BY <1>0 DEF RequestIsTrue
<1>3. PICK id \in request[r].todo :
        /\ proposals' = proposals \cup
             {[preview |-> id.preview, field |-> id.field, value |-> id.value,
               revision |-> id.revision, status |-> "pending"]}
        /\ Continues(r, IF request[r].todo = {id} THEN Idle
                        ELSE [request[r] EXCEPT !.todo = request[r].todo \ {id}])
  BY DEF InsertProposal
<1>4. version <= version' /\ VersionCountsRevisions' /\ \A i : Written(i) => Written(i)'
  BY TrailGrows DEF TrailInv, InsertProposal
<1>5. PICK next \in Request : Continues(r, next) /\ RequestIsTrue(next)
  <2>1. [request[r] EXCEPT !.todo = request[r].todo \ {id}] =
          [op |-> "insert", todo |-> request[r].todo \ {id}]
    BY <1>1
  <2>2. [op |-> "insert", todo |-> request[r].todo \ {id}] \in Request
    BY <1>1, RequestMakes
  <2>3. RequestIsTrue([op |-> "insert", todo |-> request[r].todo \ {id}])
    BY <1>2 DEF RequestIsTrue
  <2>4. RequestIsTrue(Idle)
    BY DEF RequestIsTrue, Idle
  <2> QED
    BY <1>3, <2>1, <2>2, <2>3, <2>4, RequestMakes
<1>6. version' \in Nat
  BY DEF TypeOK
<1>7. RequestIsTrue(next)'
  BY <1>4, <1>5, <1>6, RequestStaysTrue
<1>8. \A p \in proposals' : p \in proposals \/ (p.revision <= version /\ p.status = "pending")
  BY <1>2, <1>3
<1> QED
  BY <1>4, <1>5, <1>7, <1>8, TrailKept

LEMMA StepTrail == TypeOK /\ TrailInv /\ [Next]_vars => TrailInv'
<1> SUFFICES ASSUME TypeOK, TrailInv, [Next]_vars PROVE TrailInv'
  OBVIOUS
<1>0. TypeOK'
  BY StepType
<1>1. ASSUME UNCHANGED <<version, revisions, proposals, request>> PROVE TrailInv'
  BY <1>1 DEF TrailInv, VersionCountsRevisions, AcceptedWereWritten, Written, RequestIsTrue,
    WritesItsProposals
<1>2. ASSUME NEW r \in Requests, RequestStep(r) PROVE TrailInv'
  <2>1. CASE Thinks(r)
    <3>1. UNCHANGED <<version, revisions, proposals>>
      BY <2>1 DEF Thinks, CorrectRead, NoteRead, PreviewRead, Generate, ApplyRead, ApplyDecide,
        UndoRead, UndoDecide, RequestDies
    <3>2. PICK next \in Request : Continues(r, next) /\ RequestIsTrue(next)
      BY <2>1, ThinkTrue
    <3>3. version <= version' /\ VersionCountsRevisions' /\ \A id : Written(id) => Written(id)'
      BY <1>0, <3>1, TrailGrows DEF TrailInv
    <3>4. version' \in Nat
      BY <1>0 DEF TypeOK
    <3>5. RequestIsTrue(next)'
      BY <3>2, <3>3, <3>4, RequestStaysTrue
    <3> QED
      BY <1>0, <3>1, <3>2, <3>3, <3>5, TrailKept
  <2>2. CASE UpdateCardTitle(r) \/ DeleteMemory(r)
    BY <1>1, <2>2 DEF UpdateCardTitle, DeleteMemory
  <2> QED
    BY <1>0, <1>2, <2>1, <2>2, MovesTrail, WriteTrail, InsertTrail
    DEF RequestStep, Thinks, Moves
<1> QED
  BY <1>1, <1>2 DEF Next, vars

LEMMA TrailInvariant == Spec => []TrailInv
<1>1. Init => TypeOK /\ TrailInv
  BY InitType, InitTrail
<1>2. TypeOK /\ TrailInv /\ [Next]_vars => (TypeOK /\ TrailInv)'
  BY StepType, StepTrail
<1> QED
  BY <1>1, <1>2, PTL DEF Spec

\* Every revision has the version it produced, and the card the last of them,
\* however many requests write at once.
THEOREM VersionsCount == Spec => []VersionCountsRevisions
<1>1. TrailInv => VersionCountsRevisions
  BY DEF TrailInv
<1> QED
  BY <1>1, TrailInvariant, PTL

\* A proposal that is accepted was written to its field by a revision of the
\* trail, whatever request died on the way.
THEOREM AcceptedAreWritten == Spec => []AcceptedWereWritten
<1>1. TrailInv => AcceptedWereWritten
  BY DEF TrailInv
<1> QED
  BY <1>1, TrailInvariant, PTL
-----------------------------------------------------------------------------
(* No proposal is for a field that has a value.                            *)

Seeing(q) == q.op \in {"apply", "preview", "generate"}
Sight(q) == [version |-> q.version, card |-> q.card]
Row == [version |-> version, card |-> fields]

\* What holds of a proposal, stored or not, in GapInv.
IsGap(id) ==
  /\ id.field # "title"
  /\ \A a \in Sightings : a.version = id.revision => a.card[id.field] = Empty

LEMMA SightingIs ==
  ASSUME NEW a
  PROVE  a \in Sightings <=>
           a = Row \/ \E s \in Requests : Seeing(request[s]) /\ a = Sight(request[s])
BY DEF Sightings, Row, Seeing, Sight

LEMMA SightingIsPrime ==
  ASSUME NEW a
  PROVE  a \in Sightings' <=>
           a = Row' \/ \E s \in Requests : Seeing(request'[s]) /\ a = Sight(request'[s])
BY DEF Sightings, Row, Seeing, Sight

LEMMA OfferIs ==
  ASSUME NEW id
  PROVE  id \in Offers <=> \/ id \in Ids(proposals)
                           \/ \E s \in Requests : request[s].op = "insert" /\ id \in request[s].todo
BY DEF Offers

LEMMA OfferIsPrime ==
  ASSUME NEW id
  PROVE  id \in Offers' <=> \/ id \in Ids(proposals')
                            \/ \E s \in Requests : /\ request'[s].op = "insert"
                                                   /\ id \in request'[s].todo
BY DEF Offers

\* Sightings and offers are of versions that have been.
LEMMA SightingType ==
  ASSUME TypeOK, TrailInv, NEW a \in Sightings
  PROVE  a.version \in Nat /\ a.version <= version /\ a.card \in Card
<1>1. CASE a = Row
  BY <1>1 DEF Row, TypeOK
<1>2. ASSUME NEW s \in Requests, Seeing(request[s]), a = Sight(request[s])
      PROVE  a.version \in Nat /\ a.version <= version /\ a.card \in Card
  <2>1. request[s] \in Request /\ RequestIsTrue(request[s])
    BY DEF TypeOK, TrailInv
  <2>2. request[s].card \in Card /\ request[s].version \in Nat
    BY <1>2, <2>1, RequestTypes DEF Seeing
  <2>3. request[s].version <= version
    BY <1>2, <2>1 DEF RequestIsTrue, Seeing
  <2> QED
    BY <1>2, <2>2, <2>3 DEF Sight
<1> QED
  BY <1>1, <1>2, SightingIs

LEMMA OfferType ==
  ASSUME TypeOK, TrailInv, NEW id \in Offers
  PROVE  id \in ProposalId /\ id.revision \in Nat /\ id.revision <= version
<1>1. CASE id \in Ids(proposals)
  <2>1. PICK p \in proposals : id = Id(p)
    BY <1>1 DEF Ids
  <2>2. p \in Proposal /\ p.revision <= version
    BY DEF TypeOK, TrailInv
  <2> QED
    BY <2>1, <2>2 DEF Id, Proposal, ProposalId
<1>2. ASSUME NEW s \in Requests, request[s].op = "insert", id \in request[s].todo
      PROVE  id \in ProposalId /\ id.revision \in Nat /\ id.revision <= version
  <2>1. request[s] \in Request /\ RequestIsTrue(request[s])
    BY DEF TypeOK, TrailInv
  <2>2. request[s].todo \in SUBSET ProposalId
    BY <1>2, <2>1, RequestTypes
  <2> QED
    BY <1>2, <2>1, <2>2 DEF RequestIsTrue, ProposalId
<1> QED
  BY <1>1, <1>2, OfferIs

LEMMA InitGap == Init => GapInv
<1> SUFFICES ASSUME Init PROVE GapInv
  OBVIOUS
<1>1. \A r \in Requests : request[r].op = "idle"
  BY DEF Init, Idle
<1>2. \A a \in Sightings : a = Row
  BY <1>1, SightingIs DEF Seeing
<1>3. Offers = {}
  BY <1>1, OfferIs DEF Init, Ids
<1>4. \A a \in Sightings : a.card["title"] # Empty
  BY <1>2 DEF Row, Init
<1>5. DOMAIN revisions = {1} /\ revisions[1].source = "fallback" /\ proposals = {}
  BY DEF Init
<1>6. \A r \in Requests : RequestKeepsTitle(request[r])
  BY <1>1 DEF RequestKeepsTitle
<1>7. \A a, b \in Sightings : a = b
  BY <1>2
<1> QED
  BY <1>3, <1>4, <1>5, <1>6, <1>7 DEF GapInv

\* A step after which the row is the only new sighting keeps GapInv.
LEMMA GapKept ==
  ASSUME TypeOK, TypeOK', TrailInv, GapInv,
         \A a \in Sightings' : a \in Sightings \/ a = Row',
         \/ version' = version /\ \A f \in Fields \ {"title"} : fields'[f] = fields[f]
         \/ version' = version + 1,
         fields'["title"] # Empty,
         \A id \in Offers' : IsGap(id) /\ id \in ProposalId /\ id.revision <= version,
         \A p \in proposals' : p.status # "rejected",
         \A i \in DOMAIN revisions' : revisions'[i].source = "ai" =>
           "title" \notin DOMAIN revisions'[i].changes,
         \A s \in Requests : RequestKeepsTitle(request'[s])
  PROVE  GapInv'
<1>0. version \in Nat /\ Row \in Sightings /\ Row.version = version /\ Row.card = fields
  BY SightingIs DEF TypeOK, Row
<1>1. Row'.version = version' /\ Row'.card = fields'
  BY DEF Row
<1>2. \A a \in Sightings : a.version = version' => \A f \in Fields \ {"title"} : a.card[f] = fields'[f]
  <2> SUFFICES ASSUME NEW a \in Sightings, a.version = version', NEW f \in Fields \ {"title"}
               PROVE  a.card[f] = fields'[f]
    OBVIOUS
  <2>1. a.version \in Nat /\ a.version <= version
    BY SightingType
  <2>2. version' = version /\ fields'[f] = fields[f]
    BY <1>0, <2>1
  <2>3. a.card[f] = Row.card[f]
    BY <1>0, <2>2 DEF GapInv
  <2> QED
    BY <1>0, <2>2, <2>3
<1>3. \A a, b \in Sightings' : a.version = b.version =>
        \A f \in Fields \ {"title"} : a.card[f] = b.card[f]
  <2> SUFFICES ASSUME NEW a \in Sightings', NEW b \in Sightings', a.version = b.version,
                      NEW f \in Fields \ {"title"}
               PROVE  a.card[f] = b.card[f]
    OBVIOUS
  <2>1. CASE a \in Sightings /\ b \in Sightings
    BY <2>1 DEF GapInv
  <2>2. CASE a \in Sightings /\ b = Row'
    BY <1>1, <1>2, <2>2
  <2>3. CASE a = Row' /\ b \in Sightings
    BY <1>1, <1>2, <2>3
  <2> QED
    BY <2>1, <2>2, <2>3
<1>4. \A a \in Sightings' : a.card["title"] # Empty
  BY <1>1 DEF GapInv
<1>5. ASSUME NEW id \in Offers', NEW a \in Sightings', a.version = id.revision
      PROVE  a.card[id.field] = Empty
  <2>1. IsGap(id) /\ id \in ProposalId /\ id.revision <= version
    OBVIOUS
  <2>2. CASE a \in Sightings
    BY <1>5, <2>1, <2>2 DEF IsGap
  <2>3. CASE a = Row'
    <3>1. id.revision = version' /\ id.field \in Fields \ {"title"} /\ id.revision \in Nat
      BY <1>1, <1>5, <2>1, <2>3 DEF IsGap, ProposalId
    <3>2. version' = version /\ fields'[id.field] = fields[id.field]
      BY <1>0, <2>1, <3>1
    <3>3. Row.card[id.field] = Empty
      BY <1>0, <2>1, <3>1, <3>2 DEF IsGap
    <3> QED
      BY <1>0, <1>1, <2>3, <3>2, <3>3
  <2> QED
    BY <2>2, <2>3
<1>6. \A id \in Offers' : id.field # "title"
  BY DEF IsGap
<1> QED
  BY <1>3, <1>4, <1>5, <1>6 DEF GapInv

\* One request goes on; nothing else that GapInv speaks of changes for the worse.
LEMMA GapContinues ==
  ASSUME TypeOK, TypeOK', TrailInv, GapInv, NEW r \in Requests, NEW next \in Request,
         Continues(r, next), RequestKeepsTitle(next),
         Seeing(next) => Sight(next) \in Sightings,
         next.op = "insert" => \A id \in next.todo : IsGap(id) /\ id.revision <= version,
         \A id \in Ids(proposals') : id \in Offers
  PROVE  /\ \A a \in Sightings' : a \in Sightings \/ a = Row'
         /\ \A id \in Offers' : IsGap(id) /\ id \in ProposalId /\ id.revision <= version
         /\ \A s \in Requests : RequestKeepsTitle(request'[s])
<1>1. request'[r] = next /\ \A s \in Requests \ {r} : request'[s] = request[s]
  BY DEF Continues, TypeOK
<1>2. ASSUME NEW a \in Sightings' PROVE a \in Sightings \/ a = Row'
  <2>1. CASE a = Row'
    BY <2>1
  <2>2. ASSUME NEW s \in Requests, Seeing(request'[s]), a = Sight(request'[s])
        PROVE  a \in Sightings
    <3>1. CASE s = r
      BY <1>1, <2>2, <3>1
    <3>2. CASE s # r
      <4>1. Seeing(request[s]) /\ a = Sight(request[s])
        BY <1>1, <2>2, <3>2
      <4> QED
        BY <4>1, SightingIs
    <3> QED
      BY <3>1, <3>2
  <2> QED
    BY <2>1, <2>2, SightingIsPrime
<1>3. \A id \in Offers : IsGap(id) /\ id \in ProposalId /\ id.revision <= version
  BY OfferType DEF GapInv, IsGap
<1>4. ASSUME NEW id \in Offers'
      PROVE  id \in Offers \/ (next.op = "insert" /\ id \in next.todo)
  <2>1. ASSUME NEW s \in Requests, request'[s].op = "insert", id \in request'[s].todo
        PROVE  id \in Offers \/ (next.op = "insert" /\ id \in next.todo)
    <3>1. CASE s = r
      BY <1>1, <2>1, <3>1
    <3>2. CASE s # r
      BY <1>1, <2>1, <3>2, OfferIs
    <3> QED
      BY <3>1, <3>2
  <2> QED
    BY <2>1, OfferIsPrime
<1>5. next.op = "insert" => next.todo \in SUBSET ProposalId
  BY RequestTypes
<1>6. \A s \in Requests : RequestKeepsTitle(request'[s])
  BY <1>1 DEF GapInv
<1> QED
  BY <1>2, <1>3, <1>4, <1>5, <1>6

\* What a request goes on with after it has thought, as GapContinues wants it.
Careful(next) ==
  /\ RequestKeepsTitle(next)
  /\ Seeing(next) => Sight(next) \in Sightings
  /\ next.op = "insert" => \A id \in next.todo : IsGap(id) /\ id.revision <= version

LEMMA SeenIsSighted ==
  ASSUME TypeOK, GapInv, NEW r \in Requests, Seeing(request[r])
  PROVE  /\ Sight(request[r]) \in Sightings
         /\ Sight(request[r]).card = request[r].card
         /\ Sight(request[r]).version = request[r].version
         /\ request[r].card["title"] # Empty
<1>1. Sight(request[r]) \in Sightings
  BY SightingIs
<1>2. Sight(request[r]).card = request[r].card /\ Sight(request[r]).version = request[r].version
  BY DEF Sight
<1> QED
  BY <1>1, <1>2 DEF GapInv

LEMMA RowIsSighted ==
  ASSUME TypeOK, GapInv
  PROVE  Row \in Sightings /\ Row.card = fields /\ Row.version = version /\ fields["title"] # Empty
<1>1. Row \in Sightings /\ Row.card = fields /\ Row.version = version
  BY SightingIs DEF Row
<1> QED
  BY <1>1 DEF GapInv

\* A proposal for the version an apply has read is for a field it saw empty.
LEMMA CurrentAreFillable ==
  ASSUME TypeOK, GapInv, NEW r \in Requests, Seeing(request[r]),
         NEW S \in SUBSET Current(request[r].version)
  PROVE  Fillable(S, request[r].card) = S /\ \A p \in S : p.field # "title"
<1> SUFFICES ASSUME NEW p \in S
             PROVE  p.status = "pending" /\ p.field # "title" /\ request[r].card[p.field] = Empty
  BY DEF Fillable, Pending
<1>1. p \in proposals /\ p.status = "pending" /\ p.revision = request[r].version
  BY DEF Current, Pending
<1>2. Id(p) \in Offers /\ Id(p).field = p.field /\ Id(p).revision = p.revision
  <2>1. p \in Proposal
    BY <1>1 DEF TypeOK
  <2>2. Id(p) \in Ids(proposals)
    BY <1>1 DEF Ids
  <2> QED
    BY <2>2, OfferIs DEF Id
<1>3. p.field # "title"
  BY <1>2 DEF GapInv
<1>4. Sight(request[r]).card[p.field] = Empty
  BY <1>1, <1>2, SeenIsSighted DEF GapInv
<1> QED
  BY <1>1, <1>3, <1>4, SeenIsSighted

LEMMA ThinkGap ==
  ASSUME TypeOK, TrailInv, GapInv, NEW r \in Requests, Thinks(r)
  PROVE  \E next \in Request : Continues(r, next) /\ Careful(next)
<1>0. /\ request[r] \in Request /\ RequestIsTrue(request[r]) /\ RequestKeepsTitle(request[r])
      /\ version \in Nat /\ fields \in Card /\ "title" \in Fields
  BY FieldsAssumption DEF TypeOK, TrailInv, GapInv
<1>1. PICK next \in Request : Continues(r, next)
  BY ThinkType
<1>2. \A n : Continues(r, n) => n = next
  <2>1. r \in DOMAIN request
    BY DEF TypeOK
  <2> QED
    BY <1>1, <2>1 DEF Continues
<1>3. ASSUME NEW card \in Card, NEW source, NEW changes, card["title"] # Empty,
             source = "ai" => "title" \notin DOMAIN changes,
             "title" \in DOMAIN changes => changes["title"] # Empty, NEW accepts
      PROVE  Careful([op |-> "write", source |-> source, card |-> Patched(card, changes),
                      changes |-> changes, accepts |-> accepts])
  <2>1. Patched(card, changes)["title"] # Empty
    BY <1>0, <1>3 DEF Patched
  <2> QED
    BY <1>3, <2>1 DEF Careful, RequestKeepsTitle, KeepsTitle, Seeing
<1>4. Careful(Idle)
  BY DEF Careful, RequestKeepsTitle, Seeing, Idle
<1>5. CASE CorrectRead(r)
  <2>1. PICK F \in {G \in SUBSET Fields : Cardinality(G) \in 1 .. MaxPatch} :
          \E c \in [F -> FieldValue] :
            /\ "title" \in F => c["title"] # Empty
            /\ Loads(r, [op |-> "write", source |-> "user", card |-> Patched(fields, c),
                         changes |-> c, accepts |-> {}])
    BY <1>5, Zenon DEF CorrectRead
  <2>0. PICK changes \in [F -> FieldValue] :
          /\ "title" \in F => changes["title"] # Empty
          /\ Continues(r, [op |-> "write", source |-> "user", card |-> Patched(fields, changes),
                           changes |-> changes, accepts |-> {}])
    BY <2>1, Zenon DEF Loads, Continues
  <2>2. DOMAIN changes = F
    OBVIOUS
  <2>3. Careful([op |-> "write", source |-> "user", card |-> Patched(fields, changes),
                 changes |-> changes, accepts |-> {}])
    BY <1>0, <1>3, <2>0, <2>2, RowIsSighted
  <2> QED
    BY <1>1, <1>2, <2>0, <2>3
<1>6. CASE NoteRead(r) \/ RequestDies(r)
  <2>1. next = [op |-> "note"] \/ next = Idle
    BY <1>2, <1>6 DEF NoteRead, Loads, Continues, RequestDies
  <2> QED
    BY <1>1, <1>4, <2>1 DEF Careful, RequestKeepsTitle, Seeing
<1>7. CASE UndoRead(r)
  <2>1. next = [op |-> "undo", card |-> fields]
    BY <1>2, <1>7 DEF UndoRead, Loads, Continues
  <2> QED
    BY <1>1, <2>1, RowIsSighted DEF Careful, RequestKeepsTitle, Seeing
<1>8. CASE PreviewRead(r) \/ ApplyRead(r)
  <2>1. \E op \in {"preview", "apply"} : next = [op |-> op, card |-> fields, version |-> version]
    BY <1>2, <1>8 DEF PreviewRead, ApplyRead, Loads, Continues
  <2>2. Sight(next) = Row /\ next.op \in {"preview", "apply"}
    BY <2>1 DEF Sight, Row
  <2> QED
    BY <1>1, <2>2, RowIsSighted DEF Careful, RequestKeepsTitle
<1>9. CASE Generate(r)
  <2>1. Seeing(request[r])
    BY <1>9 DEF Generate, Seeing
  <2>2. PICK todo \in SUBSET [preview : {previews + 1}, field : Missing(request[r].card),
                              value : Values, revision : {request[r].version}] :
          Continues(r, [op |-> "insert", todo |-> todo])
    BY <1>9 DEF Generate
  <2>3. next.op = "insert" /\ next.todo = todo
    BY <1>2, <2>2
  <2>4. ASSUME NEW id \in todo PROVE IsGap(id) /\ id.revision <= version
    <3>1. id.field \in Fields /\ request[r].card[id.field] = Empty /\ id.revision = request[r].version
      BY <2>2 DEF Missing
    <3>2. id.revision <= version
      BY <1>0, <2>1, <3>1 DEF RequestIsTrue, Seeing
    <3>3. id.field # "title"
      BY <2>1, <3>1, SeenIsSighted
    <3>4. ASSUME NEW a \in Sightings, a.version = id.revision PROVE a.card[id.field] = Empty
      <4>1. a.card[id.field] = Sight(request[r]).card[id.field]
        BY <2>1, <3>1, <3>3, <3>4, SeenIsSighted DEF GapInv
      <4> QED
        BY <2>1, <3>1, <4>1, SeenIsSighted
    <3> QED
      BY <3>2, <3>3, <3>4 DEF IsGap
  <2> QED
    BY <1>1, <2>3, <2>4 DEF Careful, RequestKeepsTitle, Seeing
<1>10. CASE ApplyDecide(r)
  <2>0. Seeing(request[r]) /\ request[r].card \in Card
    BY <1>0, <1>10, RequestTypes DEF ApplyDecide, Seeing
  <2>1. PICK n :
          /\ Continues(r, n)
          /\ \/ \E id \in ProposalId : n = Marking({id}, "expired", Idle)
             \/ \E S \in SUBSET Current(request[r].version) :
                  \E changes \in Fillings(Fillable(S, request[r].card)) :
                    n = Marking(Ids(S \ Fillable(S, request[r].card)), "rejected",
                                Completion(request[r].card, Fillable(S, request[r].card),
                                           changes))
    BY <1>10, ApplyDecides
  <2>2. n = next
    BY <1>2, <2>1
  <2>3. CASE \E id \in ProposalId : n = Marking({id}, "expired", Idle)
    BY <1>1, <2>2, <2>3 DEF Careful, RequestKeepsTitle, Seeing, Marking, Idle
  <2>4. ASSUME NEW S \in SUBSET Current(request[r].version),
               NEW changes \in Fillings(Fillable(S, request[r].card)),
               n = Marking(Ids(S \ Fillable(S, request[r].card)), "rejected",
                           Completion(request[r].card, Fillable(S, request[r].card), changes))
        PROVE  Careful(next)
    <3>1. Fillable(S, request[r].card) = S /\ \A p \in S : p.field # "title"
      BY <2>0, CurrentAreFillable
    <3>2. S \ Fillable(S, request[r].card) = {}
      BY <3>1
    <3>3. Ids(S \ Fillable(S, request[r].card)) = {}
      BY <3>2 DEF Ids
    <3>4. n = Completion(request[r].card, S, changes)
      BY <2>4, <3>1, <3>3 DEF Marking
    <3>5. S \in SUBSET Proposal
      BY DEF Current, Pending, TypeOK
    <3>6. DOMAIN changes = {p.field : p \in S}
      BY <3>1, <3>5, FillingsType
    <3>7. "title" \notin DOMAIN changes
      BY <3>1, <3>6
    <3>8. request[r].card["title"] # Empty
      BY <2>0, SeenIsSighted
    <3>9. Careful([op |-> "write", source |-> "ai", card |-> Patched(request[r].card, changes),
                   changes |-> changes, accepts |-> Ids(S)])
      BY <1>3, <2>0, <3>7, <3>8
    <3> QED
      BY <1>4, <2>2, <3>4, <3>9 DEF Completion
  <2> QED
    BY <1>1, <2>1, <2>3, <2>4
<1>11. CASE UndoDecide(r)
  <2> DEFINE F == Revertible(request[r].card, revisions[LatestCompletion].changes)
             changes == [f \in F |-> Empty]
  <2>1. request[r].card \in Card /\ request[r].card["title"] # Empty
    BY <1>0, <1>11, RequestTypes DEF UndoDecide, RequestKeepsTitle
  <2>2. Continues(r, [op |-> "write", source |-> "undo",
                      card |-> Patched(request[r].card, changes),
                      changes |-> changes, accepts |-> {}])
    BY <1>11 DEF UndoDecide
  <2>3. "title" \notin DOMAIN changes
    <3>1. LatestCompletion \in Completions
      <4>1. PICK i \in Completions : \A j \in Completions : j <= i
        BY <1>11, LatestExists DEF TypeOK, UndoDecide
      <4> QED
        BY <4>1 DEF LatestCompletion
    <3>2. "title" \notin DOMAIN revisions[LatestCompletion].changes
      BY <3>1 DEF GapInv, Completions
    <3> QED
      BY <3>2 DEF Revertible
  <2>4. Careful([op |-> "write", source |-> "undo", card |-> Patched(request[r].card, changes),
                 changes |-> changes, accepts |-> {}])
    <3> HIDE DEF changes
    <3> QED
      BY <1>3, <2>1, <2>3
  <2> QED
    BY <1>1, <1>2, <2>2, <2>4
<1> QED
  BY <1>5, <1>6, <1>7, <1>8, <1>9, <1>10, <1>11 DEF Thinks

\* Steps that leave the card, its version and its trail alone.
LEMMA CarefulKeepsGap ==
  ASSUME TypeOK, TypeOK', TrailInv, GapInv, NEW r \in Requests, NEW next \in Request,
         Continues(r, next), Careful(next), UNCHANGED <<fields, version, revisions>>,
         \A id \in Ids(proposals') : id \in Offers, \A p \in proposals' : p.status # "rejected"
  PROVE  GapInv'
<1>1. /\ \A a \in Sightings' : a \in Sightings \/ a = Row'
      /\ \A id \in Offers' : IsGap(id) /\ id \in ProposalId /\ id.revision <= version
      /\ \A s \in Requests : RequestKeepsTitle(request'[s])
  BY GapContinues DEF Careful
<1>2. fields'["title"] # Empty
  BY RowIsSighted
<1>3. \A i \in DOMAIN revisions' : revisions'[i].source = "ai" =>
        "title" \notin DOMAIN revisions'[i].changes
  BY DEF GapInv
<1> QED
  BY <1>1, <1>2, <1>3, GapKept

LEMMA MovesGap ==
  ASSUME TypeOK, TypeOK', TrailInv, GapInv, NEW r \in Requests, Moves(r) PROVE GapInv'
<1>0. request[r] \in Request /\ RequestKeepsTitle(request[r])
  BY DEF TypeOK, GapInv
<1>1. PICK next \in Request : Continues(r, next)
  BY MoveType
<1>2. \A n : Continues(r, n) => n = next
  <2>1. r \in DOMAIN request
    BY DEF TypeOK
  <2> QED
    BY <1>1, <2>1 DEF Continues
<1>3. Careful(next)
  <2>1. CASE ExpireAllPending(r)
    <3>1. next = Idle \/ next = [request[r] EXCEPT !.op = "generate"]
      BY <1>2, <2>1 DEF ExpireAllPending
    <3>2. request[r] \in [op : {"preview"}, card : Card, version : Nat] /\ Seeing(request[r])
      BY <1>0, <2>1 DEF ExpireAllPending, Request, Write, Idle, Seeing
    <3>3. next = Idle \/ (next.op = "generate" /\ Sight(next) = Sight(request[r]))
      BY <3>1, <3>2 DEF Sight
    <3> QED
      BY <3>2, <3>3, SeenIsSighted DEF Careful, RequestKeepsTitle, Seeing, Idle
  <2>2. CASE Mark(r)
    <3>1. next = request[r].then /\ request[r].then \in {Idle} \cup Write
      BY <1>0, <1>2, <2>2, RequestTypes DEF Mark
    <3>2. next = Idle \/ (next.op = "write" /\ KeepsTitle(next))
      BY <1>0, <2>2, <3>1 DEF Mark, RequestKeepsTitle, Write
    <3> QED
      BY <3>2 DEF Careful, RequestKeepsTitle, Seeing, Idle
  <2> QED
    BY <2>1, <2>2 DEF Moves
<1>4. PICK s \in ProposalStatus : s # "rejected" /\ \E ids : proposals' = Moved(ids, s)
  <2>1. CASE Mark(r)
    BY <1>0, <2>1, RequestTypes DEF Mark, RequestKeepsTitle
  <2>2. CASE ExpireAllPending(r)
    BY <2>2 DEF ExpireAllPending, ProposalStatus
  <2> QED
    BY <2>1, <2>2 DEF Moves
<1>5. \A p \in proposals' : p.status # "rejected" /\ \E q \in proposals : Id(p) = Id(q)
  BY <1>4, MovedProposals DEF GapInv
<1>6. \A id \in Ids(proposals') : id \in Offers
  BY <1>5, OfferIs DEF Ids
<1>7. UNCHANGED <<fields, version, revisions>>
  BY DEF Moves, ExpireAllPending, Mark
<1> QED
  BY <1>1, <1>3, <1>5, <1>6, <1>7, CarefulKeepsGap

LEMMA InsertGap ==
  ASSUME TypeOK, TypeOK', TrailInv, GapInv, NEW r \in Requests, InsertProposal(r)
  PROVE  GapInv'
<1>0. request[r] \in [op : {"insert"}, todo : SUBSET ProposalId] /\ request[r].op = "insert"
  BY DEF TypeOK, InsertProposal, Request, Write, Idle
<1>1. PICK id \in request[r].todo :
        /\ proposals' = proposals \cup
             {[preview |-> id.preview, field |-> id.field, value |-> id.value,
               revision |-> id.revision, status |-> "pending"]}
        /\ Continues(r, IF request[r].todo = {id} THEN Idle
                        ELSE [request[r] EXCEPT !.todo = request[r].todo \ {id}])
  BY DEF InsertProposal
<1>2. \A i \in request[r].todo : i \in Offers
  BY <1>0, OfferIs
<1>3. PICK next \in Request : Continues(r, next) /\ Careful(next)
  <2> DEFINE rest == [op |-> "insert", todo |-> request[r].todo \ {id}]
  <2>1. [request[r] EXCEPT !.todo = request[r].todo \ {id}] = rest
    BY <1>0
  <2>2. rest \in Request
    BY <1>0, RequestMakes
  <2>3. Careful(rest)
    <3>1. \A i \in request[r].todo : IsGap(i) /\ i.revision <= version
      BY <1>2, OfferType DEF GapInv, IsGap
    <3> QED
      BY <3>1 DEF Careful, RequestKeepsTitle, Seeing
  <2>4. Careful(Idle)
    BY DEF Careful, RequestKeepsTitle, Seeing, Idle
  <2> QED
    BY <1>1, <2>1, <2>2, <2>3, <2>4, RequestMakes
<1>4. \A i \in Ids(proposals') : i \in Offers
  <2>1. id \in ProposalId
    BY <1>0
  <2>2. \A p \in proposals' : p \in proposals \/ Id(p) = id
    BY <1>1, <2>1 DEF Id, ProposalId
  <2> QED
    BY <1>2, <2>2, OfferIs DEF Ids
<1>5. \A p \in proposals' : p.status # "rejected"
  BY <1>1 DEF GapInv
<1>6. UNCHANGED <<fields, version, revisions>>
  BY DEF InsertProposal
<1> QED
  BY <1>3, <1>4, <1>5, <1>6, CarefulKeepsGap

LEMMA WriteGap ==
  ASSUME TypeOK, TypeOK', TrailInv, GapInv, NEW r \in Requests, AppendNote(r) \/ WriteRevision(r)
  PROVE  GapInv'
<1>0. /\ request[r] \in Request /\ RequestKeepsTitle(request[r]) /\ version' = version + 1
      /\ UNCHANGED proposals /\ revisions \in Seq(Revision)
  BY DEF TypeOK, GapInv, AppendNote, WriteRevision
<1>1. PICK next \in Request : Continues(r, next) /\ Careful(next)
  <2>1. Careful(Idle)
    BY DEF Careful, RequestKeepsTitle, Seeing, Idle
  <2>2. CASE AppendNote(r)
    BY <2>1, <2>2, RequestMakes DEF AppendNote
  <2>3. CASE WriteRevision(r)
    <3>1. request[r].accepts \in SUBSET ProposalId
      BY <1>0, <2>3, RequestTypes DEF WriteRevision, Write
    <3>2. Careful(Marking(request[r].accepts, "accepted", Idle))
      BY <2>1 DEF Marking, Careful, RequestKeepsTitle, Seeing, Idle
    <3> QED
      BY <2>3, <3>1, <3>2, RequestMakes DEF WriteRevision
  <2> QED
    BY <2>2, <2>3
<1>2. \A id \in Ids(proposals') : id \in Offers
  BY <1>0, OfferIs
<1>3. /\ \A a \in Sightings' : a \in Sightings \/ a = Row'
      /\ \A id \in Offers' : IsGap(id) /\ id \in ProposalId /\ id.revision <= version
      /\ \A s \in Requests : RequestKeepsTitle(request'[s])
  BY <1>1, <1>2, GapContinues DEF Careful
<1>4. /\ fields'["title"] # Empty
      /\ \E source, changes, from :
           /\ revisions' = Appended(source, changes, from)
           /\ changes \in Changes /\ from \in SUBSET ProposalId /\ source \in {"user", "ai", "undo"}
           /\ source = "ai" => "title" \notin DOMAIN changes
  <2>1. CASE AppendNote(r)
    <3>1. <<>> \in Changes
      BY DEF Changes
    <3>2. revisions' = Appended("user", <<>>, {}) /\ fields' = fields
      BY <2>1 DEF AppendNote
    <3> QED
      BY <3>1, <3>2, RowIsSighted
  <2>2. CASE WriteRevision(r)
    <3>1. request[r] \in Write /\ KeepsTitle(request[r])
      BY <1>0, <2>2, RequestTypes DEF WriteRevision, RequestKeepsTitle
    <3>2. /\ revisions' = Appended(request[r].source, request[r].changes, request[r].accepts)
          /\ fields' = request[r].card
      BY <2>2 DEF WriteRevision
    <3> QED
      BY <3>1, <3>2 DEF KeepsTitle, Write
  <2> QED
    BY <2>1, <2>2
<1>5. PICK source, changes, from :
        /\ revisions' = Appended(source, changes, from)
        /\ changes \in Changes /\ from \in SUBSET ProposalId /\ source \in {"user", "ai", "undo"}
        /\ source = "ai" => "title" \notin DOMAIN changes
  BY <1>4
<1>6. \A i \in DOMAIN revisions' : revisions'[i].source = "ai" =>
        "title" \notin DOMAIN revisions'[i].changes
  <2> DEFINE x == [version |-> version + 1, source |-> source, changes |-> changes, from |-> from]
  <2>1. x \in Revision /\ x.source = source /\ x.changes = changes
    BY <1>5 DEF Revision, TypeOK
  <2>2. revisions' = Append(revisions, x)
    BY <1>5 DEF Appended
  <2> HIDE DEF x
  <2>3. /\ Len(Append(revisions, x)) = Len(revisions) + 1
        /\ \A i \in 1 .. Len(revisions) : Append(revisions, x)[i] = revisions[i]
        /\ Append(revisions, x)[Len(revisions) + 1] = x
    BY <1>0, <2>1, AppendProperties
  <2>4. DOMAIN revisions' = 1 .. Len(revisions') /\ DOMAIN revisions = 1 .. Len(revisions)
    BY <1>0, LenProperties DEF TypeOK
  <2>5. Len(revisions) \in Nat
    BY <1>0, LenProperties
  <2>6. \A i \in DOMAIN revisions' : revisions'[i] = x \/
          (i \in DOMAIN revisions /\ revisions'[i] = revisions[i])
    BY <2>2, <2>3, <2>4, <2>5
  <2> QED
    BY <1>5, <2>1, <2>6 DEF GapInv
<1>7. \A p \in proposals' : p.status # "rejected"
  BY <1>0 DEF GapInv
<1> QED
  BY <1>0, <1>3, <1>4, <1>6, <1>7, GapKept

\* A transcript's title and a deletion leave requests and proposals alone.
LEMMA TitleGap ==
  ASSUME TypeOK, TypeOK', TrailInv, GapInv, NEW r \in Requests,
         UpdateCardTitle(r) \/ DeleteMemory(r)
  PROVE  GapInv'
<1>1. UNCHANGED <<version, revisions, proposals, request>>
  BY DEF UpdateCardTitle, DeleteMemory
<1>2. /\ fields'["title"] # Empty
      /\ \A f \in Fields \ {"title"} : fields'[f] = fields[f]
  <2>1. CASE UpdateCardTitle(r)
    BY <2>1, FieldsAssumption, ValuesAssumption DEF UpdateCardTitle, TypeOK, Card
  <2>2. CASE DeleteMemory(r)
    BY <2>2, RowIsSighted DEF DeleteMemory
  <2> QED
    BY <2>1, <2>2
<1>3. \A a \in Sightings' : a \in Sightings \/ a = Row'
  BY <1>1, SightingIs, SightingIsPrime
<1>4. \A id \in Offers' : IsGap(id) /\ id \in ProposalId /\ id.revision <= version
  <2>1. \A id \in Offers' : id \in Offers
    BY <1>1, OfferIs, OfferIsPrime
  <2> QED
    BY <2>1, OfferType DEF GapInv, IsGap
<1>5. /\ \A p \in proposals' : p.status # "rejected"
      /\ \A i \in DOMAIN revisions' : revisions'[i].source = "ai" =>
           "title" \notin DOMAIN revisions'[i].changes
      /\ \A s \in Requests : RequestKeepsTitle(request'[s])
  BY <1>1 DEF GapInv
<1> QED
  BY <1>1, <1>2, <1>3, <1>4, <1>5, GapKept

LEMMA StepGap == TypeOK /\ TrailInv /\ GapInv /\ [Next]_vars => GapInv'
<1> SUFFICES ASSUME TypeOK, TrailInv, GapInv, [Next]_vars PROVE GapInv'
  OBVIOUS
<1>0. TypeOK'
  BY StepType
<1>1. CASE UNCHANGED vars
  BY <1>1 DEF vars, GapInv, Sightings, Offers
<1>2. ASSUME NEW r \in Requests, RequestStep(r) PROVE GapInv'
  <2>1. CASE Thinks(r)
    <3>1. UNCHANGED <<fields, version, revisions, proposals>>
      BY <2>1 DEF Thinks, CorrectRead, NoteRead, PreviewRead, Generate, ApplyRead, ApplyDecide,
        UndoRead, UndoDecide, RequestDies
    <3>2. PICK next \in Request : Continues(r, next) /\ Careful(next)
      BY <2>1, ThinkGap
    <3>3. \A id \in Ids(proposals') : id \in Offers
      BY <3>1, OfferIs
    <3>4. \A p \in proposals' : p.status # "rejected"
      BY <3>1 DEF GapInv
    <3> QED
      BY <1>0, <3>1, <3>2, <3>3, <3>4, CarefulKeepsGap
  <2> QED
    BY <1>0, <1>2, <2>1, MovesGap, InsertGap, WriteGap, TitleGap DEF RequestStep, Thinks, Moves
<1> QED
  BY <1>1, <1>2 DEF Next

\* However requests overlap, no proposal for the card's current version is for
\* a field that has a value, and none is ever rejected for that.
THEOREM NothingIsRejected == Spec => []NothingToReject
<1>1. Init => TypeOK /\ TrailInv /\ GapInv
  BY InitType, InitTrail, InitGap
<1>2. TypeOK /\ TrailInv /\ GapInv /\ [Next]_vars => (TypeOK /\ TrailInv /\ GapInv)'
  BY StepType, StepTrail, StepGap
<1>3. TypeOK /\ GapInv => NothingToReject
  <2> SUFFICES ASSUME TypeOK, GapInv, NEW p \in proposals
               PROVE  /\ p.revision = version => fields[p.field] = Empty
                      /\ p.status # "rejected"
    BY DEF NothingToReject
  <2>1. Id(p) \in Offers /\ Id(p).revision = p.revision /\ Id(p).field = p.field
    BY OfferIs DEF Ids, Id
  <2> QED
    BY <2>1, RowIsSighted DEF GapInv
<1> QED
  BY <1>1, <1>2, <1>3, PTL DEF Spec

-----------------------------------------------------------------------------
(* Requests that do not overlap.                                           *)

LEMMA InitSerial == Init => SerialInv
<1> SUFFICES ASSUME Init PROVE SerialInv
  OBVIOUS
<1>1. /\ Len(revisions) = 1 /\ DOMAIN revisions = {1} /\ revisions[1].from = {}
      /\ revisions[1].changes = FirstChanges(fields) /\ proposals = {}
  BY DEF Init
<1>2. AppliesToItsVersion /\ OnePendingBatch
  BY <1>1 DEF AppliesToItsVersion, OnePendingBatch, Pending
<1>3. TrailExplainsCard
  <2> SUFFICES ASSUME NEW f \in Fields \ {"title"}, NEW i \in Tellings(f), i > 1 \/ f = "summary"
               PROVE  fields[f] = revisions[i].changes[f]
    BY DEF TrailExplainsCard
  <2>1. i = 1 /\ f = "summary" /\ f \in DOMAIN FirstChanges(fields)
    BY <1>1 DEF Tellings
  <2> QED
    BY <1>1, <2>1 DEF FirstChanges
<1>4. \A r \in Requests : SeesTheRow(request[r])
  BY DEF Init, SeesTheRow, Idle
<1> QED
  BY <1>2, <1>3, <1>4 DEF SerialInv

LEMMA OneRequest ==
  ASSUME TypeOK, OneAtATime, NEW r \in Requests, NEW next, Continues(r, next)
  PROVE  \A s \in Requests : request'[s] = next
BY DEF TypeOK, OneAtATime, Continues

LEMMA LatestStays == ASSUME UNCHANGED revisions PROVE LatestCompletion' = LatestCompletion
<1>1. Completions' = Completions
  BY DEF Completions
<1> QED
  BY <1>1 DEF LatestCompletion

LEMMA StillSees ==
  ASSUME NEW q, SeesTheRow(q), UNCHANGED <<fields, version, revisions, proposals, previews>>
  PROVE  SeesTheRow(q)'
BY LatestStays DEF SeesTheRow, PatchesTheRow, Pending

\* What a completion is about to write, when it has been decided on the row as
\* it is.
LEMMA CompletionPatches ==
  ASSUME TypeOK, NEW S \in SUBSET Current(version), NEW changes \in Fillings(Fillable(S, fields)),
         Completion(fields, Fillable(S, fields), changes).op = "write"
  PROVE  PatchesTheRow(Completion(fields, Fillable(S, fields), changes))
<1> DEFINE T == Fillable(S, fields)
           w == Completion(fields, T, changes)
<1>1. S \in SUBSET Proposal /\ T \in SUBSET Proposal /\ \A p \in T : p.revision = version
  BY DEF Current, Pending, TypeOK, Fillable
<1>2. T # {}
  BY DEF Completion, Idle
<1>3. w = [op |-> "write", source |-> "ai", card |-> Patched(fields, changes),
           changes |-> changes, accepts |-> Ids(T)]
  BY <1>2 DEF Completion
<1>4. DOMAIN changes = {p.field : p \in T}
  BY <1>1, FillingsType
<1>5. \A f \in DOMAIN changes : fields[f] = Empty
  BY <1>4 DEF Fillable
<1>6. \A id \in Ids(T) : id.revision = version
  BY <1>1 DEF Ids, Id
<1> HIDE DEF T, w
<1> QED
  BY <1>3, <1>5, <1>6 DEF PatchesTheRow, w, T

\* The steps of a request in which it only goes on, but for the model's answer.
LEMMA ThinkSees ==
  ASSUME TypeOK, NEW r \in Requests, SeesTheRow(request[r]), Thinks(r), ~Generate(r)
  PROVE  \E next : Continues(r, next) /\ SeesTheRow(next)
<1>1. CASE CorrectRead(r)
  <2>1. PICK changes :
          Continues(r, [op |-> "write", source |-> "user", card |-> Patched(fields, changes),
                        changes |-> changes, accepts |-> {}])
    BY <1>1 DEF CorrectRead, Loads, Continues
  <2> DEFINE w == [op |-> "write", source |-> "user", card |-> Patched(fields, changes),
                   changes |-> changes, accepts |-> {}]
  <2>2. SeesTheRow(w)
    BY DEF SeesTheRow, PatchesTheRow
  <2> QED
    BY <2>1, <2>2
<1>2. CASE NoteRead(r)
  <2>1. Continues(r, [op |-> "note"])
    BY <1>2 DEF NoteRead, Loads, Continues
  <2>2. SeesTheRow([op |-> "note"])
    BY DEF SeesTheRow
  <2> QED
    BY <2>1, <2>2
<1>3. CASE PreviewRead(r)
  <2> DEFINE q == [op |-> "preview", card |-> fields, version |-> version]
  <2>1. Continues(r, q)
    BY <1>3 DEF PreviewRead, Loads, Continues
  <2>2. SeesTheRow(q)
    BY DEF SeesTheRow
  <2> QED
    BY <2>1, <2>2
<1>4. CASE ApplyRead(r)
  <2> DEFINE q == [op |-> "apply", card |-> fields, version |-> version]
  <2>1. Continues(r, q)
    BY <1>4 DEF ApplyRead, Loads, Continues
  <2>2. SeesTheRow(q)
    BY DEF SeesTheRow
  <2> QED
    BY <2>1, <2>2
<1>5. CASE ApplyDecide(r)
  <2>1. request[r].card = fields /\ request[r].version = version
    BY <1>5 DEF ApplyDecide, SeesTheRow
  <2>2. PICK next :
          /\ Continues(r, next)
          /\ \/ \E id \in ProposalId : next = Marking({id}, "expired", Idle)
             \/ \E S \in SUBSET Current(version) :
                  \E changes \in Fillings(Fillable(S, fields)) :
                    next = Marking(Ids(S \ Fillable(S, fields)), "rejected",
                                   Completion(fields, Fillable(S, fields), changes))
    BY <1>5, <2>1, ApplyDecides
  <2>3. CASE \E id \in ProposalId : next = Marking({id}, "expired", Idle)
    BY <2>2, <2>3 DEF Marking, Idle, SeesTheRow
  <2>4. ASSUME NEW S \in SUBSET Current(version), NEW changes \in Fillings(Fillable(S, fields)),
               next = Marking(Ids(S \ Fillable(S, fields)), "rejected",
                              Completion(fields, Fillable(S, fields), changes))
        PROVE  SeesTheRow(next)
    <3> DEFINE w == Completion(fields, Fillable(S, fields), changes)
    <3>1. w.op = "write" => PatchesTheRow(w)
      BY CompletionPatches
    <3>2. w.op \in {"idle", "write"}
      BY DEF Completion, Idle
    <3> HIDE DEF w
    <3>3. \/ next = w
          \/ next.op = "mark" /\ next.then = w
      BY <2>4, MarkingIs DEF w
    <3> QED
      BY <3>1, <3>2, <3>3 DEF SeesTheRow
  <2> QED
    BY <2>2, <2>3, <2>4
<1>6. CASE UndoRead(r)
  <2> DEFINE q == [op |-> "undo", card |-> fields]
  <2>1. Continues(r, q)
    BY <1>6 DEF UndoRead, Loads, Continues
  <2>2. SeesTheRow(q)
    BY DEF SeesTheRow
  <2> QED
    BY <2>1, <2>2
<1>7. CASE UndoDecide(r)
  <2> DEFINE F == Revertible(fields, revisions[LatestCompletion].changes)
             changes == [f \in F |-> Empty]
             w == [op |-> "write", source |-> "undo", card |-> Patched(fields, changes),
                   changes |-> changes, accepts |-> {}]
  <2>1. request[r].card = fields
    BY <1>7 DEF UndoDecide, SeesTheRow
  <2>2. Continues(r, w)
    BY <1>7, <2>1 DEF UndoDecide
  <2>3. \A f \in F : fields[f] = revisions[LatestCompletion].changes[f]
    BY DEF Revertible
  <2>4. DOMAIN changes = F
    OBVIOUS
  <2> HIDE DEF F, changes
  <2>5. SeesTheRow(w)
    BY <2>3, <2>4 DEF SeesTheRow, PatchesTheRow
  <2> QED
    BY <2>2, <2>5
<1>8. CASE RequestDies(r)
  BY <1>8 DEF RequestDies, SeesTheRow, Idle
<1> QED
  BY <1>1, <1>2, <1>3, <1>4, <1>5, <1>6, <1>7, <1>8 DEF Thinks

LEMMA ThinkSerial ==
  ASSUME TypeOK, OneAtATime, SerialInv, NEW r \in Requests, Thinks(r)
  PROVE  SerialInv'
<1>1. UNCHANGED <<fields, version, revisions, proposals>>
  BY DEF Thinks, CorrectRead, NoteRead, PreviewRead, Generate, ApplyRead, ApplyDecide, UndoRead,
    UndoDecide, RequestDies
<1>2. AppliesToItsVersion' /\ OnePendingBatch' /\ TrailExplainsCard'
  BY <1>1 DEF SerialInv, AppliesToItsVersion, OnePendingBatch, Pending, TrailExplainsCard, Tellings
<1>3. \E next : Continues(r, next) /\ SeesTheRow(next)'
  <2>1. CASE Generate(r)
    <3>1. PICK todo \in SUBSET [preview : {previews + 1}, field : Missing(request[r].card),
                                value : Values, revision : {request[r].version}] :
            Continues(r, [op |-> "insert", todo |-> todo])
      BY <2>1 DEF Generate
    <3>2. previews' = previews + 1 /\ Pending(proposals) = {}
      BY <2>1 DEF Generate, SerialInv, SeesTheRow
    <3>3. Pending(proposals)' = {}
      BY <1>1, <3>2 DEF Pending
    <3> DEFINE q == [op |-> "insert", todo |-> todo]
    <3>4. \A id \in todo : id.preview = previews'
      BY <3>2
    <3>5. SeesTheRow(q)'
      BY <3>3, <3>4 DEF SeesTheRow
    <3> QED
      BY <3>1, <3>5
  <2>2. CASE ~Generate(r)
    <3>1. UNCHANGED previews
      BY <2>2 DEF Thinks, CorrectRead, NoteRead, PreviewRead, ApplyRead, ApplyDecide, UndoRead,
        UndoDecide, RequestDies
    <3>2. PICK next : Continues(r, next) /\ SeesTheRow(next)
      BY <2>2, ThinkSees DEF SerialInv
    <3> QED
      BY <1>1, <3>1, <3>2, StillSees
  <2> QED
    BY <2>1, <2>2
<1>4. \A s \in Requests : SeesTheRow(request[s])'
  BY <1>3, OneRequest
<1> QED
  BY <1>2, <1>4 DEF SerialInv

\* Marking proposals leaves of those that are pending a part.
LEMMA PendingShrinks ==
  ASSUME TypeOK, NEW ids, NEW s \in ProposalStatus \ {"pending"}, NEW p \in Pending(Moved(ids, s))
  PROVE  p \in Pending(proposals) /\ Id(p) \notin ids
<1>1. p \in Moved(ids, s) /\ p.status = "pending"
  BY DEF Pending
<1>2. PICK q \in proposals :
        p = IF Id(q) \in ids /\ q.status = "pending" THEN [q EXCEPT !.status = s] ELSE q
  BY <1>1 DEF Moved
<1>3. q \in Proposal /\ s \in ProposalStatus
  BY DEF TypeOK
<1>4. ~(Id(q) \in ids /\ q.status = "pending")
  BY <1>1, <1>2, <1>3, ProposalFields
<1> QED
  BY <1>1, <1>2, <1>4 DEF Pending

LEMMA MovesSerial ==
  ASSUME TypeOK, OneAtATime, SerialInv, NEW r \in Requests, Moves(r)
  PROVE  SerialInv'
<1>0. request[r] \in Request /\ SeesTheRow(request[r])
  BY DEF TypeOK, SerialInv
<1>1. UNCHANGED <<fields, version, revisions, previews>>
  BY DEF Moves, ExpireAllPending, Mark
<1>2. AppliesToItsVersion' /\ TrailExplainsCard'
  BY <1>1 DEF SerialInv, AppliesToItsVersion, TrailExplainsCard, Tellings
<1>3. PICK s \in ProposalStatus \ {"pending"} : \E ids : proposals' = Moved(ids, s)
  BY <1>0, RequestTypes DEF Moves, ExpireAllPending, Mark, ProposalStatus, Request, Write, Idle
<1>4. Pending(proposals)' \subseteq Pending(proposals)
  BY <1>3, PendingShrinks DEF Pending
<1>5. OnePendingBatch'
  BY <1>4 DEF SerialInv, OnePendingBatch
<1>6. \E next : Continues(r, next) /\ SeesTheRow(next)'
  <2>1. CASE ExpireAllPending(r)
    <3>1. Continues(r, IF Missing(request[r].card) = {} THEN Idle
                       ELSE [request[r] EXCEPT !.op = "generate"])
      BY <2>1 DEF ExpireAllPending
    <3>2. request[r] \in [op : {"preview"}, card : Card, version : Nat]
      BY <1>0, <2>1 DEF ExpireAllPending, Request, Write, Idle
    <3>3. request[r].card = fields /\ request[r].version = version
      BY <1>0, <2>1 DEF ExpireAllPending, SeesTheRow
    <3> DEFINE q == [op |-> "generate", card |-> fields, version |-> version]
    <3>4. [request[r] EXCEPT !.op = "generate"] = q
      BY <3>2, <3>3
    <3>5. Pending(proposals)' = {}
      <4>1. proposals' = Moved(AllIds, "expired")
        BY <2>1 DEF ExpireAllPending
      <4>2. \A p \in Pending(proposals') : p \in Pending(proposals) /\ Id(p) \notin AllIds
        BY <4>1, PendingShrinks DEF ProposalStatus
      <4>3. \A p \in Pending(proposals) : Id(p) \in AllIds
        BY DEF Pending, AllIds, Ids
      <4> QED
        BY <4>2, <4>3 DEF Pending
    <3>6. PICK next : next = q
      OBVIOUS
    <3>7. SeesTheRow(next)'
      BY <1>1, <3>5, <3>6 DEF SeesTheRow
    <3>8. SeesTheRow(Idle)'
      BY DEF SeesTheRow, Idle
    <3>9. Continues(r, Idle) \/ Continues(r, next)
      BY <3>1, <3>4, <3>6, Zenon
    <3> QED
      BY <3>7, <3>8, <3>9, Zenon
  <2>2. CASE Mark(r)
    <3>1. Continues(r, request[r].then) /\ request[r].op = "mark"
      BY <2>2 DEF Mark
    <3>2. request[r].then \in {Idle} \cup Write
      BY <1>0, <3>1, RequestTypes
    <3>3. request[r].then.op = "write" => PatchesTheRow(request[r].then)
      BY <1>0, <3>1 DEF SeesTheRow
    <3>4. PICK next : next = request[r].then
      OBVIOUS
    <3>5. PatchesTheRow(next) => PatchesTheRow(next)'
      BY <1>1, LatestStays DEF PatchesTheRow
    <3>6. next.op \in {"idle", "write"}
      BY <3>2, <3>4 DEF Idle, Write
    <3>7. SeesTheRow(next)'
      BY <3>3, <3>4, <3>5, <3>6 DEF SeesTheRow
    <3> QED
      BY <3>1, <3>4, <3>7
  <2> QED
    BY <2>1, <2>2 DEF Moves
<1>7. \A q \in Requests : SeesTheRow(request[q])'
  BY <1>6, OneRequest
<1> QED
  BY <1>2, <1>5, <1>7 DEF SerialInv

LEMMA InsertSerial ==
  ASSUME TypeOK, OneAtATime, SerialInv, NEW r \in Requests, InsertProposal(r)
  PROVE  SerialInv'
<1>0. request[r] \in [op : {"insert"}, todo : SUBSET ProposalId] /\ SeesTheRow(request[r])
  BY DEF TypeOK, InsertProposal, Request, Write, Idle, SerialInv
<1>1. UNCHANGED <<fields, version, live, revisions, previews>>
  BY DEF InsertProposal
<1>2. AppliesToItsVersion' /\ TrailExplainsCard'
  BY <1>1 DEF SerialInv, AppliesToItsVersion, TrailExplainsCard, Tellings
<1>3. PICK id \in request[r].todo :
        /\ proposals' = proposals \cup
             {[preview |-> id.preview, field |-> id.field, value |-> id.value,
               revision |-> id.revision, status |-> "pending"]}
        /\ Continues(r, IF request[r].todo = {id} THEN Idle
                        ELSE [request[r] EXCEPT !.todo = request[r].todo \ {id}])
  BY DEF InsertProposal
<1>4. /\ \A i \in request[r].todo : i.preview = previews
      /\ \A p \in Pending(proposals) : p.preview = previews
  BY <1>0 DEF SeesTheRow
<1>5. \A p \in Pending(proposals') : p.preview = previews
  BY <1>3, <1>4 DEF Pending
<1>6. OnePendingBatch'
  BY <1>5 DEF OnePendingBatch, Pending
<1> DEFINE rest == [op |-> "insert", todo |-> request[r].todo \ {id}]
<1>7. [request[r] EXCEPT !.todo = request[r].todo \ {id}] = rest
  BY <1>0
<1>8. PICK next : next = rest
  OBVIOUS
<1>9. /\ \A i \in next.todo : i.preview = previews'
      /\ next.op = "insert"
      /\ \A p \in Pending(proposals') : p.preview = previews'
  BY <1>1, <1>4, <1>5, <1>8
<1>10. SeesTheRow(next)'
  BY <1>9 DEF SeesTheRow, Pending
<1>11. SeesTheRow(Idle)'
  BY DEF SeesTheRow, Idle
<1>12. Continues(r, Idle) \/ Continues(r, next)
  BY <1>3, <1>7, <1>8, Zenon
<1>13. \A q \in Requests : SeesTheRow(request[q])'
  BY <1>10, <1>11, <1>12, OneRequest
<1> QED
  BY <1>2, <1>6, <1>13 DEF SerialInv

\* A revision that says what becomes of the row, made for the row as it was.
LEMMA RevisionSerial ==
  ASSUME TypeOK, TrailInv, AppliesToItsVersion, TrailExplainsCard, NEW x \in Revision,
         revisions' = Append(revisions, x), fields' = Patched(fields, x.changes),
         \A id \in x.from : id.revision = version
  PROVE  AppliesToItsVersion' /\ TrailExplainsCard'
<1>1. /\ revisions \in Seq(Revision) /\ version = Len(revisions) /\ Len(revisions) \in Nat
      /\ DOMAIN revisions = 1 .. Len(revisions)
  BY LenProperties DEF TypeOK, TrailInv, VersionCountsRevisions
<1>2. /\ DOMAIN revisions' = 1 .. Len(revisions) + 1
      /\ \A i \in 1 .. Len(revisions) : revisions'[i] = revisions[i]
      /\ revisions'[Len(revisions) + 1] = x
  BY <1>1, AppendProperties
<1>3. AppliesToItsVersion'
  BY <1>1, <1>2 DEF AppliesToItsVersion
<1>4. ASSUME NEW f \in Fields \ {"title"}, NEW i \in Tellings(f)', i > 1 \/ f = "summary",
             \A j \in Tellings(f)' : j <= i
      PROVE  fields'[f] = revisions'[i].changes[f]
  <2>1. \A j : j \in Tellings(f)' <=>
          \/ j \in Tellings(f)
          \/ j = Len(revisions) + 1 /\ f \in DOMAIN x.changes
    BY <1>1, <1>2 DEF Tellings
  <2>2. CASE f \in DOMAIN x.changes
    <3>1. i = Len(revisions) + 1
      BY <1>1, <1>2, <1>4, <2>1, <2>2 DEF Tellings
    <3> QED
      BY <1>2, <2>2, <3>1 DEF Patched
  <2>3. CASE f \notin DOMAIN x.changes
    <3>1. i \in Tellings(f) /\ \A j \in Tellings(f) : j <= i
      BY <1>4, <2>1, <2>3
    <3>2. fields[f] = revisions[i].changes[f]
      BY <1>4, <3>1 DEF TrailExplainsCard
    <3>3. revisions'[i] = revisions[i]
      BY <1>1, <1>2, <3>1 DEF Tellings
    <3> QED
      BY <2>3, <3>2, <3>3 DEF Patched
  <2> QED
    BY <2>2, <2>3
<1>5. TrailExplainsCard'
  BY <1>4 DEF TrailExplainsCard
<1> QED
  BY <1>3, <1>5

LEMMA WriteSerial ==
  ASSUME TypeOK, TrailInv, OneAtATime, SerialInv, NEW r \in Requests,
         AppendNote(r) \/ WriteRevision(r)
  PROVE  SerialInv'
<1>0. request[r] \in Request /\ SeesTheRow(request[r]) /\ version \in Nat /\ fields \in Card
  BY DEF TypeOK, SerialInv
<1>1. UNCHANGED proposals
  BY DEF AppendNote, WriteRevision
<1>2. OnePendingBatch'
  BY <1>1 DEF SerialInv, OnePendingBatch, Pending
<1>3. AppliesToItsVersion' /\ TrailExplainsCard'
  <2>1. CASE AppendNote(r)
    <3> DEFINE x == [version |-> version + 1, source |-> "user", changes |-> <<>>, from |-> {}]
    <3>1. <<>> \in Changes
      BY DEF Changes
    <3>2. x \in Revision
      BY <1>0, <3>1 DEF Revision
    <3>3. revisions' = Append(revisions, x) /\ fields' = fields
      BY <2>1 DEF AppendNote, Appended
    <3>4. Patched(fields, <<>>) = fields
      BY <1>0 DEF Patched, Card
    <3>5. x.changes = <<>> /\ x.from = {}
      OBVIOUS
    <3> HIDE DEF x
    <3> QED
      BY <3>2, <3>3, <3>4, <3>5, RevisionSerial DEF SerialInv
  <2>2. CASE WriteRevision(r)
    <3> DEFINE w == request[r]
               x == [version |-> version + 1, source |-> w.source, changes |-> w.changes,
                     from |-> w.accepts]
    <3>1. w \in Write /\ PatchesTheRow(w)
      BY <1>0, <2>2, RequestTypes DEF WriteRevision, SeesTheRow
    <3>2. x \in Revision /\ x.changes = w.changes /\ x.from = w.accepts
      BY <1>0, <3>1 DEF Revision, Write
    <3>3. revisions' = Append(revisions, x) /\ fields' = w.card
      BY <2>2 DEF WriteRevision, Appended
    <3> HIDE DEF x, w
    <3>4. fields' = Patched(fields, x.changes) /\ \A id \in x.from : id.revision = version
      BY <3>1, <3>2, <3>3 DEF PatchesTheRow
    <3> QED
      BY <3>2, <3>3, <3>4, RevisionSerial DEF SerialInv
  <2> QED
    BY <2>1, <2>2
<1>4. \E next : Continues(r, next) /\ SeesTheRow(next)'
  <2>1. SeesTheRow(Idle)'
    BY DEF SeesTheRow, Idle
  <2>2. CASE AppendNote(r)
    BY <2>1, <2>2 DEF AppendNote
  <2>3. CASE WriteRevision(r)
    <3>1. PICK next : next = Marking(request[r].accepts, "accepted", Idle)
      OBVIOUS
    <3>2. Continues(r, next)
      BY <2>3, <3>1 DEF WriteRevision
    <3>3. next = Idle \/ (next.op = "mark" /\ next.then = Idle)
      BY <3>1, MarkingIs
    <3>4. SeesTheRow(next)'
      BY <2>1, <3>3 DEF SeesTheRow, Idle
    <3> QED
      BY <3>2, <3>4
  <2> QED
    BY <2>2, <2>3
<1>5. \A q \in Requests : SeesTheRow(request[q])'
  BY <1>4, OneRequest
<1> QED
  BY <1>2, <1>3, <1>5 DEF SerialInv

\* A transcript's title and a deletion come when no request is on its way.
LEMMA TitleSerial ==
  ASSUME TypeOK, OneAtATime, SerialInv, NEW r \in Requests, UpdateCardTitle(r) \/ DeleteMemory(r)
  PROVE  SerialInv'
<1>1. UNCHANGED <<version, revisions, proposals, previews, request>>
  BY DEF UpdateCardTitle, DeleteMemory
<1>2. \A f \in Fields \ {"title"} : fields'[f] = fields[f]
  BY FieldsAssumption DEF UpdateCardTitle, DeleteMemory, TypeOK, Card
<1>3. AppliesToItsVersion' /\ OnePendingBatch' /\ TrailExplainsCard'
  BY <1>1, <1>2 DEF SerialInv, AppliesToItsVersion, OnePendingBatch, Pending, TrailExplainsCard,
    Tellings
<1>4. \A q \in Requests : request'[q] = Idle
  BY <1>1 DEF UpdateCardTitle, DeleteMemory, OneAtATime
<1>5. \A q \in Requests : SeesTheRow(request[q])'
  BY <1>4 DEF SeesTheRow, Idle
<1> QED
  BY <1>3, <1>5 DEF SerialInv

LEMMA StepSerial == OneAtATime /\ TypeOK /\ TrailInv /\ SerialInv /\ [Next]_vars => SerialInv'
<1> SUFFICES ASSUME OneAtATime, TypeOK, TrailInv, SerialInv, [Next]_vars PROVE SerialInv'
  OBVIOUS
<1>1. CASE UNCHANGED vars
  <2>1. AppliesToItsVersion' /\ OnePendingBatch' /\ TrailExplainsCard'
    BY <1>1 DEF vars, SerialInv, AppliesToItsVersion, OnePendingBatch, Pending,
      TrailExplainsCard, Tellings
  <2>2. \A r \in Requests : SeesTheRow(request[r])'
    <3> SUFFICES ASSUME NEW r \in Requests PROVE SeesTheRow(request[r])'
      OBVIOUS
    <3>1. PICK q : q = request[r]
      OBVIOUS
    <3>2. SeesTheRow(q)'
      BY <1>1, <3>1, StillSees DEF SerialInv, vars
    <3>3. request'[r] = q
      BY <1>1, <3>1 DEF vars
    <3> QED
      BY <3>2, <3>3
  <2> QED
    BY <2>1, <2>2 DEF SerialInv
<1>2. ASSUME NEW r \in Requests, RequestStep(r) PROVE SerialInv'
  BY <1>2, ThinkSerial, MovesSerial, InsertSerial, WriteSerial, TitleSerial
    DEF RequestStep, Thinks, Moves
<1> QED
  BY <1>1, <1>2 DEF Next

LEMMA SerialInvariant == OneAtATime => (Spec => [](TypeOK /\ TrailInv /\ SerialInv))
<1> SUFFICES ASSUME OneAtATime PROVE Spec => [](TypeOK /\ TrailInv /\ SerialInv)
  OBVIOUS
<1>1. Init => TypeOK /\ TrailInv /\ SerialInv
  BY InitType, InitTrail, InitSerial
<1>2. TypeOK /\ TrailInv /\ SerialInv /\ [Next]_vars => (TypeOK /\ TrailInv /\ SerialInv)'
  BY StepType, StepTrail, StepSerial
<1> QED
  BY <1>1, <1>2, PTL DEF Spec

\* When requests do not overlap, the trail explains the card: every field but
\* the title holds what the latest revision of it says.
THEOREM TrailIsTheCard == OneAtATime => (Spec => []TrailExplainsCard)
<1> SUFFICES ASSUME OneAtATime PROVE Spec => []TrailExplainsCard
  OBVIOUS
<1>1. SerialInv => TrailExplainsCard
  BY DEF SerialInv
<1> QED
  BY <1>1, SerialInvariant, PTL

\* When requests do not overlap, a completion writes only proposals that were
\* made for the version it replaces.
THEOREM CompletionsFitTheirVersion == OneAtATime => (Spec => []AppliesToItsVersion)
<1> SUFFICES ASSUME OneAtATime PROVE Spec => []AppliesToItsVersion
  OBVIOUS
<1>1. SerialInv => AppliesToItsVersion
  BY DEF SerialInv
<1> QED
  BY <1>1, SerialInvariant, PTL

\* When requests do not overlap, no proposal is written twice, not even by a
\* retry after a request that died before it accepted the proposals.
THEOREM NothingIsAppliedTwice == OneAtATime => (Spec => []AppliedOnce)
<1> SUFFICES ASSUME OneAtATime PROVE Spec => []AppliedOnce
  OBVIOUS
<1>1. TypeOK /\ SerialInv => AppliedOnce
  <2> SUFFICES ASSUME TypeOK, SerialInv, NEW i \in DOMAIN revisions, NEW j \in DOMAIN revisions,
                      NEW id \in revisions[i].from \cap revisions[j].from
               PROVE  i = j
    BY DEF AppliedOnce
  <2> QED
    BY DEF SerialInv, AppliesToItsVersion
<1> QED
  BY <1>1, SerialInvariant, PTL

\* When requests do not overlap, the pending proposals are of one preview,
\* even if the insertion of a batch was cut short.
THEOREM OneBatchIsPending == OneAtATime => (Spec => []OnePendingBatch)
<1> SUFFICES ASSUME OneAtATime PROVE Spec => []OnePendingBatch
  OBVIOUS
<1>1. SerialInv => OnePendingBatch
  BY DEF SerialInv
<1> QED
  BY <1>1, SerialInvariant, PTL

\* Only the write of a decided change can be a completion or an undo.
LEMMA TrailingIsWrite ==
  ASSUME TypeOK, Next, NEW source \in {"ai", "undo"}, Trailing(source)
  PROVE  \E r \in Requests : WriteRevision(r) /\ request[r].source = source
<1>0. revisions \in Seq(Revision) /\ Len(revisions) \in Nat /\ Len(revisions') = Len(revisions) + 1
  BY LenProperties DEF TypeOK, Trailing
<1>1. PICK r \in Requests : RequestStep(r)
  BY DEF Next
<1>2. UNCHANGED revisions \/ AppendNote(r) \/ WriteRevision(r)
  BY <1>1 DEF RequestStep, CorrectRead, NoteRead, PreviewRead, ExpireAllPending, Generate,
    InsertProposal, ApplyRead, ApplyDecide, Mark, UndoRead, UndoDecide, RequestDies,
    UpdateCardTitle, DeleteMemory
<1>3. ASSUME NEW x, revisions' = Append(revisions, x), x \in Revision PROVE x.source = source
  BY <1>0, <1>3, AppendProperties DEF Trailing
<1>4. ~ UNCHANGED revisions
  BY <1>0
<1>5. ~ AppendNote(r)
  <2> SUFFICES ASSUME AppendNote(r) PROVE FALSE
    OBVIOUS
  <2> DEFINE x == [version |-> version + 1, source |-> "user", changes |-> <<>>, from |-> {}]
  <2>1. <<>> \in Changes
    BY DEF Changes
  <2>2. x \in Revision /\ x.source = "user"
    BY <2>1 DEF Revision, TypeOK
  <2>3. revisions' = Append(revisions, x)
    BY DEF AppendNote, Appended
  <2> HIDE DEF x
  <2> QED
    BY <1>3, <2>2, <2>3
<1>6. WriteRevision(r) => request[r].source = source
  <2> SUFFICES ASSUME WriteRevision(r) PROVE request[r].source = source
    OBVIOUS
  <2> DEFINE w == request[r]
             x == [version |-> version + 1, source |-> w.source, changes |-> w.changes,
                   from |-> w.accepts]
  <2>1. w \in Write
    BY RequestTypes DEF WriteRevision, TypeOK
  <2>2. x \in Revision /\ x.source = w.source
    BY <2>1 DEF Revision, Write, TypeOK
  <2>3. revisions' = Append(revisions, x)
    BY DEF WriteRevision, Appended
  <2> HIDE DEF x
  <2> QED
    BY <1>3, <2>2, <2>3
<1> QED
  BY <1>2, <1>4, <1>5, <1>6

\* The row after the write of a completion or an undo.
LEMMA WriteIsPatch ==
  ASSUME TypeOK, SerialInv, NEW r \in Requests, WriteRevision(r)
  PROVE  /\ PatchesTheRow(request[r])
         /\ \A f \in Fields \ DOMAIN request[r].changes : fields'[f] = fields[f]
<1>1. PatchesTheRow(request[r]) /\ fields' = request[r].card
  BY DEF SerialInv, SeesTheRow, WriteRevision
<1> QED
  BY <1>1 DEF PatchesTheRow, Patched

\* When requests do not overlap, a completion never overwrites a field that
\* has a value.
THEOREM CompletionFillsOnlyGaps == OneAtATime => (Spec => FillsOnlyEmptyFields)
<1> SUFFICES ASSUME OneAtATime PROVE Spec => FillsOnlyEmptyFields
  OBVIOUS
<1>1. ASSUME TypeOK, SerialInv, [Next]_vars
      PROVE  [Trailing("ai") =>
                \A f \in Fields : fields[f] # Empty => fields'[f] = fields[f]]_vars
  <2>1. CASE UNCHANGED vars
    BY <2>1
  <2>2. ASSUME Next, Trailing("ai"), NEW f \in Fields, fields[f] # Empty
        PROVE  fields'[f] = fields[f]
    <3>1. PICK r \in Requests : WriteRevision(r) /\ request[r].source = "ai"
      BY <2>2, <1>1, TrailingIsWrite
    <3> QED
      BY <1>1, <2>2, <3>1, WriteIsPatch DEF PatchesTheRow
  <2> QED
    BY <1>1, <2>1, <2>2
<1> QED
  BY <1>1, SerialInvariant, PTL DEF Spec, FillsOnlyEmptyFields

\* When requests do not overlap, an undo takes back only what the latest
\* completion wrote and is still there.
THEOREM UndoTakesBackItsOwn == OneAtATime => (Spec => UndoSparesOtherValues)
<1> SUFFICES ASSUME OneAtATime PROVE Spec => UndoSparesOtherValues
  OBVIOUS
<1>1. ASSUME TypeOK, SerialInv, [Next]_vars
      PROVE  [Trailing("undo") =>
                \A f \in Fields : fields'[f] # fields[f] =>
                  fields[f] = revisions[LatestCompletion].changes[f]]_vars
  <2>1. CASE UNCHANGED vars
    BY <2>1
  <2>2. ASSUME Next, Trailing("undo"), NEW f \in Fields, fields'[f] # fields[f]
        PROVE  fields[f] = revisions[LatestCompletion].changes[f]
    <3>1. PICK r \in Requests : WriteRevision(r) /\ request[r].source = "undo"
      BY <2>2, <1>1, TrailingIsWrite
    <3> QED
      BY <1>1, <2>2, <3>1, WriteIsPatch DEF PatchesTheRow
  <2> QED
    BY <1>1, <2>1, <2>2
<1> QED
  BY <1>1, SerialInvariant, PTL DEF Spec, UndoSparesOtherValues
=============================================================================
