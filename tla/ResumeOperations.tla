-------------------------- MODULE ResumeOperations --------------------------
(***************************************************************************)
(* The revisions of one Resume and the operations that make them: batches  *)
(* of clients that may have worked on an older revision, with the ledger   *)
(* that deduplicates them and the comparison of change targets that lets   *)
(* a stale batch through (domain/resumes.py), metadata patches, restores,  *)
(* and Proposals, decided against the very revision they were drafted for  *)
(* (domain/resume_proposals.py, application/resumes.py).                   *)
(*                                                                         *)
(* Every request locks the Resume, so each is one step.  A document is its *)
(* title, template, template settings and its sections with their items;   *)
(* one title stands for all the fields of a section or an item.  What a    *)
(* template refuses is left out, and so are section layouts and contacts.  *)
(* A batch sent again under its own id is answered from its receipt; only  *)
(* its operations, sent in another batch, reach the ledger.                *)
(***************************************************************************)
EXTENDS Integers, SequencesExt

CONSTANTS Resume,         \* the id of the Resume, an entity like sections and items
          OpId,           \* operation ids
          Batch,          \* sequences of edits a client may put together
          Draft,          \* sequences of edits the Agent may propose
          FirstDocument,  \* the document of revision 1
          Title,          \* the titles a metadata patch may set
          None,           \* no anchor, no edit
          NoDocument,     \* what an impossible edit leaves
          MaxRevision     \* bound

ASSUME RevisionAssumption == MaxRevision \in Nat \ {0}

VARIABLES history,   \* history[r]: the snapshot and the change targets of revision r
          ledger,    \* ledger[id]: the edit applied under an operation id, and where
          proposal,  \* a Proposal of the Agent
          made       \* made[r]: what revision r was made from (for the properties only)

rVars == <<history, ledger, proposal, made>>

Revision == Len(history)
Doc      == history[Revision].doc

-----------------------------------------------------------------------------
(* Documents and edits.                                                    *)
Ids(seq)         == {seq[k].id : k \in DOMAIN seq}
At(seq, id)      == SelectInSeq(seq, LAMBDA x : x.id = id)
Without(seq, id) == SelectSeq(seq, LAMBDA x : x.id # id)

\* _insert_after: in front without an anchor; the anchor must be there.
CanInsert(seq, after)      == after = None \/ after \in Ids(seq)
InsertAfter(seq, x, after) == InsertAt(seq, 1 + (IF after = None THEN 0 ELSE At(seq, after)), x)

SectionIds(doc)   == Ids(doc.sections)
ItemsOf(doc, s)   == doc.sections[At(doc.sections, s)].items
ItemIds(doc)      == UNION {Ids(doc.sections[k].items) : k \in DOMAIN doc.sections}
ItemOf(doc, i)    == CHOOSE x \in UNION {ToSet(doc.sections[k].items) : k \in DOMAIN doc.sections} :
                       x.id = i
WithItems(doc, s, items) == [doc EXCEPT !.sections[At(doc.sections, s)].items = items]
WithoutItem(doc, i) ==
  [doc EXCEPT !.sections = [k \in DOMAIN @ |->
     [id |-> @[k].id, title |-> @[k].title, items |-> Without(@[k].items, i)]]]

\* ResumeDocument: every id an operation can address is there once.
IdsOf(seq) == [k \in DOMAIN seq |-> seq[k].id]
WellFormed(doc) ==
  IsInjective(IdsOf(doc.sections)
                \o FlattenSeq([k \in DOMAIN doc.sections |-> IdsOf(doc.sections[k].items)]))

\* What an operation refers to is there.
Possible(doc, e) ==
  CASE e.op = "set_field"      -> e.entity \in {Resume} \cup SectionIds(doc) \cup ItemIds(doc)
    [] e.op = "upsert_section" -> CanInsert(Without(doc.sections, e.section.id), e.after)
    [] e.op = "upsert_item"    -> /\ e.parent \in SectionIds(doc)
                                  /\ CanInsert(Without(ItemsOf(doc, e.parent), e.item.id), e.after)
    [] e.op = "remove_section" -> e.entity \in SectionIds(doc)
    [] e.op = "remove_item"    -> e.entity \in ItemIds(doc)
    [] e.op = "move_section"   -> /\ e.entity \in SectionIds(doc)
                                  /\ CanInsert(Without(doc.sections, e.entity), e.after)
    [] e.op = "move_item"      -> /\ e.entity \in ItemIds(doc) /\ e.parent \in SectionIds(doc)
                                  /\ CanInsert(Without(ItemsOf(doc, e.parent), e.entity), e.after)
    [] OTHER                   -> TRUE

\* _apply_set_field: by entity id, wherever the entity is by now.
SetField(doc, e) ==
  LET set(seq) == [k \in DOMAIN seq |-> IF seq[k].id = e.entity
                                        THEN [seq[k] EXCEPT !.title = e.value] ELSE seq[k]]
  IN  CASE e.entity = Resume /\ e.path = <<"title">> -> [doc EXCEPT !.title = e.value]
        [] e.entity = Resume /\ e.path # <<"title">> -> [doc EXCEPT !.settings = e.value]
        [] OTHER -> [doc EXCEPT !.sections = [k \in DOMAIN set(@) |->
                       [set(@)[k] EXCEPT !.items = set(@)]]]

Result(doc, e) ==
  CASE e.op = "set_field"      -> SetField(doc, e)
    [] e.op = "upsert_section" ->
         [doc EXCEPT !.sections = InsertAfter(Without(@, e.section.id), e.section, e.after)]
    [] e.op = "upsert_item"    ->
         WithItems(doc, e.parent,
                   InsertAfter(Without(ItemsOf(doc, e.parent), e.item.id), e.item, e.after))
    [] e.op = "remove_section" -> [doc EXCEPT !.sections = Without(@, e.entity)]
    [] e.op = "remove_item"    -> WithoutItem(doc, e.entity)
    [] e.op = "move_section"   ->
         [doc EXCEPT !.sections = InsertAfter(Without(@, e.entity), @[At(@, e.entity)], e.after)]
    [] e.op = "move_item"      ->
         LET rest == WithoutItem(doc, e.entity)
         IN  WithItems(rest, e.parent,
                       InsertAfter(ItemsOf(rest, e.parent), ItemOf(doc, e.entity), e.after))
    [] e.op = "set_template"   -> [doc EXCEPT !.template = e.template, !.settings = e.settings]
    [] e.op = "restore"        -> e.document

\* _apply_operation, and the validation of the document it makes.
Apply(doc, e) == IF doc # NoDocument /\ Possible(doc, e) /\ WellFormed(Result(doc, e))
                 THEN Result(doc, e) ELSE NoDocument
ApplyAll(doc, edits) == FoldLeft(Apply, doc, edits)

-----------------------------------------------------------------------------
(* Change targets.                                                         *)
Target(entity, path) == [entity |-> entity, path |-> path]
Order(collection)    == Target(collection, <<"order">>)

\* _operation_targets
Targets(e) ==
  CASE e.op = "set_field"      -> {Target(e.entity, e.path)}
    [] e.op = "upsert_section" -> {Target(e.section.id, <<>>), Order("$sections")}
    [] e.op = "upsert_item"    -> {Target(e.item.id, <<>>), Target(e.parent, <<"items", "order">>)}
    [] e.op = "remove_section" -> {Target(e.entity, <<>>), Order("$sections")}
    [] e.op = "remove_item"    -> {Target(e.entity, <<>>), Order("$items")}
    [] e.op = "move_section"   -> {Target(e.entity, <<"position">>), Order("$sections")}
    [] e.op = "move_item"      -> {Target(e.entity, <<"position">>), Order("$items")}
    [] e.op = "set_template"   -> {Target("$template", <<>>),
                                   Target("$style", <<"template_settings">>)}
    [] e.op = "restore"        -> {Target(Resume, <<>>)}

\* ChangeTarget.overlaps: one path is a prefix of the other.
Overlaps(s, t) == s.entity = t.entity /\ (IsPrefix(s.path, t.path) \/ IsPrefix(t.path, s.path))

-----------------------------------------------------------------------------
(* The aggregate.  An operation of a batch is an edit under an id.         *)
Select(ops, ids)    == SelectSeq(ops, LAMBDA o : o.id \in ids)
Edits(ops)          == [k \in DOMAIN ops |-> ops[k].edit]
EditOf(ops, id)     == (CHOOSE o \in ToSet(ops) : o.id = id).edit
TargetsOf(ops, ids) == UNION {Targets(EditOf(ops, id)) : id \in ids}

NoEntry    == [edit |-> None, revision |-> 0]
NoProposal == [status |-> "none", base |-> 0, operations |-> <<>>, accepted |-> {}]

RevisionInit == /\ history = <<[doc |-> FirstDocument, targets |-> {}]>>
                /\ ledger = [id \in OpId |-> NoEntry]
                /\ proposal = NoProposal
                /\ made = <<[base |-> 0, edits |-> <<>>, ids |-> {}]>>

\* The operations of a batch the ledger does not know; an id it knows with another
\* edit refuses the batch.
EverythingIsFresh(ids) == ids
Fresh(ids)  == {id \in ids : ledger[id].revision = 0}
Reused(ops, ids) == \E id \in ids \ Fresh(ids) : ledger[id].edit # EditOf(ops, id)

\* _ensure_rebase_is_safe
SafeSinceLast(base, targets) ==
  \A t \in targets : \A c \in history[Revision].targets : ~Overlaps(t, c)
RebaseIsSafe(base, targets) ==
  \A t \in targets : \A r \in base + 1 .. Revision : \A c \in history[r].targets :
    ~Overlaps(t, c)

Save(doc, targets, base, edits, ids) ==
  /\ Revision < MaxRevision
  /\ history' = Append(history, [doc |-> doc, targets |-> targets])
  /\ made' = Append(made, [base |-> base, edits |-> edits, ids |-> ids])

\* apply_batch with save_resume, on the operations of ops chosen by their ids: nothing,
\* or the fresh ones in one revision and in the ledger.
ApplyBatch(base, strategy, ops, ids) ==
  LET fresh   == Fresh(ids)
      edits   == Edits(Select(ops, fresh))
      targets == TargetsOf(ops, fresh)
      doc     == ApplyAll(Doc, edits)
  IN  /\ ~Reused(ops, ids)
      /\ base # Revision => strategy = "rebase_if_safe" /\ RebaseIsSafe(base, targets)
      /\ doc # NoDocument
      /\ IF fresh = {} THEN UNCHANGED <<history, ledger, made>>
         ELSE /\ Save(doc, targets, base, edits, fresh)
              /\ ledger' = [id \in OpId |->
                   IF id \in fresh THEN [edit |-> EditOf(ops, id), revision |-> Revision + 1]
                   ELSE ledger[id]]

-----------------------------------------------------------------------------
(* Requests.                                                               *)

\* The ids a batch is sent under: any, so operations may come again in another batch.
Operations(batches) ==
  UNION {{[k \in DOMAIN edits |-> [id |-> ids[k], edit |-> edits[k]]] :
            ids \in {f \in [DOMAIN edits -> OpId] : IsInjective(f)}} : edits \in batches}

\* apply_operations.  The entity tag is that of the current revision, whatever the
\* revision the batch was put together on.
ApplyOperations(base, ops) == /\ Revision < MaxRevision
                              /\ ApplyBatch(base, "rebase_if_safe", ops, Ids(ops))
                              /\ UNCHANGED proposal

\* update_metadata
UpdateMetadata(title) ==
  LET e == [op |-> "set_field", entity |-> Resume, path |-> <<"title">>, value |-> title]
  IN  /\ title # Doc.title
      /\ Save(Apply(Doc, e), Targets(e), Revision, <<e>>, {})
      /\ UNCHANGED <<ledger, proposal>>

\* _restored_aggregate: an earlier snapshot; the ledger stays.
Restore(r) ==
  LET e == [op |-> "restore", document |-> history[r].doc]
  IN  /\ Save(e.document, Targets(e), Revision, <<e>>, {})
      /\ UNCHANGED <<ledger, proposal>>

\* PostgresAgentResumeProposalBoundary.create: drafted on the current revision, which
\* it locks, and previewed there.
Propose(ops) ==
  /\ proposal.status = "none"
  /\ ApplyAll(Doc, Edits(ops)) # NoDocument
  /\ proposal' = [status |-> "pending", base |-> Revision, operations |-> ops, accepted |-> {}]
  /\ UNCHANGED <<history, ledger, made>>

\* decide_proposal: select, apply and record in one transaction.
RebasedDecision(ids) ==
  /\ proposal.status = "pending"
  /\ ApplyBatch(proposal.base, "rebase_if_safe", proposal.operations, ids)
  /\ proposal' = [proposal EXCEPT !.status = "accepted", !.accepted = ids]
DecideProposal(ids) ==
  /\ proposal.status = "pending"
  /\ ApplyBatch(proposal.base, "reject", proposal.operations, ids)
  /\ proposal' = [proposal EXCEPT
       !.status = IF ids = Ids(proposal.operations) THEN "accepted" ELSE "partially_accepted",
       !.accepted = ids]

RejectProposal == /\ proposal.status = "pending"
                  /\ proposal' = [proposal EXCEPT !.status = "rejected"]
                  /\ UNCHANGED <<history, ledger, made>>

RevisionNext ==
  \/ \E base \in 1..Revision, ops \in Operations(Batch) : ApplyOperations(base, ops)
  \/ \E title \in Title : UpdateMetadata(title)
  \/ \E r \in 1 .. Revision - 1 : Restore(r)
  \/ \E ops \in Operations(Draft) : Propose(ops)
  \/ \E ids \in SUBSET Ids(proposal.operations) \ {{}} : DecideProposal(ids)
  \/ RejectProposal

RevisionSpec == RevisionInit /\ [][RevisionNext]_rVars

-----------------------------------------------------------------------------
(* PROPERTIES                                                              *)

\* An operation takes effect in one revision, that of its ledger entry, however often
\* and in whatever batches, rebased or proposed, it is sent.
AppliedOnce ==
  \A id \in OpId : {r \in 1..Revision : id \in made[r].ids}
                     = {ledger[id].revision} \ {0}

\* What the comparison of targets misses: a whole section put in its place against what
\* it holds, an item put somewhere against one moved, the template against its settings,
\* and a restore against everything but the fields of the Resume itself.
OfItem(f) ==
  \/ f.op \in {"upsert_item", "remove_item", "move_item"}
  \/ f.op = "set_field" /\ \E r \in 1..Revision : f.entity \in ItemIds(history[r].doc)
Missed(e, f) ==
  \/ e.op = "restore"
  \/ e.op = "upsert_section" /\ OfItem(f)
  \/ e.op = "upsert_item" /\ f.op = "move_item"
  \/ e.op = "set_template" /\ f.op = "set_field" /\ f.path = <<"style", "template_settings">>

\* A stale batch that is let through does no more than it would have done in time: made
\* on its own revision, with what was done meanwhile done after it, it gives the same
\* document, or what was done meanwhile would not have been possible.
RebaseCommutes ==
  \A r \in 2..Revision :
    LET b      == made[r].base
        passed == FlattenSeq([k \in 1 .. r - 1 - b |-> made[b + k].edits])
    IN  (\A e \in ToSet(made[r].edits), f \in ToSet(passed) : ~Missed(e, f) /\ ~Missed(f, e))
          => ApplyAll(ApplyAll(history[b].doc, made[r].edits), passed)
               \in {history[r].doc, NoDocument}

\* What a user accepts of a Proposal is done on the revision it was drafted for, or was
\* done before: nobody's later edit lies between.
ProposalIsExact ==
  proposal.status \in {"accepted", "partially_accepted"} =>
    \A o \in ToSet(proposal.operations) : o.id \in proposal.accepted =>
      /\ ledger[o.id].edit = o.edit
      /\ ledger[o.id].revision \in 1 .. proposal.base + 1
=============================================================================
