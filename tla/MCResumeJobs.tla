----------------------------- MODULE MCResumeJobs -----------------------------
(***************************************************************************)
(* Symmetric handlers, requests and operations for the runs of ResumeJobs, *)
(* and a small Resume with the edits that disturb each other in it for     *)
(* ResumeOperations.  A behaviour is of one of the two: they meet only in  *)
(* the restore, which is an action of both.                                *)
(***************************************************************************)
EXTENDS ResumeJobs, ResumeOperations, TLC

-----------------------------------------------------------------------------
(* The document: section s1 with item i1, and the empty section s2.  The   *)
(* edits make i2 and s3 too.                                               *)
Entry(id, title)         == [id |-> id, title |-> title]
Section(id, title, list) == [id |-> id, title |-> title, items |-> list]
MCFirstDocument == [title |-> 0, template |-> 0, settings |-> 0,
                    sections |-> <<Section("s1", 0, <<Entry("i1", 0)>>), Section("s2", 0, <<>>)>>]

Set(e, path)         == [op |-> "set_field", entity |-> e, path |-> path, value |-> 1]
Retitle(e)             == Set(e, <<"title">>)
PutSection(s, after) == [op |-> "upsert_section", section |-> s, after |-> after]
PutItem(s, i, after) == [op |-> "upsert_item", parent |-> s, item |-> i, after |-> after]
Delete(op, e)        == [op |-> op, entity |-> e]
ItemTo(i, s)         == [op |-> "move_item", entity |-> i, parent |-> s, after |-> None]
SectionFirst(s)      == [op |-> "move_section", entity |-> s, after |-> None]

\* An item is replaced by removing it and putting it elsewhere.
Replace == <<Delete("remove_item", "i1"), PutItem("s2", Entry("i1", 2), None)>>

MCBatch ==
  {<<e>> : e \in {
     Retitle("resume"), Retitle("s1"), Retitle("i1"), Set("resume", <<"style", "template_settings">>),
     [op |-> "set_template", template |-> 1, settings |-> 2],
     PutSection(Section("s1", 2, <<Entry("i1", 0)>>), None),
     PutItem("s1", Entry("i1", 2), None),  PutItem("s1", Entry("i2", 1), None),
     PutItem("s1", Entry("i2", 1), "i1"),  PutItem("s2", Entry("i2", 1), None),
     Delete("remove_section", "s1"), SectionFirst("s2"), ItemTo("i1", "s2")}}
  \cup {<<PutSection(Section("s3", 1, <<>>), "s1"), ItemTo("i1", "s3")>>, Replace}
MCDraft == {<<Retitle("i1")>>, Replace}

-----------------------------------------------------------------------------
\* Of the Jobs: an upload without a Resume, or a Resume without an upload, which share
\* only their handlers.  Neither of them: the operations of a Resume.
IsOfJobs == resume # <<>> \/ upload.status # "absent"
MCInit == Init /\ RevisionInit /\ ~(resume # <<>> /\ upload.status # "absent")
MCNext == \/ IsOfJobs /\ Next /\ UNCHANGED rVars
          \/ ~IsOfJobs /\ RevisionNext /\ UNCHANGED vars
MCSpec == MCInit /\ [][MCNext]_<<vars, rVars>>

MCConsumer == Job \cup {Knowledge}
Symmetry == Permutations(Worker) \cup Permutations(Job)
            \cup Permutations(Attempt) \cup Permutations(Operation)
=============================================================================
