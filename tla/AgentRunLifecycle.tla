--------------------------- MODULE AgentRunLifecycle ---------------------------
(***************************************************************************)
(* What an Agent Run promises to the user who asked for it, without Jobs,  *)
(* revisions, outbox events, workers, retries or faults.                   *)
(*                                                                         *)
(* A Run answers at most once and then is over.  It asks for consent at    *)
(* most once and calls its tool only with that consent; a Run whose user   *)
(* refused never answers, and one whose user agreed answers only after the *)
(* call.  Whoever closes a Run that is still asking closes the question.   *)
(*                                                                         *)
(* AgentRun implements this specification.                                 *)
(***************************************************************************)
EXTENDS Naturals

VARIABLES status,   \* where the Run stands
          consent,  \* the user's word on the tool call
          called,   \* the tool has been called
          answers   \* final Messages written

lVars == <<status, consent, called, answers>>

Over == {"succeeded", "failed", "cancelled"}
Open == {"queued", "running", "waiting_for_approval", "waiting_for_proposal_decision"}

LInit == status = "absent" /\ consent = "none" /\ ~called /\ answers = 0

Submit == /\ status = "absent" /\ status' = "queued"
          /\ UNCHANGED <<consent, called, answers>>

Begin == /\ status = "queued" /\ status' = "running"
         /\ UNCHANGED <<consent, called, answers>>

Ask == /\ status = "running" /\ consent = "none"
       /\ status' = "waiting_for_approval" /\ consent' = "asked"
       /\ UNCHANGED <<called, answers>>

Decide == /\ status = "waiting_for_approval" /\ status' = "running"
          /\ consent' \in {"given", "refused"}
          /\ UNCHANGED <<called, answers>>

Draft == /\ status = "running" /\ consent = "none"
         /\ status' = "waiting_for_proposal_decision"
         /\ UNCHANGED <<consent, called, answers>>

Call == /\ consent = "given" /\ called' = TRUE
        /\ UNCHANGED <<status, consent, answers>>

Answer == /\ \/ status = "running"
             \/ status = "waiting_for_proposal_decision"
          /\ consent = "none" \/ (consent = "given" /\ called)
          /\ status' = "succeeded" /\ answers' = answers + 1
          /\ UNCHANGED <<consent, called>>

Shut == /\ status \in Open
        /\ status' \in {"failed", "cancelled"}
        /\ consent' = IF consent = "asked" THEN "refused" ELSE consent
        /\ UNCHANGED <<called, answers>>

LNext == Submit \/ Begin \/ Ask \/ Decide \/ Draft \/ Call \/ Answer \/ Shut

LSpec == LInit /\ [][LNext]_lVars
=============================================================================
