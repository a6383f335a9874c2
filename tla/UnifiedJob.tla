------------------------------ MODULE UnifiedJob ------------------------------
(***************************************************************************)
(* What GET /jobs/{id} and DELETE /jobs/{id} promise of a Job of any       *)
(* domain, without workers, attempts, revisions or aggregates.             *)
(*                                                                         *)
(* A Job is requested together with the event that drives it, and settles  *)
(* once.  It acts on the world only after it was started, a Job cancelled  *)
(* never did and never will, and its event is kept until it is settled: no *)
(* Job is left queued or running with nobody to finish it.                 *)
(*                                                                         *)
(* KnowledgeJobs, ResumeJobs and InterviewJobs implement this module.      *)
(***************************************************************************)
CONSTANT Job

VARIABLES status,  \* status[j]
          acted,   \* Jobs whose effect (external or published) is real
          open     \* Jobs whose event has not been acknowledged

jVars == <<status, acted, open>>

JInit == status = [j \in Job |-> "absent"] /\ acted = {} /\ open = {}

Running == {j \in Job : status[j] = "running"}
Unsettled(j) == status[j] \in {"queued", "running"}

Request(j) == /\ status[j] = "absent"
              /\ status' = [status EXCEPT ![j] = "queued"]
              /\ open' = open \cup {j}
              /\ UNCHANGED acted

Start(j) == /\ status[j] = "queued"
            /\ status' = [status EXCEPT ![j] = "running"]
            /\ UNCHANGED <<acted, open>>

\* A handler may still act after another one has settled its Job, but not if the
\* Job was cancelled.
Act(j) == /\ status[j] \in {"running", "succeeded", "failed"}
          /\ acted' = acted \cup {j}
          /\ UNCHANGED <<status, open>>

\* Success may publish in the same transaction; its event may go with it.
Finish(j) == /\ Unsettled(j)
             /\ \/ /\ status' = [status EXCEPT ![j] = "succeeded"]
                   /\ acted' \in {acted} \cup {acted \cup {i} : i \in {j} \cap Running}
                \/ /\ status' = [status EXCEPT ![j] = "failed"]
                   /\ UNCHANGED acted
             /\ open' \in {open, open \ {j}}

Withdraw(j) == /\ Unsettled(j) /\ j \notin acted
               /\ status' = [status EXCEPT ![j] = "cancelled"]
               /\ UNCHANGED <<acted, open>>

Acknowledge(j) == /\ status[j] \in {"succeeded", "failed", "cancelled"}
                  /\ open' = open \ {j}
                  /\ UNCHANGED <<status, acted>>

JNext == \E j \in Job : \/ Request(j) \/ Start(j) \/ Act(j) \/ Finish(j)
                        \/ Withdraw(j) \/ Acknowledge(j)

JSpec == JInit /\ [][JNext]_jVars
=============================================================================
