---------------------------- MODULE MCInterviewJobs ----------------------------
(* Symmetric handlers and requests for the run of InterviewJobs. *)
EXTENDS InterviewJobs, TLC

\* A new session, to be ended and reported on; or one that a Job of another instance
\* has completed, for two report Jobs at once.
Completed == session = [status |-> "completed", rev |-> 3, pending |-> NoJob,
                        reason |-> "completed", report |-> NoJob, evidence |-> 0]
MCInit == \/ Init
          \/ /\ Completed
             /\ leased \in BOOLEAN /\ connecting = 0 /\ transcript \in 0..MaxSegments
             /\ stage = [w \in Worker |-> Fresh]
             /\ WorkInit(NoRow)
MCSpec == MCInit /\ [][Next]_vars

Symmetry == Permutations(Worker) \cup Permutations(Job)
=============================================================================
