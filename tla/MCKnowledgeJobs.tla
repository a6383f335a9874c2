---------------------------- MODULE MCKnowledgeJobs ----------------------------
(* Symmetric handlers and Jobs for the safety runs of KnowledgeJobs.       *)
EXTENDS KnowledgeJobs, TLC

Symmetry == Permutations(Worker) \cup Permutations(Job) \cup Permutations(Content)
=============================================================================
