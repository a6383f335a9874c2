-------------------------- MODULE MCIdempotentCommand --------------------------
(* Two scopes, one of each executor, whose lock keys collide; callers and  *)
(* bodies are symmetric.                                                   *)
EXTENDS IdempotentCommand, TLC

CONSTANTS plain, prepared

MCScopes   == {plain, prepared}
MCPrepared == {prepared}
MCLockKey  == [s \in MCScopes |-> 1]

RequestSymmetry == Permutations(Caller) \cup Permutations(Bodies)
=============================================================================
