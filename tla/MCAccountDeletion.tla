--------------------------- MODULE MCAccountDeletion ---------------------------
(* Two members of a Workspace, from two states of theirs that the program  *)
(* reaches: one has withdrawn a deletion, which leaves the other to delete *)
(* its account; or the owner has been claimed once, and its executor has   *)
(* crashed after the items.                                                *)
EXTENDS AccountDeletion

First     == CHOOSE u \in User : TRUE
NoRequest == [status |-> "none", claims |-> 0, holder |-> NoExecutor, leased |-> FALSE]
OfFirst(a, b) == [u \in User |-> IF u = First THEN a ELSE b]
NoItems   == [k \in Kind |-> NoItem]

Withdrawn ==
  /\ account = OfFirst("active", "active") /\ frozen = OfFirst("none", "none")
  /\ request = OfFirst([NoRequest EXCEPT !.status = "cancelled"], NoRequest)
  /\ item = OfFirst(NoItems, NoItems) /\ secrets = User \ {First}
  /\ \E role \in {"owner", "admin"} :
       member = OfFirst([role |-> role, status |-> "active"],
                        [role |-> IF role = "owner" THEN "admin" ELSE "owner",
                         status |-> "active"])

ClaimedOnce ==
  /\ account = OfFirst("suspended", "active") /\ frozen = OfFirst("shared", "none")
  /\ request = OfFirst([status |-> "running", claims |-> 1, leased |-> FALSE,
                        holder |-> CHOOSE e \in Executor : TRUE], NoRequest)
  /\ item = OfFirst([NoItems EXCEPT !.credential = [status |-> "completed", tries |-> 1]],
                    NoItems)
  /\ secrets = {}
  /\ member = OfFirst([role |-> "owner", status |-> "suspended"],
                      [role |-> "admin", status |-> "active"])

MCInit == /\ Withdrawn \/ ClaimedOnce
          /\ workspace = "live" /\ cancelling = {} /\ uploads = TRUE
          /\ exec = [e \in Executor |-> Idle] /\ overtaken = {}

MCSpec == MCInit /\ [][Next]_vars /\ Fairness
=============================================================================
