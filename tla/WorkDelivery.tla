----------------------------- MODULE WorkDelivery -----------------------------
(***************************************************************************)
(* What the unified outbox promises to the domains that put work into it,  *)
(* without leases, attempts, workers or time.                              *)
(*                                                                         *)
(* A work item is opened by the transaction that commits the business      *)
(* change.  While it is open the domain takes exactly one of two           *)
(* transitions: the work is performed ("done") or its domain state is      *)
(* closed by compensation ("compensated").  Only then does the item leave  *)
(* the queue, as delivered or abandoned; retention may forget it later.    *)
(* A notification is delivered by the very transaction that inserts it.    *)
(*                                                                         *)
(* OutboxDispatch implements this specification.                           *)
(***************************************************************************)
CONSTANTS Event,    \* identities of outbox events
          Work      \* the events that drive a side effect; others notify

VARIABLES item,     \* item[e]: where event e stands in its delivery
          effect    \* effect[e]: what became of e's domain resources

dVars == <<item, effect>>

ItemState   == {"absent", "open", "delivered", "abandoned", "gone"}
EffectState == {"none", "done", "compensated"}

DInit == /\ item   = [e \in Event |-> "absent"]
         /\ effect = [e \in Event |-> "none"]

Move(e, from, to) == /\ item[e] = from
                     /\ item' = [item EXCEPT ![e] = to]

Close(e, how) == /\ item[e] = "open" /\ effect[e] = "none"
                 /\ effect' = [effect EXCEPT ![e] = how]
                 /\ UNCHANGED item

Submit(e)     == e \in Work /\ Move(e, "absent", "open") /\ UNCHANGED effect
Announce(e)   == e \notin Work /\ Move(e, "absent", "delivered") /\ UNCHANGED effect
Perform(e)    == Close(e, "done")
Compensate(e) == Close(e, "compensated")
Deliver(e)    == /\ effect[e] # "none"
                 /\ Move(e, "open", "delivered") /\ UNCHANGED effect
Abandon(e)    == /\ effect[e] # "none"
                 /\ Move(e, "open", "abandoned") /\ UNCHANGED effect
Forget(e)     == /\ \/ Move(e, "delivered", "gone")
                    \/ Move(e, "abandoned", "gone")
                 /\ UNCHANGED effect

DNext == \E e \in Event : \/ Submit(e) \/ Announce(e) \/ Perform(e)
                          \/ Compensate(e) \/ Deliver(e) \/ Abandon(e)
                          \/ Forget(e)

DSpec == DInit /\ [][DNext]_dVars
=============================================================================
