----------------------------- MODULE AccountErasure -----------------------------
(***************************************************************************)
(* What the deletion of an account promises, without claims, leases,       *)
(* items, executors or members.                                            *)
(*                                                                         *)
(* Nothing is taken from users who may still withdraw.  Once begun, a      *)
(* deletion ends completed or failed, and only once.  What is outside the  *)
(* database goes first: credentials before the account, files only after   *)
(* the Workspace is out of use, and before it is wiped.  Nobody whose      *)
(* deletion has begun is ever active again.                                *)
(*                                                                         *)
(* AccountDeletion implements this module.                                 *)
(***************************************************************************)
CONSTANT User

VARIABLES status,     \* status[u] of the deletion of u
          account,    \* account[u]
          workspace,  \* the Workspace the users share
          files,      \* the files of the Workspace exist
          secrets     \* users with a credential in the vault

eVars == <<status, account, workspace, files, secrets>>

EInit == /\ status = [u \in User |-> "none"] /\ account = [u \in User |-> "active"]
         /\ workspace = "live" /\ files = TRUE /\ secrets \subseteq User

Enter(u, s, a) == /\ status' = [status EXCEPT ![u] = s]
                  /\ account' = [account EXCEPT ![u] = a]

Ask(u) == /\ status[u] = "none"
          /\ Enter(u, "scheduled", "scheduled")
          /\ UNCHANGED <<workspace, files, secrets>>

Withdraw(u) == /\ status[u] = "scheduled"
               /\ Enter(u, "cancelled", "active")
               /\ UNCHANGED <<workspace, files, secrets>>

\* A Workspace with no other member is taken out of use with its last one.
Begin(u) == /\ status[u] = "scheduled"
            /\ Enter(u, "running", "suspended")
            /\ workspace' = workspace \/ (workspace = "live" /\ workspace' = "deleted")
            /\ UNCHANGED <<files, secrets>>

\* By its owner, or by a deletion that has begun.
Close == /\ workspace = "live" /\ workspace' = "deleted"
         /\ UNCHANGED <<status, account, files, secrets>>

\* Outside the database, and so perhaps after the deletion has failed.
Begun(u) == status[u] \in {"running", "failed"}
EraseSecret(u) == /\ Begun(u) /\ u \in secrets
                  /\ secrets' = secrets \ {u}
                  /\ UNCHANGED <<status, account, workspace, files>>
EraseFiles(u) == /\ Begun(u) /\ files /\ workspace # "live"
                 /\ files' = FALSE
                 /\ UNCHANGED <<status, account, workspace, secrets>>

EraseAccount(u) ==
  /\ status[u] = "running" /\ u \notin secrets
  /\ account' = [account EXCEPT ![u] = "deleted"]
  /\ workspace' = workspace \/ (workspace # "live" /\ ~files /\ workspace' = "wiped")
  /\ UNCHANGED <<status, files, secrets>>

Finish(u) == /\ status[u] = "running"
             /\ \/ status' = [status EXCEPT ![u] = "failed"]
                \/ /\ account[u] = "deleted" /\ u \notin secrets
                   /\ status' = [status EXCEPT ![u] = "completed"]
             /\ UNCHANGED <<account, workspace, files, secrets>>

ENext == \/ Close
         \/ \E u \in User : \/ Ask(u) \/ Withdraw(u) \/ Begin(u) \/ Finish(u)
                            \/ EraseSecret(u) \/ EraseFiles(u) \/ EraseAccount(u)

ESpec == EInit /\ [][ENext]_eVars
=============================================================================
