---------------------------- MODULE AccountDeletion ----------------------------
(***************************************************************************)
(* The deletion of accounts that share a Workspace: the request, its       *)
(* cooling-off and its cancellation (application/access.py), the claims,   *)
(* erasure items, database erasure and finalization of the executor        *)
(* (application/account_deletion.py, infrastructure/account_deletion.py,   *)
(* the SQL functions of migration 20260723_0025), and what members do to   *)
(* the Workspace meanwhile.                                                *)
(*                                                                         *)
(* An executor is one claim of a batch, from claim_due to its outcome.  A  *)
(* claim token is the executor holding it: only an idle executor claims.   *)
(* Erasure items are claimed one by one (a batch of one); an item lease,   *)
(* which never outlives its claim, ends early only as a crash would.       *)
(* A user asks for one deletion (a bound).                                 *)
(*                                                                         *)
(* The erasure of a shared Workspace is one transaction of several READ    *)
(* COMMITTED statements, which share row locks and nothing else with the   *)
(* members' commands: it is a step for each statement that reads what they *)
(* change.  Every other transaction is one step.                           *)
(***************************************************************************)
EXTENDS FiniteSets, Integers, TLC

CONSTANTS User, Leaver,      \* the users, and those who may ask for deletion
          Executor, NoUser, NoExecutor,
          MaxClaims,         \* maximum_attempts of the executor
          MaxTries,          \* attempts of one erasure item, 100 in the code
          Grant              \* the roles invitations and updates grant

ASSUME UserAssumption  == /\ Leaver \subseteq User /\ NoUser \notin User
                          /\ NoExecutor \notin Executor
ASSUME GrantAssumption == Grant \subseteq {"admin", "viewer"}
ASSUME LimitAssumption == {MaxClaims, MaxTries} \subseteq Nat \ {0}

VARIABLES account,     \* users.account_status
          member,      \* member[u]: the row of u in workspace_members
          workspace,   \* the Workspace root
          request,     \* request[u]: the account_deletion_requests row
          cancelling,  \* users whose cancellation has read a scheduled request
          frozen,      \* frozen[u]: the disposition, decided once
          item,        \* item[u][k]: the account_deletion_erasure_items rows
          uploads,     \* the upload objects of the Workspace exist
          secrets,     \* users with a credential in the vault
          exec         \* exec[e]: the claim an executor works on
\* Auxiliary, read by OwnedUnlessDeleting only:
VARIABLE  overtaken    \* users of whose erasure all it has found have gone

stateVars == <<account, member, workspace, request, cancelling, frozen, item,
              uploads, secrets, exec>>
vars == <<stateVars, overtaken>>
erasure == <<frozen, item, uploads, secrets>>

Kind    == {"upload", "credential"}
Role    == {"owner", "admin", "viewer"}
Settled == {"completed", "failed", "cancelled"}
Holder  == Executor \cup {NoExecutor}

Member  == [role : Role, status : {"none", "active", "suspended"}]
Request == [status : {"none", "scheduled", "running"} \cup Settled,
            claims : 0..MaxClaims, holder : Holder, leased : BOOLEAN]
Item    == [status : {"none", "pending", "processing", "completed", "failed"},
            tries : 0..MaxTries]
\* In a transaction on a shared Workspace: "demoted", "choosing" and "chosen".
Exec    == [user : User \cup {NoUser}, todo : SUBSET Kind, heirs : SUBSET User,
            step : {"idle", "claimed", "items", "erase", "demoted", "choosing", "chosen",
                    "completed", "failed"}]

RowsTypeOK ==
  /\ account \in [User -> {"active", "scheduled", "suspended", "deleted"}]
  /\ member \in [User -> Member] /\ workspace \in {"live", "deleted", "wiped"}
  /\ request \in [User -> Request] /\ cancelling \subseteq User
  /\ frozen \in [User -> {"none", "personal", "shared"}]
  /\ item \in [User -> [Kind -> Item]]
  /\ uploads \in BOOLEAN /\ secrets \subseteq User /\ exec \in [Executor -> Exec]
  /\ \A u \in User : /\ request[u].status = "running" <=> request[u].holder # NoExecutor
                     /\ request[u].leased => request[u].status = "running"
TypeOK == RowsTypeOK /\ overtaken \subseteq User

-----------------------------------------------------------------------------
Idle    == [user |-> NoUser, todo |-> {}, heirs |-> {}, step |-> "idle"]
NoItem  == [status |-> "none", tries |-> 0]
NoMember == [role |-> "viewer", status |-> "none"]
Active(us) == {u \in us : member[u].status = "active"}
Owners     == {u \in Active(User) : member[u].role = "owner"}

\* The row locks a transaction on a shared Workspace holds: on its request, on the
\* member row of its user, and then on that of the successor.
Erasing(e) == exec[e].step \in {"demoted", "choosing", "chosen"}
UnderErasure == {exec[e].user : e \in {f \in Executor : Erasing(f)}}
Locked(u)  == \/ u \in UnderErasure
              \/ \E e \in Executor : exec[e].step = "chosen" /\ u \in exec[e].heirs

Init ==
  /\ account = [u \in User |-> "active"]
  /\ \E owner \in User : \E others \in [User \ {owner} -> Grant] :
       member = [u \in User |-> [role |-> IF u = owner THEN "owner" ELSE others[u],
                                 status |-> "active"]]
  /\ workspace = "live" /\ cancelling = {}
  /\ request = [u \in User |-> [status |-> "none", claims |-> 0, holder |-> NoExecutor,
                                leased |-> FALSE]]
  /\ frozen = [u \in User |-> "none"]
  /\ item = [u \in User |-> [k \in Kind |-> NoItem]]
  /\ uploads = TRUE /\ secrets = Leaver
  /\ exec = [e \in Executor |-> Idle] /\ overtaken = {}

-----------------------------------------------------------------------------
(* The user: request_account_deletion and cancel_account_deletion, whose   *)
(* two rows are saved only as they were read.                              *)
AskDeletion(u) ==
  /\ account[u] = "active" /\ request[u].status = "none"
  /\ request' = [request EXCEPT ![u].status = "scheduled"]
  /\ account' = [account EXCEPT ![u] = "scheduled"]
  /\ UNCHANGED <<member, workspace, cancelling, exec>> /\ UNCHANGED erasure

ReadForCancel(u) ==
  /\ request[u].status = "scheduled" /\ u \notin cancelling
  /\ cancelling' = cancelling \cup {u}
  /\ UNCHANGED <<account, member, workspace, request, exec>> /\ UNCHANGED erasure

\* The claim of the executor advances the revision the cancellation has read.
SavedInAnyState(u) == TRUE
SavedAsRead(u) == request[u].status = "scheduled"
Cancel(u) ==
  /\ u \in cancelling
  /\ cancelling' = cancelling \ {u}
  /\ IF SavedAsRead(u)
     THEN /\ request' = [request EXCEPT ![u].status = "cancelled"]
          /\ account' = [account EXCEPT ![u] = "active"]
     ELSE UNCHANGED <<request, account>>
  /\ UNCHANGED <<member, workspace, exec>> /\ UNCHANGED erasure

-----------------------------------------------------------------------------
(* The members of the Workspace: application/access.py.  Authorization     *)
(* asks for an active membership, not for a live Workspace.                *)
Manages(actor, u) == /\ member[actor].status = "active" /\ member[u].status # "none"
                     /\ member[actor].role \in {"owner", "admin"}
                     /\ member[u].role = "owner" => member[actor].role = "owner"

\* Membership.revise, ensure_removable, under the lock of count_active_owners.
LosesAnyOwner(u) == FALSE
LosesOwner(u) == u \in Owners /\ Cardinality(Owners) <= 1

Unmanaged == UNCHANGED <<account, workspace, request, cancelling>> /\ UNCHANGED erasure

\* update_member never grants the owner role.  A row that an erasure has locked is
\* waited for, and is not saved if the erasure has changed it.
UpdateMember(actor, u, role, status) ==
  LET revised == [role |-> role, status |-> status]
  IN  /\ Manages(actor, u) /\ status # "none" /\ member[u] # revised /\ ~Locked(u)
      /\ role \in Grant \cup {member[u].role}
      /\ revised # [role |-> "owner", status |-> "active"] => ~LosesOwner(u)
      /\ member' = [member EXCEPT ![u] = revised]
      /\ Unmanaged /\ UNCHANGED exec

\* No candidate of an open erasure any more: who joins again does so in another row.
Forget(u) == exec' = [e \in Executor |-> [exec[e] EXCEPT !.heirs = @ \ {u}]]

RemoveMember(actor, u) == /\ Manages(actor, u) /\ ~LosesOwner(u) /\ ~Locked(u)
                          /\ member' = [member EXCEPT ![u] = NoMember]
                          /\ Unmanaged /\ Forget(u)

\* accept_invitation: invitations are left until the Workspace is wiped, the tokens
\* of the user until its deletion is claimed.
Join(u, role) == /\ member[u].status = "none" /\ account[u] \in {"active", "scheduled"}
                 /\ workspace # "wiped"
                 /\ member' = [member EXCEPT ![u] = [role |-> role, status |-> "active"]]
                 /\ Unmanaged /\ UNCHANGED exec

DeleteWorkspace == /\ Owners # {} /\ workspace = "live"
                   /\ workspace' = "deleted"
                   /\ UNCHANGED <<account, member, request, cancelling, exec>>
                   /\ UNCHANGED erasure

-----------------------------------------------------------------------------
(* claim_due_account_deletions                                             *)
Due(u) == \/ request[u].status = "scheduled"
          \/ request[u].status = "running" /\ ~request[u].leased

\* The first statement: a lapsed request out of attempts fails.
Above(u) == request[u].claims > MaxClaims
OutOfClaims(u) == request[u].claims >= MaxClaims
Closed(r, to) == [r EXCEPT !.status = to, !.leased = FALSE, !.holder = NoExecutor]

Exhaust(u) ==
  /\ request[u].status = "running" /\ Due(u) /\ OutOfClaims(u) /\ u \notin UnderErasure
  /\ request' = [request EXCEPT ![u] = Closed(@, "failed")]
  /\ UNCHANGED <<account, member, workspace, cancelling, exec>> /\ UNCHANGED erasure

Disposition(u) ==
  IF frozen[u] # "none" THEN frozen[u]
  ELSE IF workspace # "live" \/ member[u].status # "active" THEN "none"
  ELSE IF Active(User \ {u}) = {} THEN "personal" ELSE "shared"

Listed(i) == IF i.status = "none" THEN [i EXCEPT !.status = "pending"] ELSE i

\* Executors are alike: the first idle one takes the claim.
FirstIdle == IF \E e \in Executor : exec[e] = Idle
             THEN CHOOSE e \in Executor : exec[e] = Idle ELSE NoExecutor

\* A claim that finds the member row locked has decided by then, and writes the role
\* as little as the erasure it waits for writes the status.
Claim(e, u) ==
  LET fate == Disposition(u)
  IN  /\ e = FirstIdle /\ Due(u) /\ request[u].claims < MaxClaims /\ u \notin UnderErasure
      /\ frozen' = [frozen EXCEPT ![u] = fate]
      /\ member' = IF fate # "none" /\ member[u].status # "none"
                   THEN [member EXCEPT ![u].status = "suspended"] ELSE member
      /\ workspace' = IF fate = "personal" /\ workspace = "live" THEN "deleted" ELSE workspace
      /\ item' = [item EXCEPT
           ![u].upload = IF fate = "personal" /\ workspace # "wiped" THEN Listed(@) ELSE @,
           ![u].credential = IF fate # "none" \/ u \in secrets THEN Listed(@) ELSE @]
      /\ account' = [account EXCEPT ![u] = IF @ = "deleted" THEN @ ELSE "suspended"]
      /\ request' = [request EXCEPT ![u] = [status |-> "running", claims |-> @.claims + 1,
                                            holder |-> e, leased |-> TRUE]]
      /\ exec' = [exec EXCEPT ![e] = [Idle EXCEPT !.user = u, !.step = "claimed"]]
      /\ UNCHANGED <<cancelling, uploads, secrets>>

-----------------------------------------------------------------------------
(* The executor: erase, _erase_external_state and finalize.                *)

\* Every function of the migration asks for the claim: token, revision, live lease.
LiveClaim(e) == LET r == request[exec[e].user]
                IN  r.status = "running" /\ r.holder = e /\ r.leased

Enter(e, step) == exec' = [exec EXCEPT ![e].step = step]
Stop(e)        == exec' = [exec EXCEPT ![e] = Idle]
Dropped(e, k)  == exec' = [exec EXCEPT ![e].todo = @ \ {k}]
External       == UNCHANGED <<account, member, workspace, cancelling, frozen>>

Statuses(u)    == {item[u][k].status : k \in Kind}

\* claim_account_deletion_erasure_items: rows out of tries fail, then one is taken.
\* Whatever an earlier claim has left processing is lapsed with it.
Waiting(row) == row.status \in {"pending", "processing"}
Moved(row, to) == [row EXCEPT !.status = to]
ClaimItems(e) ==
  LET u     == exec[e].user
      rows  == [k \in Kind |-> IF Waiting(item[u][k]) /\ item[u][k].tries >= MaxTries
                               THEN Moved(item[u][k], "failed") ELSE item[u][k]]
      ready == {k \in Kind : Waiting(rows[k])}
  IN  /\ exec[e].step = "claimed"
      /\ IF LiveClaim(e) /\ ready # {}
         THEN \E k \in ready :
                /\ item' = [item EXCEPT ![u] = [rows EXCEPT ![k] =
                              [status |-> "processing", tries |-> @.tries + 1]]]
                /\ exec' = [exec EXCEPT ![e] = [@ EXCEPT !.step = "items", !.todo = {k}]]
         ELSE /\ item' = IF LiveClaim(e) THEN [item EXCEPT ![u] = rows] ELSE item
              /\ Enter(e, "items")
      /\ UNCHANGED <<request, uploads, secrets>> /\ External

\* The object store and the vault: outside any transaction, idempotent.
EraseObject(e, k) ==
  /\ k \in exec[e].todo
  /\ IF k = "upload" THEN uploads /\ uploads' = FALSE /\ UNCHANGED secrets
     ELSE exec[e].user \in secrets /\ secrets' = secrets \ {exec[e].user} /\ UNCHANGED uploads
  /\ UNCHANGED <<request, item, exec>> /\ External

Gone(u, k) == IF k = "upload" THEN ~uploads ELSE u \notin secrets
Owns(e, k) == LiveClaim(e) /\ item[exec[e].user][k].status = "processing"

CompleteItem(e, k) ==
  LET u == exec[e].user
  IN  /\ k \in exec[e].todo /\ Gone(u, k)
      /\ IF Owns(e, k)
         THEN /\ item' = [item EXCEPT ![u][k] = Moved(@, "completed")]
              /\ Dropped(e, k)
         ELSE Stop(e) /\ UNCHANGED item
      /\ UNCHANGED <<request, uploads, secrets>> /\ External

\* release_account_deletion_progress gives the claim back after progress.
HandedBack(r)  == [r EXCEPT !.claims = @ - 1, !.leased = FALSE]
Released(u, progressed) ==
  IF progressed /\ "failed" \notin Statuses(u) THEN HandedBack(request[u]) ELSE request[u]

\* _retry_external_item: the object store is unavailable, or the vault has more.
RetryItem(e, k) ==
  LET u == exec[e].user
  IN  /\ k \in exec[e].todo
      /\ k = "credential" => u \in secrets
      /\ CASE ~Owns(e, k) -> Stop(e) /\ UNCHANGED <<item, request>>
           [] Owns(e, k) /\ item[u][k].tries >= MaxTries ->
                /\ item' = [item EXCEPT ![u][k] = Moved(@, "failed")]
                /\ Dropped(e, k) /\ UNCHANGED request
           [] OTHER ->
                /\ item' = [item EXCEPT ![u][k] = Moved(@, "pending")]
                /\ request' = [request EXCEPT ![u] = Released(u, k = "credential")]
                /\ Stop(e)
      /\ UNCHANGED <<uploads, secrets>> /\ External

\* After the batch: wait for other items, or for mail on its way to the user
\* (erase_recipient), which costs the claim; otherwise erase the database.
AfterItems(e) ==
  LET u == exec[e].user
      waits == Statuses(u) \cap {"pending", "processing"} # {}
  IN  /\ exec[e].step = "items" /\ exec[e].todo = {}
      /\ \/ ~LiveClaim(e) /\ Stop(e) /\ UNCHANGED request
         \/ /\ LiveClaim(e) /\ ("failed" \in Statuses(u) \/ ~waits)
            /\ Enter(e, "erase") /\ UNCHANGED request
         \/ /\ LiveClaim(e) /\ "failed" \notin Statuses(u)
            /\ Stop(e)
            /\ request' = IF waits THEN [request EXCEPT ![u] = Released(u, TRUE)] ELSE request
      /\ UNCHANGED <<item, uploads, secrets>> /\ External

-----------------------------------------------------------------------------
(* erase_account_for_deletion                                              *)
Detached == [role |-> "viewer", status |-> "suspended"]
Detach(u) == IF member[u].status = "none" THEN member ELSE [member EXCEPT ![u] = Detached]

Wiped == /\ workspace' = "wiped"
         /\ member' = [u \in User |-> NoMember]

\* The member rows the database erasure of u writes first, or waits for until the
\* lock timeout ends the transaction.
Written(u) == IF frozen[u] = "personal" THEN User ELSE {u}
Waits(us)  == \E u \in us : member[u].status # "none" /\ Locked(u)

\* The checks on claim and items; then a Workspace of the user alone is wiped and any
\* other membership detached, and the user erased with it.  Of a shared Workspace,
\* only the check for an active collaborator and the demotion of the user.
EraseRows(e) ==
  LET u == exec[e].user
      erases == LiveClaim(e) /\ Statuses(u) \subseteq {"none", "completed"}
      alone  == frozen[u] = "shared" /\ Active(User \ {u}) = {}
  IN  /\ exec[e].step = "erase"
      /\ \/ /\ LiveClaim(e) /\ "failed" \in Statuses(u)
            /\ Enter(e, "failed") /\ UNCHANGED <<account, member, workspace>>
         \/ /\ erases /\ frozen[u] # "shared" /\ ~Waits(Written(u))
            /\ IF frozen[u] = "personal" THEN Wiped
               ELSE member' = Detach(u) /\ UNCHANGED workspace
            /\ account' = [account EXCEPT ![u] = "deleted"]
            /\ Enter(e, "completed")
         \/ /\ erases /\ frozen[u] = "shared" /\ ~alone /\ ~Waits({u})
            /\ Enter(e, "demoted") /\ UNCHANGED <<account, member, workspace>>
         \* no longer current, no active successor, or a lock: the claim is spent
         \/ /\ LiveClaim(e) => erases /\ (alone \/ Waits(Written(u)))
            /\ Stop(e) /\ UNCHANGED <<account, member, workspace>>
      /\ UNCHANGED <<request, cancelling>> /\ UNCHANGED erasure

EnterWith(e, step, us) == exec' = [exec EXCEPT ![e].step = step, ![e].heirs = us]
InTransaction == UNCHANGED <<account, member, workspace, request, cancelling>>
                 /\ UNCHANGED erasure

\* Is there an active owner?  If not, the active collaborators are read.
FindHeirs(e) ==
  LET u == exec[e].user
  IN  /\ exec[e].step = "demoted"
      /\ EnterWith(e, "choosing", IF Owners \ {u} # {} THEN {} ELSE Active(User \ {u}))
      /\ InTransaction

\* FOR UPDATE LIMIT 1: the first of them still active when its lock is granted, or
\* nobody.  Which is the first, admins before the rest, is left open.
LockHeir(e) ==
  LET heirs == Active(exec[e].heirs)
  IN  /\ exec[e].step = "choosing"
      /\ \/ \E v \in heirs : ~Locked(v) /\ EnterWith(e, "chosen", {v})
         \/ heirs = {} /\ EnterWith(e, "chosen", {})
         \/ Waits(heirs) /\ Stop(e)
      /\ InTransaction

\* The role of the successor, the rest of the rows of the user, and the commit.
CommitErasure(e) ==
  LET u == exec[e].user
  IN  /\ exec[e].step = "chosen"
      /\ member' = [v \in User |-> IF v \in exec[e].heirs
                                  THEN [member[v] EXCEPT !.role = "owner"] ELSE Detach(u)[v]]
      /\ account' = [account EXCEPT ![u] = "deleted"]
      /\ EnterWith(e, "completed", {})
      /\ UNCHANGED <<workspace, request, cancelling>> /\ UNCHANGED erasure

\* finalize_account_deletion
FinalizeAnyClaim(e) ==
  /\ exec[e].step \in {"completed", "failed"}
  /\ request' = [request EXCEPT ![exec[e].user] = Closed(@, exec[e].step)]
  /\ Stop(e)
  /\ UNCHANGED <<account, member, workspace, cancelling>> /\ UNCHANGED erasure
Finalize(e) ==
  LET u == exec[e].user
  IN  /\ exec[e].step \in {"completed", "failed"}
      /\ IF LiveClaim(e)
         THEN request' = [request EXCEPT ![u] = Closed(@, exec[e].step)]
         ELSE UNCHANGED request
      /\ Stop(e)
      /\ UNCHANGED <<account, member, workspace, cancelling>> /\ UNCHANGED erasure

-----------------------------------------------------------------------------
(* Time and failures.                                                      *)

Lapse(u) == /\ request[u].leased
            /\ request' = [request EXCEPT ![u].leased = FALSE]
            /\ UNCHANGED <<item, uploads, secrets, exec>> /\ External

\* A crash, a cancelled task or an unclassified error abandons the claim.
Crash(e) == /\ exec[e] # Idle /\ Stop(e)
            /\ UNCHANGED <<request, item, uploads, secrets>> /\ External

-----------------------------------------------------------------------------
Asks(u) == AskDeletion(u) \/ ReadForCancel(u) \/ Cancel(u)
Access  == \/ \E actor, u \in User : RemoveMember(actor, u)
           \/ \E actor, u \in User, role \in Role, status \in {"active", "suspended"} :
                UpdateMember(actor, u, role, status)
           \/ \E u \in User, role \in Grant : Join(u, role)
           \/ DeleteWorkspace
Works(e) == \/ ClaimItems(e) \/ AfterItems(e) \/ EraseRows(e) \/ Finalize(e)
            \/ FindHeirs(e) \/ LockHeir(e) \/ CommitErasure(e)
            \/ \E k \in Kind : EraseObject(e, k) \/ CompleteItem(e, k) \/ RetryItem(e, k)

Moves == \/ \E u \in Leaver : Asks(u) \/ Exhaust(u) \/ Lapse(u)
         \/ \E e \in Executor : Works(e) \/ Crash(e) \/ \E u \in Leaver : Claim(e, u)
         \/ Access

\* The auxiliary variable: an erasure is overtaken when the last of those it has found,
\* collaborators or an owner, goes while its transaction is open and is not rolled back.
Found(e) == IF exec[e].step = "demoted" THEN Active(User \ {exec[e].user})
            ELSE (Owners \ {exec[e].user}) \cup Active(exec[e].heirs)
Deserted == {e \in Executor : Erasing(e) /\ exec'[e].step = exec[e].step /\ Found(e)' = {}}
Overtaking == overtaken' = {u \in overtaken \cup {exec[e].user : e \in Deserted} :
                              u \in UnderErasure' \/ account'[u] = "deleted"}

Next == Moves /\ Overtaking

Spec == Init /\ [][Next]_vars

\* The loop of composition.py claims again and again, an executor works on, leases end.
Fairness == /\ \A e \in Executor : WF_stateVars(Works(e))
            /\ \A u \in Leaver :
                 WF_stateVars(Lapse(u) \/ Exhaust(u) \/ \E e \in Executor : Claim(e, u))
FairSpec == Spec /\ Fairness

-----------------------------------------------------------------------------
(* PROPERTIES                                                              *)

\* What a settled request says is true: a completed one has erased its account, the
\* credentials of the user and, if the Workspace was the user's alone, all of it; a
\* cancelled one has not touched the account, though the executor may have been
\* claiming it (finalize_account_deletion, cancel_account_deletion).
VerdictHolds ==
  \A u \in User :
    /\ request[u].status = "completed" =>
         /\ account[u] = "deleted" /\ u \notin secrets
         /\ Statuses(u) \subseteq {"none", "completed"}
         /\ frozen[u] = "personal" => ~uploads /\ workspace = "wiped"
    /\ request[u].status = "cancelled" =>
         /\ account[u] = "active" /\ frozen[u] = "none"
         /\ Statuses(u) = {"none"} /\ request[u].holder = NoExecutor

\* A live Workspace has an active owner, or is still owned by a user whose deletion
\* has been claimed and is not completed: updates, removals and erasures that lock no
\* more than their rows leave it with nobody to manage it in two ways only.  One is to
\* erase a user who became an active member, and perhaps the successor, after its claim
\* found no disposition to take; if the lease lapses then, a later claim may find one,
\* and be under way with it.  The other is to overtake an erasure: the last
\* owner, collaborator or candidate it has found leaves while its transaction is open,
\* which does not lock the Workspace as count_active_owners asks, and it completes with
\* no successor.
UnderWay(u) == frozen[u] = "shared" /\ request[u].status \in {"running", "failed"}
Attended == \/ Owners # {}
            \/ \E u \in User : /\ member[u] = [role |-> "owner", status |-> "suspended"]
                              /\ UnderWay(u)
LateJoiner(u) == frozen[u] = "none" \/ UnderWay(u)
OwnedUnlessDeleting ==
  workspace = "live" =>
    Attended \/ \E u \in User : account[u] = "deleted" /\ (LateJoiner(u) \/ u \in overtaken)

\* The same of every erasure, overtaken or not: the last active owner of a Workspace is
\* demoted or removed only in a transaction that lock protects (count_active_owners),
\* so that no order of members' commands and erasures leaves a Workspace ownerless.
OwnerRemains ==
  workspace = "live" =>
    Attended \/ \E u \in User : account[u] = "deleted" /\ LateJoiner(u)

\* Each step is one that AccountErasure allows, or none of its business: a late
\* executor, a second claim, a lost verdict or a withdrawal that meets a claim do
\* nothing to users, files and credentials that the promise does not know.
Erasure == INSTANCE AccountErasure WITH
             status <- [u \in User |-> request[u].status], files <- uploads
ErasesAsPromised == [][Erasure!ENext]_(Erasure!eVars)

\* A deletion that is claimed ends, however often its claim is lost, given back after
\* progress, or spent waiting for mail, items or a successor.
DeletionEnds ==
  \A u \in Leaver : request[u].status = "running" ~> request[u].status \in Settled
=============================================================================
