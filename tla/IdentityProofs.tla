---------------------------- MODULE IdentityProofs ----------------------------
(***************************************************************************)
(* Theorems about the identity domain.  First the deletion of an account,  *)
(* for any number of users, executors, attempts and retries; then the      *)
(* e-mail outbox, for any number of messages and workers, any batch,       *)
(* attempt limit and number of faults; then authorization codes and        *)
(* refresh tokens, for any number of requests, codes and sessions.         *)
(***************************************************************************)
EXTENDS AccountDeletion, IdentityMail, RefreshTokens, FiniteSetTheorems, TLAPS

\* The executor has claimed the deletion of u, once at least.
Started(u) == request[u].status \in {"running", "completed", "failed"}

\* Nothing is done for a request before it is claimed, and the account follows it.
Untouched(u) == ~Started(u) =>
  /\ frozen[u] = "none" /\ \A k \in Kind : item[u][k].status = "none"
  /\ account[u] = IF request[u].status = "scheduled" THEN "scheduled" ELSE "active"

\* Items tell the truth about the object store and the vault, and none is missing.
ItemsTrue(u) ==
  /\ \A k \in Kind : item[u][k].status = "completed" => Gone(u, k)
  /\ Started(u) /\ item[u]["credential"].status = "none" => u \notin secrets
  /\ frozen[u] = "personal" => item[u]["upload"].status # "none" /\ workspace # "live"

Erased(u) ==
  /\ account[u] = "deleted" /\ u \notin secrets
  /\ \A k \in Kind : item[u][k].status \in {"none", "completed"}
  /\ frozen[u] = "personal" => ~uploads /\ workspace = "wiped"

UserOK(u) == /\ request[u].leased => request[u].claims # 0
             /\ Untouched(u) /\ ItemsTrue(u)
             /\ request[u].status = "completed" => Erased(u)

\* An executor that has erased the rows of its user, and may say so.
Done(e) == exec[e].step = "completed" /\ LiveClaim(e)
ExecOK(e) == /\ exec[e] # Idle => exec[e].user \in User
             /\ exec[e].todo # {} => exec[e].step = "items"
             /\ Done(e) => Erased(exec[e].user)

\* Who excuses a live Workspace without an owner: a user whose claim has still to
\* choose the successor.
Choosing(u) == UnderWay(u) /\ \A e \in Executor : Done(e) => exec[e].user # u
Excused(u) == \/ member[u] = [role |-> "owner", status |-> "suspended"] /\ Choosing(u)
              \/ account[u] = "deleted" /\ (frozen[u] = "none" \/ Choosing(u) \/ u \in overtaken)
Owned == workspace = "live" => Owners # {} \/ \E u \in User : Excused(u)

Typed == /\ RowsTypeOK
         /\ \A u \in User : request[u] \in Request /\ member[u] \in Member
         /\ \A u \in User, k \in Kind : item[u][k] \in Item
         /\ \A e \in Executor : exec[e] \in Exec

RowsInv == RowsTypeOK /\ Owned
           /\ (\A u \in User : UserOK(u)) /\ (\A e \in Executor : ExecOK(e))

\* An open transaction on a shared Workspace: its locks keep the claim and the items as
\* it has read them, and what it has found is there, or it is overtaken.
TransactionOK(e) == Erasing(e) =>
  /\ request[exec[e].user].status = "running" /\ request[exec[e].user].holder = e
  /\ Statuses(exec[e].user) \subseteq {"none", "completed"} /\ frozen[exec[e].user] = "shared"
  /\ exec[e].step # "demoted" => exec[e].heirs \subseteq User \ {exec[e].user}
  /\ Found(e) # {} \/ exec[e].user \in overtaken
TransactionsInv == overtaken \subseteq User /\ \A e \in Executor : TransactionOK(e)

DeletionInv == RowsInv /\ TransactionsInv

\* An erasure that was overtaken is remembered.
Remembers == \A u \in User : u \in overtaken /\ account'[u] = "deleted" => u \in overtaken'

-----------------------------------------------------------------------------
LEMMA RowsInitInv == Init => RowsInv
<1> SUFFICES ASSUME Init PROVE RowsInv OBVIOUS
<1>1. RowsTypeOK
  <2>1. member \in [User -> Member]
    <3>1. PICK owner \in User : \E others \in [User \ {owner} -> Grant] :
            member = [u \in User |-> [role |-> IF u = owner THEN "owner" ELSE others[u],
                                      status |-> "active"]]
      BY DEF Init
    <3>2. PICK others \in [User \ {owner} -> Grant] :
            member = [u \in User |-> [role |-> IF u = owner THEN "owner" ELSE others[u],
                                      status |-> "active"]]
      BY <3>1
    <3>3. \A u \in User : (IF u = owner THEN "owner" ELSE others[u]) \in Role
      BY GrantAssumption DEF Role
    <3> QED BY <3>2, <3>3 DEF Member
  <2>2. request \in [User -> Request]
    BY LimitAssumption DEF Init, Request, Holder
  <2>3. item \in [User -> [Kind -> Item]]
    BY LimitAssumption DEF Init, Item, NoItem
  <2>4. exec \in [Executor -> Exec] BY DEF Init, Exec, Idle
  <2>5. secrets \subseteq User BY UserAssumption DEF Init
  <2> QED BY <2>1, <2>2, <2>3, <2>4, <2>5 DEF Init, RowsTypeOK
<1>2. Owned
  <2>1. PICK owner \in User : member[owner] = [role |-> "owner", status |-> "active"]
    BY DEF Init
  <2>2. owner \in Owners BY <2>1 DEF Owners, Active
  <2> QED BY <2>2 DEF Owned
<1>3. \A u \in User : UserOK(u)
  BY DEF Init, UserOK, Untouched, ItemsTrue, Started, NoItem, Kind
<1>4. \A e \in Executor : ExecOK(e) BY DEF Init, ExecOK, Idle, Done
<1> QED BY <1>1, <1>2, <1>3, <1>4 DEF RowsInv

\* The types of single rows and executors.
LEMMA RowsTyped == ASSUME RowsInv PROVE Typed
BY DEF RowsInv, Typed, RowsTypeOK

-----------------------------------------------------------------------------
(* What is erased stays so.                                                *)
Later == /\ uploads' => uploads
         /\ secrets' \subseteq secrets
         /\ \/ workspace' = workspace
            \/ workspace' = "wiped"
            \/ workspace = "live" /\ workspace' = "deleted"

\* The rows of u.
Rests(u) == /\ request'[u] = request[u] /\ frozen'[u] = frozen[u]
            /\ item'[u] = item[u] /\ account'[u] = account[u]

\* What is in order for a user stays so while the rows of that user rest.
LEMMA UserKept ==
  ASSUME NEW u, UserOK(u), Later, Rests(u)
  PROVE  UserOK(u)'
BY DEF UserOK, Later, Rests, Started, Untouched, ItemsTrue, Erased, Gone, Kind

\* An executor that rests, while the rows of its user rest or its claim is over.
LEMMA ExecKept ==
  ASSUME NEW e, ExecOK(e), Later, exec'[e] = exec[e],
         Done(e)' => Rests(exec[e].user)
  PROVE  ExecOK(e)'
<1>1. CASE Done(e)'
  <2>1. Done(e) BY <1>1 DEF Done, LiveClaim, Rests
  <2>2. Erased(exec[e].user)' BY <1>1, <2>1 DEF ExecOK, Erased, Later, Rests
  <2> QED BY <2>2 DEF ExecOK
<1>2. CASE ~Done(e)' BY <1>2 DEF ExecOK
<1> QED BY <1>1, <1>2

\* A live Workspace keeps its owner or its excuse.
LEMMA OwnedKept ==
  ASSUME Owned, Remembers, member' = member, frozen' = frozen,
         workspace' = "live" => workspace = "live",
         \A u \in User : /\ account[u] = "deleted" => account'[u] = "deleted"
                         /\ Choosing(u) => Choosing(u)'
  PROVE  Owned'
<1>1. Owners' = Owners BY DEF Owners, Active
<1>2. \A u \in User : Excused(u) => Excused(u)' BY DEF Excused, Remembers
<1> QED BY <1>1, <1>2 DEF Owned

-----------------------------------------------------------------------------
(* Members and users.                                                      *)

\* Executors go on as they were, but may have lost candidates.
GoesOn(e) == /\ exec'[e].user = exec[e].user /\ exec'[e].todo = exec[e].todo
             /\ exec'[e].step = exec[e].step /\ exec'[e].heirs \subseteq exec[e].heirs
             /\ exec[e] = Idle => exec'[e] = Idle
AllGoOn == exec' \in [Executor -> Exec] /\ \A e \in Executor : GoesOn(e)

LEMMA GoOn ==
  ASSUME RowsInv, UNCHANGED exec \/ \E u \in User : Forget(u)
  PROVE  AllGoOn
<1>1. exec \in [Executor -> Exec] BY DEF RowsInv, RowsTypeOK
<1>2. CASE UNCHANGED exec BY <1>1, <1>2 DEF AllGoOn, GoesOn
<1>3. ASSUME NEW u \in User, Forget(u) PROVE AllGoOn
  <2>1. \A e \in Executor : exec'[e] = [exec[e] EXCEPT !.heirs = @ \ {u}]
    BY <1>1, <1>3 DEF Forget
  <2>2. ASSUME NEW e \in Executor PROVE exec'[e] \in Exec /\ GoesOn(e)
    <3> DEFINE lost == [exec[e] EXCEPT !.heirs = @ \ {u}]
    <3>1. exec[e] \in Exec /\ exec'[e] = lost BY <1>1, <2>1
    <3>2. /\ lost.user = exec[e].user /\ lost.todo = exec[e].todo
          /\ lost.step = exec[e].step /\ lost.heirs = exec[e].heirs \ {u}
      BY <3>1 DEF Exec
    <3>3. lost \in Exec BY <3>1, <3>2 DEF Exec
    <3>4. ASSUME exec[e] = Idle PROVE lost = Idle BY <3>4 DEF Idle
    <3>5. exec'[e] \in Exec BY <3>1, <3>3
    <3>6. GoesOn(e) BY <3>1, <3>2, <3>4 DEF GoesOn
    <3> QED BY <3>5, <3>6
  <2>3. exec' \in [Executor -> Exec] BY <1>3, <2>2 DEF Forget
  <2> QED BY <2>2, <2>3 DEF AllGoOn
<1> QED BY <1>2, <1>3

\* Whatever members do to each other leaves an owner.
LEMMA MembersStep ==
  ASSUME RowsInv, Remembers, Unmanaged, AllGoOn, member' \in [User -> Member],
         Owners # {} => Owners' # {},
         \A u \in User : member[u] = [role |-> "owner", status |-> "suspended"]
                           => member'[u] = member[u] \/ Owners # {}
  PROVE  RowsInv'
<1>1. RowsTypeOK' BY DEF RowsInv, RowsTypeOK, Unmanaged, AllGoOn, erasure
<1>2. Later /\ \A u \in User : Rests(u) BY DEF Unmanaged, erasure, Later, Rests
<1>3. \A u \in User : UserOK(u)' BY <1>2, UserKept DEF RowsInv
<1>4. \A e \in Executor : ExecOK(e)'
  <2> SUFFICES ASSUME NEW e \in Executor PROVE ExecOK(e)' OBVIOUS
  <2>1. GoesOn(e) /\ ExecOK(e) BY DEF AllGoOn, RowsInv
  <2>2. Done(e)' => Done(e) BY <2>1 DEF Done, LiveClaim, GoesOn, Unmanaged
  <2> DEFINE u == exec[e].user
  <2>3. exec'[e].user = u BY <2>1 DEF GoesOn
  <2>4. ASSUME Done(e)' PROVE Erased(exec[e].user)'
    <3>1. Erased(u) BY <2>1, <2>2, <2>4 DEF ExecOK
    <3>2. UNCHANGED <<account, secrets, item, frozen, uploads, workspace>>
      BY DEF Unmanaged, erasure
    <3> QED BY <2>3, <3>1, <3>2 DEF Erased
  <2>5. /\ exec'[e] # Idle => exec'[e].user \in User
        /\ exec'[e].todo # {} => exec'[e].step = "items"
    BY <2>1, <2>3 DEF ExecOK, GoesOn
  <2> QED BY <2>4, <2>5 DEF ExecOK
<1>5. Owned'
  <2>1. CASE Owners # {} BY <2>1 DEF Owned
  <2>2. CASE Owners = {} /\ workspace = "live"
    <3>1. PICK u \in User : Excused(u) BY <2>2 DEF RowsInv, Owned
    <3>2. UNCHANGED <<account, frozen, request>> BY DEF Unmanaged, erasure
    <3>3. Choosing(u) => Choosing(u)'
      BY <3>2 DEF Choosing, UnderWay, Done, LiveClaim, AllGoOn, GoesOn
    <3>4. Excused(u)' BY <2>2, <3>1, <3>2, <3>3 DEF Excused, Remembers
    <3> QED BY <3>4 DEF Owned
  <2>3. CASE workspace # "live" BY <2>3 DEF Owned, Unmanaged
  <2> QED BY <2>1, <2>2, <2>3
<1> QED BY <1>1, <1>3, <1>4, <1>5 DEF RowsInv

\* The last active owner is alone.
LEMMA LastOwner ==
  ASSUME NEW u \in User, ~LosesOwner(u)
  PROVE  Owners \ {u} # {} \/ u \notin Owners
<1> SUFFICES ASSUME Owners = {u} PROVE FALSE BY DEF LosesOwner
<1>1. Cardinality(Owners) = 1 BY FS_Singleton
<1> QED BY <1>1 DEF LosesOwner

\* Members join, change roles, suspend and remove one another; an owner deletes the Workspace.
LEMMA AccessStep ==
  ASSUME RowsInv, Remembers, Access
  PROVE  RowsInv'
<1> USE RowsTyped DEF Typed
<1>1. ASSUME NEW actor \in User, NEW u \in User, RemoveMember(actor, u) PROVE RowsInv'
  <2>1. member' = [member EXCEPT ![u] = NoMember] /\ Unmanaged /\ AllGoOn
    BY <1>1, GoOn DEF RemoveMember
  <2>2. NoMember \in Member BY DEF NoMember, Member, Role
  <2>3. member' \in [User -> Member] /\ \A v \in User \ {u} : member'[v] = member[v]
    BY <2>1, <2>2 DEF RowsTypeOK
  <2>4. Owners \ {u} \subseteq Owners' BY <2>3 DEF Owners, Active
  <2>5. Owners # {} => Owners \ {u} # {} BY <1>1, LastOwner DEF RemoveMember
  <2>6. member[u].role = "owner" => actor \in Owners
    BY <1>1 DEF RemoveMember, Manages, Owners, Active
  <2> QED BY <2>1, <2>3, <2>4, <2>5, <2>6, MembersStep
<1>2. ASSUME NEW actor \in User, NEW u \in User, NEW role \in Role,
             NEW status \in {"active", "suspended"}, UpdateMember(actor, u, role, status)
      PROVE  RowsInv'
  <2> DEFINE revised == [role |-> role, status |-> status]
  <2>1. member' = [member EXCEPT ![u] = revised] /\ Unmanaged /\ AllGoOn
    BY <1>2, GoOn DEF UpdateMember
  <2>2. revised \in Member BY DEF Member
  <2>3. /\ member' \in [User -> Member] /\ member'[u] = revised
        /\ \A v \in User \ {u} : member'[v] = member[v]
    BY <2>1, <2>2 DEF RowsTypeOK
  <2>4. Owners \ {u} \subseteq Owners' BY <2>3 DEF Owners, Active
  <2>5. Owners # {} => Owners \ {u} # {} \/ u \in Owners'
    <3>1. CASE revised = [role |-> "owner", status |-> "active"]
      BY <2>3, <3>1 DEF Owners, Active
    <3>2. CASE revised # [role |-> "owner", status |-> "active"]
      BY <1>2, <3>2, LastOwner DEF UpdateMember
    <3> QED BY <3>1, <3>2
  <2>6. member[u].role = "owner" => actor \in Owners
    BY <1>2 DEF UpdateMember, Manages, Owners, Active
  <2> QED BY <2>1, <2>3, <2>4, <2>5, <2>6, MembersStep
<1>3. ASSUME NEW u \in User, NEW role \in Grant, Join(u, role) PROVE RowsInv'
  <2> DEFINE joined == [role |-> role, status |-> "active"]
  <2>1. /\ member' = [member EXCEPT ![u] = joined] /\ Unmanaged /\ AllGoOn
        /\ member[u].status = "none"
    BY <1>3, GoOn DEF Join
  <2>2. joined \in Member BY GrantAssumption DEF Member, Role
  <2>3. /\ member' \in [User -> Member] /\ \A v \in User \ {u} : member'[v] = member[v]
    BY <2>1, <2>2 DEF RowsTypeOK
  <2>4. Owners \subseteq Owners' BY <2>1, <2>3 DEF Owners, Active
  <2>5. member[u] # [role |-> "owner", status |-> "suspended"] BY <2>1
  <2> QED BY <2>1, <2>3, <2>4, <2>5, MembersStep
<1>4. CASE DeleteWorkspace
  <2>1. RowsTypeOK' BY <1>4 DEF RowsInv, RowsTypeOK, DeleteWorkspace, erasure
  <2>2. Later /\ \A u \in User : Rests(u) BY <1>4 DEF DeleteWorkspace, erasure, Later, Rests
  <2>3. \A u \in User : UserOK(u)' BY <2>2, UserKept DEF RowsInv
  <2>4. \A e \in Executor : ExecOK(e)'
    <3> SUFFICES ASSUME NEW e \in Executor PROVE ExecOK(e)' OBVIOUS
    <3>1. exec'[e] = exec[e] /\ Rests(exec[e].user) BY <1>4 DEF DeleteWorkspace, Rests, erasure
    <3> QED BY <2>2, <3>1, ExecKept DEF RowsInv
  <2>5. Owned' BY <1>4 DEF DeleteWorkspace, Owned
  <2> QED BY <2>1, <2>3, <2>4, <2>5 DEF RowsInv
<1> QED BY <1>1, <1>2, <1>3, <1>4 DEF Access

-----------------------------------------------------------------------------
(* Steps about one user.                                                   *)

\* A step on the rows of u that leaves no live claim of u and no executor's work.
LEMMA UserStep ==
  ASSUME RowsInv, Remembers, NEW u \in User, RowsTypeOK', Later, UserOK(u)',
         UNCHANGED <<member, frozen, exec>>,
         \A v \in User \ {u} : Rests(v),
         ~request'[u].leased,
         UnderWay(u) => UnderWay(u)',
         account[u] = "deleted" => account'[u] = "deleted"
  PROVE  RowsInv'
<1>1. ASSUME NEW v \in User PROVE UserOK(v)'
  BY UserKept DEF RowsInv
<1>2. ASSUME NEW f \in Executor, Done(f)'
      PROVE  exec[f].user # u /\ exec[f].user \in User
  <2>1. exec[f].step = "completed" /\ exec[f] # Idle BY <1>2 DEF Done, Idle
  <2> QED BY <1>2, <2>1 DEF Done, LiveClaim, RowsInv, ExecOK
<1>3. ASSUME NEW f \in Executor PROVE ExecOK(f)'
  BY <1>2, ExecKept DEF RowsInv
<1>4. ASSUME NEW v \in User, Choosing(v) PROVE Choosing(v)'
  <2>1. UnderWay(v)' BY <1>4 DEF Choosing, UnderWay, Rests
  <2>2. ASSUME NEW f \in Executor, Done(f)' PROVE exec'[f].user # v
    <3>1. Rests(exec[f].user) BY <1>2, <2>2
    <3>2. Done(f) BY <2>2, <3>1 DEF Done, LiveClaim, Rests
    <3> QED BY <1>4, <3>2 DEF Choosing
  <2> QED BY <2>1, <2>2 DEF Choosing
<1>5. workspace' = "live" => workspace = "live" BY DEF Later
<1>6. \A v \in User : account[v] = "deleted" => account'[v] = "deleted" BY DEF Rests
<1>7. Owned' BY <1>4, <1>5, <1>6, OwnedKept DEF RowsInv
<1> QED BY <1>1, <1>3, <1>7 DEF RowsInv

\* A step of executor e on the rows of its user, under its live claim if it changes any.
LEMMA ExecutorStep ==
  ASSUME RowsInv, Remembers, NEW e \in Executor, NEW u \in User, exec[e].user = u,
         RowsTypeOK', Later, UserOK(u)',
         UNCHANGED <<member, frozen, account>>,
         \A f \in Executor \ {e} : exec'[f] = exec[f],
         exec'[e].step # "completed",
         exec'[e] # Idle => exec'[e].user = u,
         exec'[e].todo # {} => exec'[e].step = "items",
         \A v \in User \ {u} : Rests(v),
         Rests(u) \/ (LiveClaim(e) /\ request'[u].holder \in {e, NoExecutor}),
         Choosing(u) => UnderWay(u)'
  PROVE  RowsInv'
<1>1. ASSUME NEW v \in User PROVE UserOK(v)'
  BY UserKept DEF RowsInv
<1>2. ASSUME NEW f \in Executor, Done(f)'
      PROVE  f # e /\ exec'[f] = exec[f] /\ exec[f].user \in User /\ Rests(exec[f].user)
  <2>1. f # e /\ exec'[f] = exec[f] /\ exec[f] # Idle BY <1>2 DEF Done, Idle
  <2>2. exec[f].user \in User BY <2>1 DEF RowsInv, ExecOK
  <2>3. CASE exec[f].user = u
    <3>1. request'[u].holder = f /\ f # NoExecutor
      BY <1>2, <2>1, <2>3, UserAssumption DEF Done, LiveClaim
    <3> QED BY <2>1, <2>2, <2>3, <3>1
  <2> QED BY <2>1, <2>2, <2>3
<1>3. ASSUME NEW f \in Executor PROVE ExecOK(f)'
  <2>1. CASE f = e
    BY <2>1 DEF ExecOK, Done
  <2>2. CASE f # e BY <1>2, <2>2, ExecKept DEF RowsInv
  <2> QED BY <2>1, <2>2
<1>4. ASSUME NEW v \in User, Choosing(v) PROVE Choosing(v)'
  <2>1. UnderWay(v)' BY <1>4 DEF Choosing, UnderWay, Rests
  <2>2. ASSUME NEW f \in Executor, Done(f)' PROVE exec'[f].user # v
    <3>1. Rests(exec[f].user) /\ exec'[f] = exec[f] BY <1>2, <2>2
    <3>2. Done(f) BY <2>2, <3>1 DEF Done, LiveClaim, Rests
    <3> QED BY <1>4, <3>1, <3>2 DEF Choosing
  <2> QED BY <2>1, <2>2 DEF Choosing
<1>5. workspace' = "live" => workspace = "live" BY DEF Later
<1>6. Owned' BY <1>4, <1>5, OwnedKept DEF RowsInv
<1> QED BY <1>1, <1>3, <1>6 DEF RowsInv

-----------------------------------------------------------------------------
(* The user asks and withdraws; the lease of a claim, and its claims, end. *)
LEMMA AskStep ==
  ASSUME RowsInv, Remembers, NEW u \in User, AskDeletion(u)
  PROVE  RowsInv'
<1> USE RowsTyped DEF Typed
<1>1. /\ UNCHANGED <<member, workspace, cancelling, exec>> /\ UNCHANGED erasure
      /\ account[u] = "active" /\ request[u].status = "none"
      /\ account' = [account EXCEPT ![u] = "scheduled"]
      /\ request' = [request EXCEPT ![u] = [request[u] EXCEPT !.status = "scheduled"]]
  BY DEF AskDeletion
<1>2. /\ request[u].holder = NoExecutor /\ ~request[u].leased BY <1>1 DEF RowsInv, RowsTypeOK
<1>3. /\ request'[u] \in Request /\ request'[u].status = "scheduled"
      /\ request'[u].holder = NoExecutor /\ ~request'[u].leased
      /\ \A v \in User \ {u} : request'[v] = request[v]
  BY <1>1, <1>2 DEF RowsTypeOK, Request
<1>4. RowsTypeOK' BY <1>1, <1>3 DEF RowsInv, RowsTypeOK, erasure
<1>5. Later /\ \A v \in User \ {u} : Rests(v) BY <1>1, <1>3 DEF Later, Rests, erasure, RowsTypeOK
<1>6. account'[u] = "scheduled" BY <1>1 DEF RowsTypeOK
<1>7. UserOK(u)'
  BY <1>1, <1>3, <1>6 DEF RowsInv, UserOK, Untouched, ItemsTrue, Started, erasure
<1> QED BY <1>1, <1>3, <1>4, <1>5, <1>7, UserStep DEF UnderWay, erasure

\* A cancellation reads the request.
LEMMA ReadStep ==
  ASSUME RowsInv, Remembers, NEW u \in User, ReadForCancel(u)
  PROVE  RowsInv'
<1>1. /\ UNCHANGED <<account, member, workspace, request, exec>> /\ UNCHANGED erasure
      /\ request[u].status = "scheduled" /\ cancelling' = cancelling \cup {u}
  BY DEF ReadForCancel
<1>2. RowsTypeOK' BY <1>1 DEF RowsInv, RowsTypeOK, erasure
<1>3. Later /\ \A v \in User : Rests(v) BY <1>1 DEF Later, Rests, erasure
<1>4. UserOK(u)' BY <1>3, UserKept DEF RowsInv
<1>5. ~request'[u].leased BY <1>1 DEF RowsInv, RowsTypeOK
<1> QED BY <1>1, <1>2, <1>3, <1>4, <1>5, UserStep DEF UnderWay, erasure

\* It saves the request it has read, unless a claim came between.
LEMMA CancelStep ==
  ASSUME RowsInv, Remembers, NEW u \in User, Cancel(u)
  PROVE  RowsInv'
<1> USE RowsTyped DEF Typed
<1>1. /\ UNCHANGED <<member, workspace, exec>> /\ UNCHANGED erasure
      /\ cancelling' = cancelling \ {u}
  BY DEF Cancel
<1>2. CASE request[u].status = "scheduled"
  <2>1. /\ request' = [request EXCEPT ![u] = [request[u] EXCEPT !.status = "cancelled"]]
        /\ account' = [account EXCEPT ![u] = "active"]
    BY <1>2 DEF Cancel, SavedAsRead
  <2>2. /\ request[u].holder = NoExecutor /\ ~request[u].leased BY <1>2 DEF RowsInv, RowsTypeOK
  <2>3. /\ request'[u] \in Request /\ request'[u].status = "cancelled"
        /\ request'[u].holder = NoExecutor /\ ~request'[u].leased
        /\ \A v \in User \ {u} : request'[v] = request[v]
    BY <2>1, <2>2 DEF RowsTypeOK, Request, Settled
  <2>4. RowsTypeOK' BY <1>1, <2>1, <2>3 DEF RowsInv, RowsTypeOK, erasure
  <2>5. Later /\ \A v \in User \ {u} : Rests(v)
    BY <1>1, <2>1, <2>3 DEF Later, Rests, erasure, RowsTypeOK
  <2>6. account'[u] = "active" BY <2>1 DEF RowsTypeOK
  <2>7. account[u] # "deleted" /\ ~UnderWay(u)
    BY <1>2 DEF RowsInv, UserOK, Untouched, Started, UnderWay
  <2>8. UserOK(u)'
    BY <1>1, <1>2, <2>3, <2>6 DEF RowsInv, UserOK, Untouched, ItemsTrue, Started, erasure
  <2> QED BY <1>1, <2>3, <2>4, <2>5, <2>7, <2>8, UserStep DEF erasure
<1>3. CASE request[u].status # "scheduled"
  <2>1. UNCHANGED <<request, account>> BY <1>3 DEF Cancel, SavedAsRead
  <2>2. RowsTypeOK' BY <1>1, <2>1 DEF RowsInv, RowsTypeOK, erasure
  <2>3. Later /\ \A v : Rests(v) BY <1>1, <2>1 DEF Later, Rests, erasure
  <2>4. \A v \in User : UserOK(v)' BY <2>3, UserKept DEF RowsInv
  <2>5. \A f \in Executor : ExecOK(f)' BY <1>1, <2>3, ExecKept DEF RowsInv
  <2>6. \A v \in User : Choosing(v) => Choosing(v)'
    BY <1>1, <2>1 DEF Choosing, UnderWay, Done, LiveClaim, erasure
  <2>7. Owned' BY <1>1, <2>1, <2>6, OwnedKept DEF RowsInv, erasure
  <2> QED BY <2>2, <2>4, <2>5, <2>7 DEF RowsInv
<1> QED BY <1>2, <1>3

\* A lease ends: whoever held it has no live claim.
LEMMA LapseStep ==
  ASSUME RowsInv, Remembers, NEW u \in User, Lapse(u)
  PROVE  RowsInv'
<1> USE RowsTyped DEF Typed
<1>1. /\ UNCHANGED <<item, uploads, secrets, exec>> /\ External /\ request[u].leased
      /\ request' = [request EXCEPT ![u] = [request[u] EXCEPT !.leased = FALSE]]
  BY DEF Lapse
<1>2. /\ request'[u] \in Request /\ request'[u].status = request[u].status
      /\ request'[u].holder = request[u].holder /\ ~request'[u].leased
      /\ \A v \in User \ {u} : request'[v] = request[v]
  BY <1>1 DEF RowsTypeOK, Request
<1>3. RowsTypeOK' BY <1>1, <1>2 DEF RowsInv, RowsTypeOK, External
<1>4. Later /\ \A v \in User \ {u} : Rests(v) BY <1>1, <1>2 DEF Later, Rests, External
<1>5. UserOK(u)'
  BY <1>1, <1>2 DEF RowsInv, UserOK, Untouched, ItemsTrue, Erased, Started, Gone, External
<1>6. UnderWay(u) => UnderWay(u)' BY <1>1, <1>2 DEF UnderWay, External
<1> QED BY <1>1, <1>2, <1>3, <1>4, <1>5, <1>6, UserStep DEF External

\* The sweep gives up a deletion that was claimed too often.
LEMMA ExhaustStep ==
  ASSUME RowsInv, Remembers, NEW u \in User, Exhaust(u)
  PROVE  RowsInv'
<1> USE RowsTyped DEF Typed
<1>1. /\ UNCHANGED <<account, member, workspace, cancelling, exec>> /\ UNCHANGED erasure
      /\ request[u].status = "running"
      /\ request' = [request EXCEPT ![u] = Closed(request[u], "failed")]
  BY DEF Exhaust
<1>2. /\ request'[u] \in Request /\ request'[u].status = "failed"
      /\ request'[u].holder = NoExecutor /\ ~request'[u].leased
      /\ \A v \in User \ {u} : request'[v] = request[v]
  BY <1>1 DEF RowsTypeOK, Request, Closed, Settled, Holder
<1>3. RowsTypeOK' BY <1>1, <1>2 DEF RowsInv, RowsTypeOK, erasure
<1>4. Later /\ \A v \in User \ {u} : Rests(v) BY <1>1, <1>2 DEF Later, Rests, erasure
<1>5. UserOK(u)'
  BY <1>1, <1>2 DEF RowsInv, UserOK, Untouched, ItemsTrue, Started, Gone, erasure
<1>6. UnderWay(u) => UnderWay(u)' BY <1>1, <1>2 DEF UnderWay, erasure
<1> QED BY <1>1, <1>2, <1>3, <1>4, <1>5, <1>6, UserStep DEF erasure

-----------------------------------------------------------------------------
(* Executors.                                                              *)

\* The user of an executor at work.
LEMMA AtWork ==
  ASSUME RowsInv, NEW e \in Executor, exec[e].step # "idle" \/ exec[e] # Idle
  PROVE  /\ exec[e].user \in User /\ exec[e] \in Exec /\ e # NoExecutor
         /\ exec[e].todo # {} => exec[e].step = "items"
         /\ exec[e].todo \subseteq Kind
BY UserAssumption DEF RowsInv, ExecOK, Idle, RowsTypeOK, Exec

\* What the moves of an executor do to its record.
LEMMA ExecMoves ==
  ASSUME RowsInv, NEW e \in Executor
  PROVE  /\ Stop(e) => exec'[e] = Idle
         /\ \A step : Enter(e, step) =>
              /\ exec'[e].step = step /\ exec'[e].user = exec[e].user
              /\ exec'[e].todo = exec[e].todo
         /\ \A step, us : EnterWith(e, step, us) =>
              /\ exec'[e].step = step /\ exec'[e].user = exec[e].user
              /\ exec'[e].todo = exec[e].todo /\ exec'[e].heirs = us
         /\ (Stop(e) \/ (\E step : Enter(e, step)) \/ \E step, us : EnterWith(e, step, us))
              => \A f \in Executor \ {e} : exec'[f] = exec[f]
<1> USE RowsTyped DEF Typed
<1>1. exec \in [Executor -> Exec] /\ exec[e] \in Exec BY DEF RowsInv, RowsTypeOK
<1>2. Stop(e) => exec'[e] = Idle BY <1>1 DEF Stop
<1>3. ASSUME NEW step, Enter(e, step)
      PROVE  /\ exec'[e].step = step /\ exec'[e].user = exec[e].user
             /\ exec'[e].todo = exec[e].todo
  <2>1. exec'[e] = [exec[e] EXCEPT !.step = step] BY <1>1, <1>3 DEF Enter
  <2> QED BY <1>1, <2>1 DEF Exec
<1>4. ASSUME NEW step, NEW us, EnterWith(e, step, us)
      PROVE  /\ exec'[e].step = step /\ exec'[e].user = exec[e].user
             /\ exec'[e].todo = exec[e].todo /\ exec'[e].heirs = us
  BY <1>1, <1>4 DEF EnterWith, Exec
<1>5. (Stop(e) \/ (\E step : Enter(e, step)) \/ \E step, us : EnterWith(e, step, us))
        => \A f \in Executor \ {e} : exec'[f] = exec[f]
  <2>1. Stop(e) => \A f \in Executor \ {e} : exec'[f] = exec[f] BY <1>1 DEF Stop
  <2>2. ASSUME NEW step, Enter(e, step) PROVE \A f \in Executor \ {e} : exec'[f] = exec[f]
    BY <1>1, <2>2 DEF Enter
  <2>3. ASSUME NEW step, NEW us, EnterWith(e, step, us)
        PROVE  \A f \in Executor \ {e} : exec'[f] = exec[f]
    BY <1>1, <2>3 DEF EnterWith
  <2> QED BY <2>1, <2>2, <2>3
<1> QED BY <1>2, <1>3, <1>4, <1>5

\* The items of a claimed user change: what is completed is gone, what is listed stays.
LEMMA ItemsChange ==
  ASSUME RowsInv, NEW u \in User,
         request[u].status = "running", request'[u].status = "running",
         request'[u].leased => request'[u].claims # 0,
         UNCHANGED <<workspace, frozen, uploads, secrets>>,
         \A k \in Kind : /\ item'[u][k].status = "completed" => Gone(u, k)
                         /\ item'[u][k].status = "none" => item[u][k].status = "none"
  PROVE  UserOK(u)'
BY DEF RowsInv, UserOK, Untouched, ItemsTrue, Started, Gone, Kind

\* An executor moves on, gives up or crashes, and nothing else happens.
LEMMA MovesStep ==
  ASSUME RowsInv, Remembers, NEW e \in Executor, exec[e] # Idle,
         UNCHANGED <<account, member, workspace, request, cancelling>>, UNCHANGED erasure,
         \/ Stop(e)
         \/ \E step \in {"items", "erase", "demoted", "failed"} :
              Enter(e, step) /\ exec[e].todo = {}
         \/ \E x \in Exec : /\ exec' = [exec EXCEPT ![e] = x] /\ x.user = exec[e].user
                            /\ x.todo = {} /\ x.step # "completed"
  PROVE  RowsInv'
<1>1. PICK u \in User : exec[e].user = u BY AtWork
<1>2. /\ exec' \in [Executor -> Exec] /\ \A f \in Executor \ {e} : exec'[f] = exec[f]
      /\ exec'[e].step # "completed" /\ (exec'[e] # Idle => exec'[e].user = u)
      /\ exec'[e].todo = {}
  <2>1. CASE Stop(e)
    BY <2>1 DEF Stop, Idle, Exec, RowsInv, RowsTypeOK
  <2>2. CASE \E step \in {"items", "erase", "demoted", "failed"} :
               Enter(e, step) /\ exec[e].todo = {}
    <3>1. PICK step \in {"items", "erase", "demoted", "failed"} : Enter(e, step)
      BY <2>2
    <3>2. exec' = [exec EXCEPT ![e] = [exec[e] EXCEPT !.step = step]] BY <3>1 DEF Enter
    <3>3. [exec[e] EXCEPT !.step = step] \in Exec BY <3>1, AtWork DEF Exec
    <3>4. exec' \in [Executor -> Exec] /\ \A f \in Executor \ {e} : exec'[f] = exec[f]
      BY <3>2, <3>3 DEF RowsInv, RowsTypeOK
    <3> QED BY <1>1, <2>2, <3>1, <3>4, ExecMoves
  <2>3. CASE \E x \in Exec : /\ exec' = [exec EXCEPT ![e] = x] /\ x.user = exec[e].user
                            /\ x.todo = {} /\ x.step # "completed"
    BY <1>1, <2>3 DEF RowsInv, RowsTypeOK
  <2> QED BY <2>1, <2>2, <2>3
<1>3. RowsTypeOK' BY <1>2 DEF RowsInv, RowsTypeOK, erasure
<1>4. Later /\ Rests(u) /\ \A v \in User \ {u} : Rests(v) BY DEF Later, Rests, erasure
<1>5. UserOK(u)' BY <1>1, <1>4, UserKept DEF RowsInv
<1>6. Choosing(u) => UnderWay(u)' BY DEF Choosing, UnderWay, erasure
<1>7. UNCHANGED <<member, frozen, account>> BY DEF erasure
<1>8. Rests(u) \/ (LiveClaim(e) /\ request'[u].holder \in {e, NoExecutor}) BY <1>4, Zenon
<1> QED BY <1>1, <1>2, <1>3, <1>4, <1>5, <1>6, <1>7, <1>8, ExecutorStep

\* An executor dies or drops its claim.
LEMMA CrashStep ==
  ASSUME RowsInv, Remembers, NEW e \in Executor, Crash(e)
  PROVE  RowsInv'
BY MovesStep DEF Crash, External, erasure

\* Executor e changes the items of its user under its live claim, and its own work.
LEMMA ItemStep ==
  ASSUME RowsInv, Remembers, NEW e \in Executor, NEW u \in User, exec[e].user = u,
         LiveClaim(e), External, UNCHANGED <<uploads, secrets>>,
         NEW rows \in [Kind -> Item], item' = [item EXCEPT ![u] = rows],
         \A k \in Kind : /\ rows[k].status = "completed" => Gone(u, k)
                         /\ rows[k].status = "none" => item[u][k].status = "none",
         NEW r \in Request, request' = [request EXCEPT ![u] = r],
         r.status = "running", r.holder = e, r.leased => r.claims # 0,
         NEW x \in Exec, exec' = [exec EXCEPT ![e] = x],
         x = Idle \/ (x.step = "items" /\ x.user = u)
  PROVE  RowsInv'
<1>1. /\ item' \in [User -> [Kind -> Item]] /\ item'[u] = rows
      /\ \A v \in User \ {u} : item'[v] = item[v]
  BY DEF RowsInv, RowsTypeOK
<1>2. /\ request' \in [User -> Request] /\ request'[u] = r
      /\ \A v \in User \ {u} : request'[v] = request[v]
  BY DEF RowsInv, RowsTypeOK
<1>3. /\ exec' \in [Executor -> Exec] /\ exec'[e] = x
      /\ \A f \in Executor \ {e} : exec'[f] = exec[f]
  BY DEF RowsInv, RowsTypeOK
<1>4. RowsTypeOK'
  BY <1>1, <1>2, <1>3, UserAssumption DEF RowsInv, RowsTypeOK, External
<1>5. Later /\ \A v \in User \ {u} : Rests(v) BY <1>1, <1>2 DEF External, Later, Rests
<1>6. request[u].status = "running" BY DEF LiveClaim
<1>7. UserOK(u)' BY <1>1, <1>2, <1>6, ItemsChange DEF External
<1>8. Choosing(u) => UnderWay(u)' BY <1>2 DEF Choosing, UnderWay, External
<1>9. Rests(u) \/ (LiveClaim(e) /\ request'[u].holder \in {e, NoExecutor}) BY <1>2
<1>10. /\ exec'[e].step # "completed" /\ (exec'[e] # Idle => exec'[e].user = u)
       /\ exec'[e].todo # {} => exec'[e].step = "items"
  BY <1>3 DEF Idle
<1>11. UNCHANGED <<member, frozen, account>> BY DEF External
<1> QED BY <1>3, <1>4, <1>5, <1>7, <1>8, <1>9, <1>10, <1>11, ExecutorStep

\* The claim of an executor has been counted.
LEMMA Counted ==
  ASSUME RowsInv, NEW e \in Executor, NEW u \in User, exec[e].user = u, LiveClaim(e)
  PROVE  /\ request[u] \in Request /\ request[u].status = "running"
         /\ request[u].holder = e /\ request[u].claims # 0 /\ request[u].leased
         /\ request' = request => request' = [request EXCEPT ![u] = request[u]]
BY DEF RowsInv, RowsTypeOK, UserOK, LiveClaim

\* The claim of the items that are left.
LEMMA ClaimItemsStep ==
  ASSUME RowsInv, Remembers, NEW e \in Executor, ClaimItems(e)
  PROVE  RowsInv'
<1> USE RowsTyped DEF Typed
<1>1. /\ exec[e].step = "claimed" /\ exec[e] # Idle /\ exec[e].todo = {}
      /\ UNCHANGED <<request, uploads, secrets>> /\ External
  <2>1. exec[e].step = "claimed" /\ UNCHANGED <<request, uploads, secrets>> /\ External
    BY DEF ClaimItems
  <2>2. exec[e] # Idle BY <2>1 DEF Idle
  <2> QED BY <2>1, <2>2, AtWork
<1>2. PICK u \in User : exec[e].user = u BY <1>1, AtWork
<1>3. CASE ~LiveClaim(e)
  BY <1>1, <1>3, MovesStep DEF ClaimItems, External, erasure
<1>4. CASE LiveClaim(e)
  <2> DEFINE its == item[exec[e].user]
             rows == [k \in Kind |-> IF Waiting(its[k]) /\ its[k].tries >= MaxTries
                                    THEN Moved(its[k], "failed") ELSE its[k]]
             ready == {k \in Kind : Waiting(rows[k])}
  <2>1. \A k \in Kind : rows[k] \in Item /\ (Waiting(rows[k]) => rows[k].tries < MaxTries)
    BY <1>2, LimitAssumption DEF Moved, Item, Waiting
  <2>2. \A k \in Kind : /\ rows[k].status = "completed" => Gone(u, k)
                        /\ rows[k].status = "none" => item[u][k].status = "none"
    BY <1>2 DEF RowsInv, UserOK, ItemsTrue, Moved, Item
  <2>3. rows \in [Kind -> Item] BY <2>1
  <2>4. /\ request[u] \in Request /\ request[u].status = "running"
        /\ request[u].holder = e /\ request[u].claims # 0
        /\ request' = [request EXCEPT ![u] = request[u]]
    BY <1>1, <1>2, <1>4, Counted
  <2>5. CASE ready = {}
    <3>1. item' = [item EXCEPT ![u] = rows] /\ Enter(e, "items")
      BY <1>2, <1>4, <2>5 DEF ClaimItems
    <3> DEFINE x == [exec[e] EXCEPT !.step = "items"]
    <3>2. exec' = [exec EXCEPT ![e] = x] /\ x \in Exec /\ x.step = "items" /\ x.user = u
      BY <1>2, <3>1, <1>1, AtWork DEF Enter, Exec, RowsInv, RowsTypeOK
    <3> HIDE DEF x, rows, ready
    <3> QED BY <1>1, <1>2, <1>4, <2>2, <2>3, <2>4, <3>1, <3>2, ItemStep
  <2>6. CASE ready # {}
    <3>1. PICK k \in ready :
            /\ item' = [item EXCEPT ![u] = [rows EXCEPT ![k] =
                          [status |-> "processing", tries |-> rows[k].tries + 1]]]
            /\ exec' = [exec EXCEPT ![e] = [exec[e] EXCEPT !.step = "items", !.todo = {k}]]
      BY <1>2, <1>4, <2>6 DEF ClaimItems
    <3> DEFINE y == [status |-> "processing", tries |-> rows[k].tries + 1]
               z == [rows EXCEPT ![k] = y]
               x == [exec[e] EXCEPT !.step = "items", !.todo = {k}]
    <3>2. k \in Kind /\ rows[k].tries < MaxTries /\ rows[k] \in Item BY <2>1
    <3>3. y \in Item BY <3>2, LimitAssumption DEF Item
    <3>4. z \in [Kind -> Item] BY <2>3, <3>3
    <3>5. \A j \in Kind : /\ z[j].status = "completed" => Gone(u, j)
                          /\ z[j].status = "none" => item[u][j].status = "none"
      BY <2>2, <2>3
    <3>6. x \in Exec /\ x.step = "items" /\ x.user = u
      BY <1>1, <1>2, <3>2, AtWork DEF Exec
    <3>7. item' = [item EXCEPT ![u] = z] /\ exec' = [exec EXCEPT ![e] = x] BY <3>1
    <3> HIDE DEF x, y, z, rows, ready
    <3> QED BY <1>1, <1>2, <1>4, <2>4, <3>4, <3>5, <3>6, <3>7, ItemStep
  <2> QED BY <2>5, <2>6
<1> QED BY <1>3, <1>4

\* The object store or the vault forgets.
LEMMA EraseObjectStep ==
  ASSUME RowsInv, Remembers, NEW e \in Executor, NEW k \in Kind, EraseObject(e, k)
  PROVE  RowsInv'
<1>1. /\ UNCHANGED <<request, item, exec>> /\ External
      /\ secrets' \subseteq secrets /\ (uploads' = uploads \/ uploads' = FALSE)
  BY DEF EraseObject, Kind
<1>2. RowsTypeOK' BY <1>1 DEF RowsInv, RowsTypeOK, External
<1>8. uploads' => uploads BY <1>1, Zenon
<1>3. Later /\ \A v : Rests(v) BY <1>1, <1>8 DEF Later, Rests, External
<1>4. \A v \in User : UserOK(v)' BY <1>3, UserKept DEF RowsInv
<1>5. \A f \in Executor : ExecOK(f)' BY <1>1, <1>3, ExecKept DEF RowsInv
<1>6. \A v \in User : Choosing(v) => Choosing(v)'
  BY <1>1 DEF Choosing, UnderWay, Done, LiveClaim, External
<1>7. Owned' BY <1>1, <1>6, OwnedKept DEF RowsInv, External
<1> QED BY <1>2, <1>4, <1>5, <1>7 DEF RowsInv

\* An item is completed after its object is gone.
LEMMA CompleteItemStep ==
  ASSUME RowsInv, Remembers, NEW e \in Executor, NEW k \in Kind, CompleteItem(e, k)
  PROVE  RowsInv'
<1> USE RowsTyped DEF Typed
<1>1. /\ UNCHANGED <<request, uploads, secrets>> /\ External
      /\ exec[e].step = "items" /\ exec[e] # Idle
  BY AtWork DEF CompleteItem, Idle
<1>2. PICK u \in User : exec[e].user = u BY <1>1, AtWork
<1>3. CASE ~Owns(e, k)
  BY <1>1, <1>3, MovesStep DEF CompleteItem, External, erasure
<1>4. CASE Owns(e, k)
  <2> DEFINE y == Moved(item[u][k], "completed")
             rows == [item[u] EXCEPT ![k] = y]
             x == [exec[e] EXCEPT !.todo = @ \ {k}]
  <2>1. item' = [item EXCEPT ![u] = rows] /\ exec' = [exec EXCEPT ![e] = x]
    BY <1>2, <1>4 DEF CompleteItem, Dropped
  <2>8. Gone(u, k) BY <1>2 DEF CompleteItem
  <2>9. y \in Item /\ y.status = "completed" BY DEF Moved, Item
  <2>2. item[u] \in [Kind -> Item] /\ y \in Item /\ y.status = "completed" /\ Gone(u, k)
    BY <2>8, <2>9 DEF RowsInv, RowsTypeOK
  <2> HIDE DEF y
  <2>3. rows \in [Kind -> Item] BY <2>2
  <2>4. \A j \in Kind : /\ rows[j].status = "completed" => Gone(u, j)
                        /\ rows[j].status = "none" => item[u][j].status = "none"
    BY <2>2 DEF RowsInv, UserOK, ItemsTrue
  <2>5. x \in Exec /\ x.step = "items" /\ x.user = u BY <1>1, <1>2, AtWork DEF Exec
  <2>6. LiveClaim(e) BY <1>4 DEF Owns
  <2>7. /\ request[u] \in Request /\ request[u].status = "running"
        /\ request[u].holder = e /\ request[u].claims # 0
        /\ request' = [request EXCEPT ![u] = request[u]]
    BY <1>1, <1>2, <2>6, Counted
  <2>10. x = Idle \/ (x.step = "items" /\ x.user = u) BY <2>5
  <2>11. request[u].leased => request[u].claims # 0 BY <2>7
  <2>12. item' = [item EXCEPT ![u] = rows] /\ exec' = [exec EXCEPT ![e] = x] BY <2>1
  <2> HIDE DEF x, rows
  <2> QED BY <1>1, <1>2, <2>3, <2>4, <2>5, <2>6, <2>7, <2>10, <2>11, <2>12, ItemStep
<1> QED BY <1>3, <1>4

\* Giving a live claim back leaves it running, with one claim less.
LEMMA ReleasedFacts ==
  ASSUME RowsInv, NEW e \in Executor, NEW u \in User, exec[e].user = u,
         LiveClaim(e), NEW progressed \in BOOLEAN
  PROVE  /\ Released(u, progressed) \in Request /\ Released(u, progressed).status = "running"
         /\ Released(u, progressed).holder = e
         /\ Released(u, progressed).leased => Released(u, progressed).claims # 0
<1>1. /\ request[u] \in Request /\ request[u].status = "running"
      /\ request[u].holder = e /\ request[u].claims # 0 /\ request[u].leased
  BY Counted
<1>2. request[u].claims - 1 \in 0..MaxClaims BY <1>1, LimitAssumption DEF Request
<1>3. HandedBack(request[u]) \in Request /\ HandedBack(request[u]).status = "running"
      /\ HandedBack(request[u]).holder = e /\ ~HandedBack(request[u]).leased
  BY <1>1, <1>2 DEF HandedBack, Request
<1> QED BY <1>1, <1>3 DEF Released

\* An item that failed waits for another attempt, or has had its last.
LEMMA RetryItemStep ==
  ASSUME RowsInv, Remembers, NEW e \in Executor, NEW k \in Kind, RetryItem(e, k)
  PROVE  RowsInv'
<1> USE RowsTyped DEF Typed
<1>1. /\ UNCHANGED <<uploads, secrets>> /\ External
      /\ exec[e].step = "items" /\ exec[e] # Idle
  BY AtWork DEF RetryItem, Idle
<1>2. PICK u \in User : exec[e].user = u BY <1>1, AtWork
<1>3. CASE ~Owns(e, k)
  <2>1. Stop(e) /\ UNCHANGED <<item, request>> BY <1>3 DEF RetryItem
  <2> QED BY <1>1, <2>1, MovesStep DEF External, erasure
<1>4. CASE Owns(e, k)
  <2>1. LiveClaim(e) BY <1>4 DEF Owns
  <2>2. /\ request[u] \in Request /\ request[u].status = "running"
        /\ request[u].holder = e /\ request[u].claims # 0
        /\ request' = request => request' = [request EXCEPT ![u] = request[u]]
    BY <1>2, <2>1, Counted
  <2>3. ASSUME NEW to \in {"failed", "pending"}
        PROVE  /\ [item[u] EXCEPT ![k] = Moved(@, to)] \in [Kind -> Item]
               /\ \A j \in Kind :
                    /\ [item[u] EXCEPT ![k] = Moved(@, to)][j].status = "completed" => Gone(u, j)
                    /\ [item[u] EXCEPT ![k] = Moved(@, to)][j].status = "none"
                         => item[u][j].status = "none"
    <3> DEFINE y == Moved(item[u][k], to)
               rows == [item[u] EXCEPT ![k] = y]
    <3>1. y \in Item /\ y.status = to BY DEF Moved, Item
    <3>2. item[u] \in [Kind -> Item] BY DEF RowsInv, RowsTypeOK
    <3> HIDE DEF y
    <3>3. rows \in [Kind -> Item] BY <3>1, <3>2
    <3>4. \A j \in Kind : /\ rows[j].status = "completed" => Gone(u, j)
                          /\ rows[j].status = "none" => item[u][j].status = "none"
      BY <3>1, <3>2 DEF RowsInv, UserOK, ItemsTrue
    <3> QED BY <3>3, <3>4 DEF y
  <2>4. CASE item[u][k].tries >= MaxTries
    <3> DEFINE rows == [item[u] EXCEPT ![k] = Moved(@, "failed")]
               x == [exec[e] EXCEPT !.todo = @ \ {k}]
    <3>1. /\ item' = [item EXCEPT ![u] = rows] /\ exec' = [exec EXCEPT ![e] = x]
          /\ request' = request
      BY <1>2, <1>4, <2>4 DEF RetryItem, Dropped
    <3>2. x \in Exec /\ x.step = "items" /\ x.user = u BY <1>1, <1>2, AtWork DEF Exec
    <3>3. rows \in [Kind -> Item]
          /\ \A j \in Kind : /\ rows[j].status = "completed" => Gone(u, j)
                             /\ rows[j].status = "none" => item[u][j].status = "none"
      BY <2>3
    <3>4. request' = [request EXCEPT ![u] = request[u]] BY <2>2, <3>1
    <3> HIDE DEF rows, x
    <3> QED BY <1>1, <1>2, <2>1, <2>2, <3>1, <3>2, <3>3, <3>4, ItemStep
  <2>5. CASE ~(item[u][k].tries >= MaxTries)
    <3> DEFINE rows == [item[u] EXCEPT ![k] = Moved(@, "pending")]
               r == Released(u, k = "credential")
    <3>1. /\ item' = [item EXCEPT ![u] = rows] /\ exec' = [exec EXCEPT ![e] = Idle]
          /\ request' = [request EXCEPT ![u] = r]
      BY <1>2, <1>4, <2>5 DEF RetryItem, Stop
    <3>2. Idle \in Exec BY DEF Idle, Exec
    <3>3. rows \in [Kind -> Item]
          /\ \A j \in Kind : /\ rows[j].status = "completed" => Gone(u, j)
                             /\ rows[j].status = "none" => item[u][j].status = "none"
      BY <2>3
    <3>4. r \in Request /\ r.status = "running" /\ r.holder = e /\ (r.leased => r.claims # 0)
      BY <1>2, <2>1, ReleasedFacts
    <3> HIDE DEF rows, r
    <3> QED BY <1>1, <1>2, <2>1, <3>1, <3>2, <3>3, <3>4, ItemStep
  <2> QED BY <2>4, <2>5
<1> QED BY <1>3, <1>4

\* What an executor without items does depends on what the items say.
LEMMA AfterItemsStep ==
  ASSUME RowsInv, Remembers, NEW e \in Executor, AfterItems(e)
  PROVE  RowsInv'
<1> USE RowsTyped DEF Typed
<1>1. /\ UNCHANGED <<item, uploads, secrets>> /\ External
      /\ exec[e].step = "items" /\ exec[e] # Idle /\ exec[e].todo = {}
  BY DEF AfterItems, Idle
<1>2. PICK u \in User : exec[e].user = u BY <1>1, AtWork
<1>3. \/ (Stop(e) \/ Enter(e, "erase")) /\ UNCHANGED request
      \/ LiveClaim(e) /\ Stop(e) /\ request' = [request EXCEPT ![u] = Released(u, TRUE)]
  BY <1>2 DEF AfterItems
<1>4. CASE (Stop(e) \/ Enter(e, "erase")) /\ UNCHANGED request
  BY <1>1, <1>4, MovesStep DEF External, erasure
<1>5. CASE LiveClaim(e) /\ Stop(e) /\ request' = [request EXCEPT ![u] = Released(u, TRUE)]
  <2>1. PICK r \in Request :
          /\ request' = [request EXCEPT ![u] = r]
          /\ r.status = "running" /\ r.holder = e /\ (r.leased => r.claims # 0)
    BY <1>2, <1>5, ReleasedFacts
  <2>2. PICK rows \in [Kind -> Item] :
          /\ item' = [item EXCEPT ![u] = rows]
          /\ \A j \in Kind : /\ rows[j].status = "completed" => Gone(u, j)
                             /\ rows[j].status = "none" => item[u][j].status = "none"
    <3>1. item[u] \in [Kind -> Item] /\ item' = [item EXCEPT ![u] = item[u]]
      BY <1>1 DEF RowsInv, RowsTypeOK
    <3>2. \A j \in Kind : item[u][j].status = "completed" => Gone(u, j)
      BY DEF RowsInv, UserOK, ItemsTrue
    <3> QED BY <3>1, <3>2
  <2>3. PICK x \in Exec : /\ exec' = [exec EXCEPT ![e] = x]
                          /\ x = Idle \/ (x.step = "items" /\ x.user = u)
    BY <1>5 DEF Idle, Exec, Stop
  <2>4. LiveClaim(e) /\ External /\ UNCHANGED <<uploads, secrets>> BY <1>1, <1>5
  <2> QED BY <1>2, <2>1, <2>2, <2>3, <2>4, ItemStep
<1> QED BY <1>3, <1>4, <1>5

\* finalize_account_deletion: what it reports is true, and a user who may still be
\* choosing a successor is not reported completed.
LEMMA FinalizeStep ==
  ASSUME RowsInv, Remembers, NEW e \in Executor, Finalize(e)
  PROVE  RowsInv'
<1> USE RowsTyped DEF Typed
<1>1. /\ UNCHANGED <<account, member, workspace, cancelling>> /\ UNCHANGED erasure /\ Stop(e)
      /\ exec[e].step \in {"completed", "failed"} /\ exec[e] # Idle
  BY DEF Finalize, Idle
<1>2. PICK u \in User : exec[e].user = u BY <1>1, AtWork
<1>3. CASE ~LiveClaim(e)
  <2>1. request' = request BY <1>3 DEF Finalize
  <2> QED BY <1>1, <2>1, MovesStep
<1>4. CASE LiveClaim(e)
  <2> DEFINE to == exec[e].step
  <2>1. request[u].status = "running" /\ request' = [request EXCEPT ![u] = Closed(request[u], to)]
    BY <1>2, <1>4 DEF LiveClaim, Finalize
  <2>2. Closed(request[u], to) \in Request
    BY <1>1 DEF Closed, Request, Settled, Holder
  <2>13. /\ Closed(request[u], to).status = to /\ Closed(request[u], to).holder = NoExecutor
         /\ ~Closed(request[u], to).leased
    BY DEF Closed, Request
  <2>3. /\ request' \in [User -> Request] /\ request'[u].status = to
        /\ request'[u].holder = NoExecutor /\ ~request'[u].leased
        /\ \A v \in User \ {u} : request'[v] = request[v]
    BY <2>1, <2>2, <2>13 DEF RowsInv, RowsTypeOK
  <2>4. /\ exec' \in [Executor -> Exec] /\ exec'[e] = Idle
        /\ \A f \in Executor \ {e} : exec'[f] = exec[f]
    BY <1>1 DEF Stop, Idle, Exec, RowsInv, RowsTypeOK
  <2>14. \A v \in User : /\ request'[v].status = "running" <=> request'[v].holder # NoExecutor
                         /\ request'[v].leased => request'[v].status = "running"
    BY <1>1, <2>3 DEF RowsInv, RowsTypeOK
  <2>5. RowsTypeOK' BY <1>1, <2>3, <2>4, <2>14 DEF RowsInv, RowsTypeOK, erasure
  <2>6. Later /\ \A v \in User \ {u} : Rests(v) BY <1>1, <2>3 DEF Later, Rests, erasure
  <2>7. to = "completed" => Erased(u) /\ ~Choosing(u)
    BY <1>2, <1>4 DEF RowsInv, ExecOK, Done, Choosing
  <2>8. UserOK(u)'
    <3>1. Erased(u) => Erased(u)' BY <1>1 DEF Erased, erasure
    <3>2. (Untouched(u) /\ ItemsTrue(u))'
      BY <1>1, <2>1, <2>3 DEF RowsInv, UserOK, Untouched, ItemsTrue, Started, Gone, erasure
    <3> QED BY <2>3, <2>7, <3>1, <3>2 DEF UserOK
  <2>9. Choosing(u) => UnderWay(u)'
    BY <1>1, <2>3, <2>7 DEF Choosing, UnderWay, erasure
  <2>10. Rests(u) \/ (LiveClaim(e) /\ request'[u].holder \in {e, NoExecutor}) BY <1>4, <2>3
  <2>11. /\ exec'[e].step # "completed" /\ (exec'[e] # Idle => exec'[e].user = u)
         /\ exec'[e].todo # {} => exec'[e].step = "items"
    BY <2>4 DEF Idle
  <2>12. UNCHANGED <<member, frozen, account>> BY <1>1 DEF erasure
  <2> QED BY <1>2, <2>4, <2>5, <2>6, <2>8, <2>9, <2>10, <2>11, <2>12, ExecutorStep
<1> QED BY <1>3, <1>4

-----------------------------------------------------------------------------
(* erase_account_for_deletion.                                             *)

\* What the items say is enough: nothing of the user is left outside the database.
LEMMA NothingLeft ==
  ASSUME RowsInv, NEW u \in User, request[u].status = "running",
         Statuses(u) \subseteq {"none", "completed"}
  PROVE  /\ u \notin secrets
         /\ \A k \in Kind : item[u][k].status \in {"none", "completed"}
         /\ frozen[u] = "personal" => ~uploads
<1>1. \A k \in Kind : item[u][k].status \in {"none", "completed"} BY DEF Statuses
<1>2. ItemsTrue(u) /\ Started(u) BY DEF RowsInv, UserOK, Started
<1>3. item[u]["credential"].status = "completed" => u \notin secrets
  BY <1>2 DEF ItemsTrue, Gone, Kind
<1>4. item[u]["upload"].status = "completed" => ~uploads BY <1>2 DEF ItemsTrue, Gone, Kind
<1>5. u \notin secrets BY <1>1, <1>2, <1>3 DEF ItemsTrue, Kind
<1>6. frozen[u] = "personal" => ~uploads BY <1>1, <1>2, <1>4 DEF ItemsTrue, Kind
<1> QED BY <1>1, <1>5, <1>6

\* An executor commits the erasure of its user and leaves the Workspace owned or excused.
LEMMA CommitStep ==
  ASSUME RowsInv, Remembers, NEW e \in Executor, NEW u \in User, exec[e].user = u,
         UNCHANGED <<request, cancelling>>, UNCHANGED erasure,
         request[u].status = "running", request[u].holder = e,
         Statuses(u) \subseteq {"none", "completed"},
         member' \in [User -> Member], workspace' \in {workspace, "wiped"},
         frozen[u] = "personal" => workspace' = "wiped",
         account' = [account EXCEPT ![u] = "deleted"],
         NEW x \in Exec, exec' = [exec EXCEPT ![e] = x],
         x.user = u, x.step = "completed", x.todo = {},
         Owned'
  PROVE  RowsInv'
<1>1. /\ account' \in [User -> {"active", "scheduled", "suspended", "deleted"}]
      /\ account'[u] = "deleted" /\ \A v \in User \ {u} : account'[v] = account[v]
  BY DEF RowsInv, RowsTypeOK
<1>2. /\ exec' \in [Executor -> Exec] /\ exec'[e] = x
      /\ \A f \in Executor \ {e} : exec'[f] = exec[f]
  BY DEF RowsInv, RowsTypeOK
<1>3. RowsTypeOK' BY <1>1, <1>2 DEF RowsInv, RowsTypeOK, erasure
<1>4. Later /\ \A v \in User \ {u} : Rests(v) BY <1>1 DEF Later, Rests, erasure
<1>5. Erased(u)' BY <1>1, NothingLeft DEF Erased, erasure
<1>6. UserOK(u)'
  <2>1. ItemsTrue(u)'
    BY <1>4, <1>5 DEF RowsInv, UserOK, ItemsTrue, Started, Gone, Later, Erased, erasure
  <2> QED BY <1>5, <2>1 DEF RowsInv, UserOK, Untouched, Started
<1>7. \A v \in User : UserOK(v)' BY <1>4, <1>6, UserKept DEF RowsInv
<1>8. ASSUME NEW f \in Executor, f # e, Done(f)'
      PROVE  exec'[f] = exec[f] /\ exec[f].user \in User \ {u} /\ Done(f)
  <2>1. exec'[f] = exec[f] /\ exec[f] # Idle BY <1>2, <1>8 DEF Done, Idle
  <2>2. exec[f].user \in User BY <2>1 DEF RowsInv, ExecOK
  <2>3. exec[f].user # u BY <1>8, <2>1 DEF Done, LiveClaim
  <2> QED BY <1>8, <2>1, <2>2, <2>3 DEF Done, LiveClaim
<1>9. \A f \in Executor : ExecOK(f)'
  <2> SUFFICES ASSUME NEW f \in Executor PROVE ExecOK(f)' OBVIOUS
  <2>1. CASE f = e BY <1>2, <1>5, <2>1 DEF ExecOK
  <2>2. CASE f # e BY <1>2, <1>4, <1>8, <2>2, ExecKept DEF RowsInv
  <2> QED BY <2>1, <2>2
<1> QED BY <1>3, <1>7, <1>9 DEF RowsInv

\* A membership that is detached.
LEMMA DetachType ==
  ASSUME RowsInv, NEW u \in User
  PROVE  Detach(u) \in [User -> Member] /\ \A v \in User \ {u} : Detach(u)[v] = member[v]
<1>1. Detached \in Member BY DEF Detached, Member, Role
<1> QED BY <1>1 DEF Detach, RowsInv, RowsTypeOK

\* Of a Workspace that is not shared, the rows of the user are erased at once.
LEMMA EraseRowsStep ==
  ASSUME RowsInv, Remembers, NEW e \in Executor, EraseRows(e)
  PROVE  RowsInv'
<1> USE RowsTyped DEF Typed
<1>1. /\ UNCHANGED <<request, cancelling>> /\ UNCHANGED erasure
      /\ exec[e].step = "erase" /\ exec[e] # Idle /\ exec[e].todo = {}
  <2>1. /\ UNCHANGED <<request, cancelling>> /\ UNCHANGED erasure /\ exec[e].step = "erase"
    BY DEF EraseRows
  <2>2. exec[e] # Idle BY <2>1 DEF Idle
  <2> QED BY <2>1, <2>2, AtWork
<1>2. PICK u \in User : exec[e].user = u BY <1>1, AtWork
<1>3. CASE (Enter(e, "failed") \/ Enter(e, "demoted") \/ Stop(e))
           /\ UNCHANGED <<account, member, workspace>>
  BY <1>1, <1>3, MovesStep
<1>4. CASE /\ LiveClaim(e) /\ Statuses(u) \subseteq {"none", "completed"}
           /\ frozen[u] # "shared"
           /\ IF frozen[u] = "personal" THEN Wiped
              ELSE member' = Detach(u) /\ UNCHANGED workspace
           /\ account' = [account EXCEPT ![u] = "deleted"]
           /\ Enter(e, "completed")
  <2>1. request[u].status = "running" /\ request[u].holder = e
    BY <1>2, <1>4 DEF LiveClaim
  <2>2. frozen[u] \in {"none", "personal"} BY <1>4 DEF RowsInv, RowsTypeOK
  <2>3. member' \in [User -> Member] /\ workspace' \in {workspace, "wiped"}
    <3>1. CASE frozen[u] = "personal"
      BY <1>4, <3>1 DEF Wiped, NoMember, Member, Role
    <3>2. CASE frozen[u] = "none" BY <1>4, <3>2, DetachType
    <3> QED BY <2>2, <3>1, <3>2
  <2>4. frozen[u] = "personal" => workspace' = "wiped" BY <1>4 DEF Wiped
  <2>5. account'[u] = "deleted" BY <1>4 DEF RowsInv, RowsTypeOK
  <2>6. Owned'
    <3>1. CASE frozen[u] = "personal" BY <2>4, <3>1 DEF Owned
    <3>2. CASE frozen[u] = "none"
      <4>1. Excused(u)' BY <1>1, <2>5, <3>2 DEF Excused, erasure
      <4> QED BY <4>1 DEF Owned
    <3> QED BY <2>2, <3>1, <3>2
  <2> DEFINE x == [exec[e] EXCEPT !.step = "completed"]
  <2>7. exec' = [exec EXCEPT ![e] = x] BY <1>4 DEF Enter
  <2>8. x \in Exec /\ x.user = u /\ x.step = "completed" /\ x.todo = {}
    BY <1>1, <1>2 DEF Exec
  <2> HIDE DEF x
  <2> QED BY <1>1, <1>2, <1>4, <2>1, <2>3, <2>4, <2>6, <2>7, <2>8, CommitStep
<1> QED BY <1>2, <1>3, <1>4 DEF EraseRows

\* The statements of the transaction on a shared Workspace change no row others see.
LEMMA TransactionStep ==
  ASSUME RowsInv, Remembers, NEW e \in Executor, FindHeirs(e) \/ LockHeir(e)
  PROVE  RowsInv'
<1> USE RowsTyped DEF Typed
<1>1. /\ UNCHANGED <<account, member, workspace, request, cancelling>> /\ UNCHANGED erasure
      /\ exec[e].step \in {"demoted", "choosing"} /\ exec[e] # Idle /\ exec[e].todo = {}
  <2>1. /\ UNCHANGED <<account, member, workspace, request, cancelling>> /\ UNCHANGED erasure
        /\ exec[e].step \in {"demoted", "choosing"}
    BY DEF FindHeirs, LockHeir, InTransaction
  <2>2. exec[e] # Idle BY <2>1 DEF Idle
  <2> QED BY <2>1, <2>2, AtWork
<1>2. PICK u \in User : exec[e].user = u BY <1>1, AtWork
<1>3. \/ Stop(e)
      \/ \E step \in {"choosing", "chosen"}, us \in SUBSET User :
           EnterWith(e, step, us)
  <2>1. CASE FindHeirs(e)
    <3> DEFINE us == IF Owners \ {u} # {} THEN {} ELSE Active(User \ {u})
    <3>1. EnterWith(e, "choosing", us)
      BY <1>2, <2>1 DEF FindHeirs
    <3>2. us \in SUBSET User BY DEF Active
    <3> HIDE DEF us
    <3> QED BY <3>1, <3>2
  <2>2. CASE LockHeir(e)
    <3>1. Active(exec[e].heirs) \subseteq User BY DEF Active, Exec
    <3>2. \/ Stop(e)
          \/ \E us \in {{v} : v \in Active(exec[e].heirs)} \cup {{}} :
               EnterWith(e, "chosen", us)
      BY <2>2 DEF LockHeir
    <3> QED BY <3>1, <3>2
  <2> QED BY <2>1, <2>2
<1>4. ASSUME NEW step \in {"choosing", "chosen"}, NEW us \in SUBSET User,
             EnterWith(e, step, us)
      PROVE  \E x \in Exec : /\ exec' = [exec EXCEPT ![e] = x] /\ x.user = exec[e].user
                            /\ x.todo = {} /\ x.step # "completed"
  <2> DEFINE x == [exec[e] EXCEPT !.step = step, !.heirs = us]
  <2>1. x \in Exec /\ x.user = exec[e].user /\ x.todo = {} /\ x.step # "completed"
    BY <1>1 DEF Exec
  <2>2. exec' = [exec EXCEPT ![e] = x] BY <1>4 DEF EnterWith
  <2> HIDE DEF x
  <2> QED BY <2>1, <2>2
<1> QED BY <1>1, <1>3, <1>4, MovesStep

\* The erasure of a shared Workspace leaves an owner, or was overtaken.
LEMMA CommitErasureStep ==
  ASSUME RowsInv, TransactionsInv, Remembers, NEW e \in Executor, CommitErasure(e)
  PROVE  RowsInv'
<1> USE RowsTyped DEF Typed
<1>1. /\ UNCHANGED <<workspace, request, cancelling>> /\ UNCHANGED erasure
      /\ exec[e].step = "chosen" /\ exec[e] # Idle /\ exec[e].todo = {} /\ Erasing(e)
  <2>1. /\ UNCHANGED <<workspace, request, cancelling>> /\ UNCHANGED erasure
        /\ exec[e].step = "chosen"
    BY DEF CommitErasure
  <2>2. exec[e] # Idle BY <2>1 DEF Idle
  <2> QED BY <2>1, <2>2, AtWork DEF Erasing
<1>2. PICK u \in User : exec[e].user = u BY <1>1, AtWork
<1> DEFINE heirs == exec[e].heirs
           x == [exec[e] EXCEPT !.step = "completed", !.heirs = {}]
<1>3. /\ member' = [v \in User |-> IF v \in heirs
                                   THEN [member[v] EXCEPT !.role = "owner"] ELSE Detach(u)[v]]
      /\ account' = [account EXCEPT ![u] = "deleted"]
      /\ exec' = [exec EXCEPT ![e] = x]
  BY <1>2 DEF CommitErasure, EnterWith
<1>4. /\ request[u].status = "running" /\ request[u].holder = e
      /\ Statuses(u) \subseteq {"none", "completed"} /\ frozen[u] = "shared"
      /\ heirs \subseteq User \ {u} /\ (Found(e) # {} \/ u \in overtaken)
  BY <1>1, <1>2 DEF TransactionsInv, TransactionOK
<1>5. \A v \in User : [member[v] EXCEPT !.role = "owner"] \in Member BY DEF Member, Role
<1>6. member' \in [User -> Member] BY <1>3, <1>5, DetachType
<1>7. x \in Exec /\ x.user = u /\ x.step = "completed" /\ x.todo = {}
  BY <1>1, <1>2 DEF Exec
<1>8. account'[u] = "deleted" BY <1>3 DEF RowsInv, RowsTypeOK
<1>9. Owned'
  <2>1. CASE Owners \ {u} # {}
    <3>1. PICK v \in Owners \ {u} : TRUE BY <2>1
    <3>2. v \in User \ {u} /\ member[v].status = "active" /\ member[v].role = "owner"
      BY <3>1 DEF Owners, Active
    <3>3. member'[v].status = "active" /\ member'[v].role = "owner"
      BY <1>3, <3>2, DetachType DEF Member
    <3> QED BY <3>2, <3>3 DEF Owned, Owners, Active
  <2>2. CASE Active(heirs) # {}
    <3>1. PICK v \in Active(heirs) : TRUE BY <2>2
    <3>2. v \in heirs /\ v \in User /\ member[v].status = "active" BY <1>4, <3>1 DEF Active
    <3>3. member'[v].status = "active" /\ member'[v].role = "owner" BY <1>3, <3>2 DEF Member
    <3> QED BY <3>2, <3>3 DEF Owned, Owners, Active
  <2>3. CASE u \in overtaken
    <3>1. Excused(u)' BY <1>8, <2>3 DEF Excused, Remembers
    <3> QED BY <3>1 DEF Owned
  <2>4. Found(e) = (Owners \ {u}) \cup Active(heirs) BY <1>1, <1>2 DEF Found
  <2> QED BY <1>4, <2>1, <2>2, <2>3, <2>4
<1> HIDE DEF heirs, x
<1> QED BY <1>1, <1>2, <1>3, <1>4, <1>6, <1>7, <1>9, CommitStep

-----------------------------------------------------------------------------
(* claim_due_account_deletions.                                            *)

\* What a claim does to the request and the executor, and what it leaves alone.
LEMMA ClaimFacts ==
  ASSUME RowsInv, NEW e \in Executor, NEW u \in User, Claim(e, u)
  PROVE  /\ request[u].status \in {"scheduled", "running"} /\ ~request[u].leased
         /\ request'[u].status = "running" /\ request'[u].holder = e
         /\ request'[u].claims # 0 /\ request'[u].leased /\ request' \in [User -> Request]
         /\ \A v \in User \ {u} : Rests(v) /\ member'[v] = member[v]
         /\ exec' \in [Executor -> Exec] /\ exec'[e].step = "claimed"
         /\ exec'[e].user = u /\ exec'[e].todo = {}
         /\ \A f \in Executor \ {e} : exec'[f] = exec[f]
         /\ frozen' \in [User -> {"none", "personal", "shared"}] /\ frozen'[u] = Disposition(u)
         /\ account' \in [User -> {"active", "scheduled", "suspended", "deleted"}]
         /\ account[u] = "deleted" => account'[u] = "deleted"
<1> USE RowsTyped DEF Typed
<1>1. request[u].status \in {"scheduled", "running"} /\ ~request[u].leased
  BY DEF Claim, Due, RowsInv, RowsTypeOK
<1> DEFINE r == [status |-> "running", claims |-> request[u].claims + 1,
                 holder |-> e, leased |-> TRUE]
           x == [Idle EXCEPT !.user = u, !.step = "claimed"]
<1>2. request' = [request EXCEPT ![u] = r] /\ exec' = [exec EXCEPT ![e] = x] BY DEF Claim
<1>3. request[u].claims < MaxClaims BY DEF Claim
<1>4. r \in Request /\ r.claims # 0 BY <1>3, LimitAssumption DEF Request, Holder
<1>5. x \in Exec /\ x.step = "claimed" /\ x.user = u /\ x.todo = {} BY DEF Idle, Exec
<1>6. r.status = "running" /\ r.holder = e /\ r.leased OBVIOUS
<1> HIDE DEF r, x
<1>7. /\ request' \in [User -> Request] /\ request'[u] = r
      /\ \A v \in User \ {u} : request'[v] = request[v]
  BY <1>2, <1>4 DEF RowsInv, RowsTypeOK
<1>8. /\ exec' \in [Executor -> Exec] /\ exec'[e] = x
      /\ \A f \in Executor \ {e} : exec'[f] = exec[f]
  BY <1>2, <1>5 DEF RowsInv, RowsTypeOK
<1>9. Disposition(u) \in {"none", "personal", "shared"} BY DEF Disposition, RowsInv, RowsTypeOK
<1>10. frozen' = [frozen EXCEPT ![u] = Disposition(u)] BY DEF Claim
<1>11. /\ frozen' \in [User -> {"none", "personal", "shared"}] /\ frozen'[u] = Disposition(u)
       /\ \A v \in User \ {u} : frozen'[v] = frozen[v]
  BY <1>9, <1>10 DEF RowsInv, RowsTypeOK
<1>12. account' = [account EXCEPT ![u] = IF @ = "deleted" THEN @ ELSE "suspended"] BY DEF Claim
<1>13. /\ account' \in [User -> {"active", "scheduled", "suspended", "deleted"}]
       /\ account[u] = "deleted" => account'[u] = "deleted"
       /\ \A v \in User \ {u} : account'[v] = account[v]
  BY <1>12 DEF RowsInv, RowsTypeOK
<1>14. \A v \in User \ {u} : item'[v] = item[v] BY DEF Claim, RowsInv, RowsTypeOK
<1>15. \A v \in User \ {u} : member'[v] = member[v] BY DEF Claim, RowsInv, RowsTypeOK
<1> QED BY <1>1, <1>4, <1>5, <1>6, <1>7, <1>8, <1>11, <1>13, <1>14, <1>15 DEF Rests

\* What a claim lists, and what it makes of the Workspace and the membership.
LEMMA ClaimRows ==
  ASSUME RowsInv, NEW e \in Executor, NEW u \in User, Claim(e, u)
  PROVE  /\ item' \in [User -> [Kind -> Item]]
         /\ \A k \in Kind : item'[u][k] = item[u][k] \/ item'[u][k].status = "pending"
         /\ item'[u]["credential"].status = "none" => u \notin secrets
         /\ frozen'[u] = "personal" => item'[u]["upload"].status # "none" /\ workspace' # "live"
         /\ member' \in [User -> Member]
         /\ frozen'[u] # "none" /\ member[u].status # "none"
              => member'[u] = [member[u] EXCEPT !.status = "suspended"]
         /\ frozen'[u] = "none" \/ member[u].status = "none" => member'[u] = member[u]
<1> USE RowsTyped DEF Typed
<1>1. frozen'[u] = Disposition(u) BY ClaimFacts
<1> DEFINE fate == Disposition(u)
           up == IF fate = "personal" /\ workspace # "wiped"
                 THEN Listed(item[u]["upload"]) ELSE item[u]["upload"]
           cred == IF fate # "none" \/ u \in secrets
                   THEN Listed(item[u]["credential"]) ELSE item[u]["credential"]
<1>2. item' = [item EXCEPT ![u]["upload"] = up, ![u]["credential"] = cred]
  BY DEF Claim
<1>3. item[u] \in [Kind -> Item] /\ item \in [User -> [Kind -> Item]] BY DEF RowsInv, RowsTypeOK
<1>4. \A i \in Item : /\ Listed(i) \in Item /\ Listed(i).status # "none"
                      /\ Listed(i) = i \/ Listed(i).status = "pending"
  BY DEF Listed, Item
<1>5. item[u]["upload"] \in Item /\ item[u]["credential"] \in Item BY <1>3 DEF Kind
<1>6. /\ up \in Item /\ (up = item[u]["upload"] \/ up.status = "pending")
      /\ cred \in Item /\ (cred = item[u]["credential"] \/ cred.status = "pending")
      /\ cred.status = "none" => fate = "none" /\ u \notin secrets
      /\ fate = "personal" /\ workspace # "wiped" => up.status # "none"
      /\ fate = "personal" /\ workspace = "wiped" => up = item[u]["upload"]
  BY <1>4, <1>5
<1> HIDE DEF up, cred
<1>7. /\ item' \in [User -> [Kind -> Item]]
      /\ item'[u]["upload"] = up /\ item'[u]["credential"] = cred
  BY <1>2, <1>3, <1>6 DEF Kind
<1>8. \A k \in Kind : item'[u][k] = item[u][k] \/ item'[u][k].status = "pending"
  BY <1>6, <1>7 DEF Kind
<1>9. fate = "personal" => item'[u]["upload"].status # "none" /\ workspace' # "live"
  <2>1. CASE fate = "personal" /\ workspace = "wiped"
    <3>1. frozen[u] = "personal" BY <2>1 DEF Disposition
    <3>2. item[u]["upload"].status # "none" BY <3>1 DEF RowsInv, UserOK, ItemsTrue
    <3>3. workspace' # "live" BY <2>1 DEF Claim
    <3> QED BY <1>6, <1>7, <2>1, <3>2, <3>3
  <2>2. CASE fate = "personal" /\ workspace # "wiped"
    <3>1. workspace' # "live" BY <2>2 DEF Claim
    <3> QED BY <1>6, <1>7, <2>2, <3>1
  <2> QED BY <2>1, <2>2
<1>10. member' = IF fate # "none" /\ member[u].status # "none"
                 THEN [member EXCEPT ![u].status = "suspended"] ELSE member
  BY DEF Claim
<1>11. [member[u] EXCEPT !.status = "suspended"] \in Member BY DEF Member
<1>12. /\ member' \in [User -> Member]
       /\ fate # "none" /\ member[u].status # "none"
            => member'[u] = [member[u] EXCEPT !.status = "suspended"]
       /\ fate = "none" \/ member[u].status = "none" => member'[u] = member[u]
  BY <1>10, <1>11 DEF RowsInv, RowsTypeOK
<1> HIDE DEF fate
<1> QED BY <1>1, <1>6, <1>7, <1>8, <1>9, <1>12 DEF fate

\* A claim freezes what becomes of the Workspace and lists what is to be erased.
LEMMA ClaimStep ==
  ASSUME RowsInv, Remembers, NEW e \in Executor, NEW u \in User, Claim(e, u)
  PROVE  RowsInv'
<1> USE RowsTyped DEF Typed
<1>1. /\ UNCHANGED <<cancelling, uploads, secrets>>
      /\ workspace' = IF Disposition(u) = "personal" /\ workspace = "live"
                      THEN "deleted" ELSE workspace
  BY DEF Claim
<1>2. /\ request[u].status \in {"scheduled", "running"} /\ ~request[u].leased
      /\ request'[u].status = "running" /\ request'[u].holder = e /\ e # NoExecutor
      /\ request'[u].claims # 0 /\ request'[u].leased /\ request' \in [User -> Request]
      /\ \A v \in User \ {u} : Rests(v) /\ member'[v] = member[v]
      /\ exec' \in [Executor -> Exec] /\ exec'[e].step = "claimed"
      /\ exec'[e].user = u /\ exec'[e].todo = {}
      /\ \A f \in Executor \ {e} : exec'[f] = exec[f]
      /\ frozen' \in [User -> {"none", "personal", "shared"}] /\ frozen'[u] = Disposition(u)
      /\ account' \in [User -> {"active", "scheduled", "suspended", "deleted"}]
      /\ account[u] = "deleted" => account'[u] = "deleted"
  BY ClaimFacts, UserAssumption
<1>3. /\ item' \in [User -> [Kind -> Item]]
      /\ \A k \in Kind : item'[u][k] = item[u][k] \/ item'[u][k].status = "pending"
      /\ item'[u]["credential"].status = "none" => u \notin secrets
      /\ frozen'[u] = "personal" => item'[u]["upload"].status # "none" /\ workspace' # "live"
      /\ member' \in [User -> Member]
      /\ frozen'[u] # "none" /\ member[u].status # "none"
           => member'[u] = [member[u] EXCEPT !.status = "suspended"]
      /\ frozen'[u] = "none" \/ member[u].status = "none" => member'[u] = member[u]
  BY ClaimRows
<1>4. RowsTypeOK'
  <2>1. \A v \in User : /\ request'[v].status = "running" <=> request'[v].holder # NoExecutor
                        /\ request'[v].leased => request'[v].status = "running"
    BY <1>2 DEF Rests, RowsInv, RowsTypeOK
  <2>2. workspace' \in {"live", "deleted", "wiped"} BY <1>1 DEF RowsInv, RowsTypeOK
  <2> QED BY <1>1, <1>2, <1>3, <2>1, <2>2 DEF RowsInv, RowsTypeOK
<1>5. Later BY <1>1 DEF Later
<1>6. UserOK(u)'
  <2>1. ItemsTrue(u)'
    <3>1. \A k \in Kind : item[u][k].status = "completed" => Gone(u, k)
      BY DEF RowsInv, UserOK, ItemsTrue
    <3>2. \A k \in Kind : Gone(u, k)' = Gone(u, k) BY <1>1 DEF Gone
    <3>3. \A k \in Kind : item'[u][k].status = "completed" => Gone(u, k)' BY <1>3, <3>1, <3>2
    <3> QED BY <1>1, <1>3, <3>3 DEF ItemsTrue
  <2> QED BY <1>2, <2>1 DEF UserOK, Untouched, Started
<1>7. \A v \in User : UserOK(v)' BY <1>2, <1>5, <1>6, UserKept DEF RowsInv
<1>8. ASSUME NEW f \in Executor, Done(f)'
      PROVE  f # e /\ exec'[f] = exec[f] /\ exec[f].user \in User \ {u} /\ Done(f)
  <2>1. f # e /\ exec'[f] = exec[f] /\ exec[f] # Idle BY <1>2, <1>8 DEF Done, Idle
  <2>2. exec[f].user \in User BY <2>1 DEF RowsInv, ExecOK
  <2>3. exec[f].user # u BY <1>2, <1>8, <2>1 DEF Done, LiveClaim
  <2> QED BY <1>2, <1>8, <2>1, <2>2, <2>3 DEF Done, LiveClaim, Rests
<1>9. \A f \in Executor : ExecOK(f)'
  <2> SUFFICES ASSUME NEW f \in Executor PROVE ExecOK(f)' OBVIOUS
  <2>1. CASE f = e BY <1>2, <2>1 DEF ExecOK, Done
  <2>2. CASE f # e BY <1>2, <1>5, <1>8, <2>2, ExecKept DEF RowsInv
  <2> QED BY <2>1, <2>2
<1>10. Choosing(u)' \/ frozen'[u] # "shared" BY <1>2, <1>8 DEF Choosing, UnderWay
<1>11. Owned'
  <2> SUFFICES ASSUME workspace' = "live" PROVE Owners' # {} \/ \E v \in User : Excused(v)'
    BY DEF Owned
  <2>1. workspace = "live" /\ frozen'[u] # "personal" BY <1>1, <1>3
  <2>2. \A v \in User \ {u} : Choosing(v) => Choosing(v)'
    BY <1>2, <1>8 DEF Choosing, UnderWay, Rests
  <2>3. \A v \in User \ {u} : Excused(v) => Excused(v)'
    BY <1>2, <2>2 DEF Excused, Rests, Remembers
  <2>4. frozen[u] # "none" => frozen'[u] = frozen[u] BY <1>2 DEF Disposition
  <2>5. frozen'[u] \in {"none", "shared"} BY <1>2, <2>1
  <2>6. CASE Owners \ {u} # {}
    BY <1>2, <2>6 DEF Owners, Active
  <2>7. CASE u \in Owners
    <3>1. member[u].status = "active" /\ member[u].role = "owner" BY <2>7 DEF Owners, Active
    <3>2. frozen'[u] # "none" BY <1>2, <2>1, <3>1 DEF Disposition
    <3>3. member'[u] = [role |-> "owner", status |-> "suspended"]
      BY <1>3, <3>1, <3>2 DEF Member
    <3> QED BY <1>10, <2>5, <3>2, <3>3 DEF Excused
  <2>8. CASE Excused(u)
    <3>1. CASE account[u] = "deleted"
      BY <1>2, <1>10, <2>5, <3>1 DEF Excused
    <3>2. CASE account[u] # "deleted"
      <4>1. member[u] = [role |-> "owner", status |-> "suspended"] /\ frozen[u] = "shared"
        BY <2>8, <3>2 DEF Excused, Choosing, UnderWay
      <4>2. frozen'[u] = "shared" BY <2>4, <4>1
      <4>3. member'[u] = [role |-> "owner", status |-> "suspended"]
        BY <1>3, <4>1, <4>2
      <4> QED BY <1>10, <4>2, <4>3 DEF Excused
    <3> QED BY <3>1, <3>2
  <2>9. CASE \E v \in User \ {u} : Excused(v) BY <2>3, <2>9
  <2> QED BY <2>1, <2>6, <2>7, <2>8, <2>9 DEF RowsInv, Owned
<1> QED BY <1>4, <1>7, <1>9, <1>11 DEF RowsInv

-----------------------------------------------------------------------------
(* The transactions on a shared Workspace.                                 *)

\* What an overtaken erasure was, it stays while it is open or once it is committed.
LEMMA OvertakingRemembers == Overtaking => Remembers
BY DEF Overtaking, Remembers

\* Whatever others do, a transaction finds what it has found or is overtaken.
LEMMA TransactionKept ==
  ASSUME NEW e \in Executor, TransactionOK(e), Overtaking, GoesOn(e),
         Erasing(e) => /\ request'[exec[e].user].status = request[exec[e].user].status
                       /\ request'[exec[e].user].holder = request[exec[e].user].holder
                       /\ item'[exec[e].user] = item[exec[e].user]
                       /\ frozen'[exec[e].user] = frozen[exec[e].user]
  PROVE  TransactionOK(e)'
<1> SUFFICES ASSUME Erasing(e) PROVE TransactionOK(e)' BY DEF TransactionOK, Erasing, GoesOn
<1> DEFINE u == exec[e].user
<1>1. Statuses(exec[e].user)' = Statuses(u) BY DEF Statuses, GoesOn
<1>2. ASSUME Found(e)' = {} PROVE u \in overtaken'
  <2>1. e \in Deserted BY <1>2 DEF Deserted, GoesOn
  <2>2. u \in UnderErasure' BY DEF UnderErasure, Erasing, GoesOn
  <2> QED BY <2>1, <2>2 DEF Overtaking
<1> QED BY <1>1, <1>2 DEF TransactionOK, GoesOn

\* A step of executor e leaves the transactions of the others alone.
LEMMA OthersKept ==
  ASSUME RowsInv, TransactionsInv, Overtaking, NEW e \in Executor,
         \A f \in Executor \ {e} : exec'[f] = exec[f], frozen' = frozen,
         \A v \in User : \/ request'[v] = request[v] /\ item'[v] = item[v]
                         \/ v = exec[e].user /\ LiveClaim(e),
         TransactionOK(e)'
  PROVE  \A f \in Executor : TransactionOK(f)'
<1> SUFFICES ASSUME NEW f \in Executor \ {e} PROVE TransactionOK(f)' OBVIOUS
<1>1. ASSUME Erasing(f)
      PROVE  request'[exec[f].user] = request[exec[f].user]
             /\ item'[exec[f].user] = item[exec[f].user]
  <2>1. exec[f].user \in User BY <1>1, AtWork DEF Erasing
  <2>2. request[exec[f].user].holder = f BY <1>1 DEF TransactionsInv, TransactionOK
  <2>3. CASE exec[f].user = exec[e].user /\ LiveClaim(e) BY <2>2, <2>3 DEF LiveClaim
  <2> QED BY <2>1, <2>3
<1> QED BY <1>1, TransactionKept DEF TransactionsInv, GoesOn

\* Steps that move no executor, no item and no request an open transaction has locked.
LEMMA AllKept ==
  ASSUME RowsInv, TransactionsInv, Overtaking, UNCHANGED <<item, frozen>>, AllGoOn,
         \A e \in Executor :
           Erasing(e) => /\ request'[exec[e].user].status = request[exec[e].user].status
                         /\ request'[exec[e].user].holder = request[exec[e].user].holder
  PROVE  \A e \in Executor : TransactionOK(e)'
BY TransactionKept DEF TransactionsInv, AllGoOn

\* Users ask and withdraw, members manage each other, leases end.
LEMMA UsersKeep ==
  ASSUME RowsInv, TransactionsInv, Overtaking,
         Access \/ \E u \in User : Asks(u) \/ Exhaust(u) \/ Lapse(u)
  PROVE  \A e \in Executor : TransactionOK(e)'
<1>1. CASE Access
  <2>1. UNCHANGED <<request, item, frozen>>
    BY <1>1 DEF Access, RemoveMember, UpdateMember, Join, DeleteWorkspace, Unmanaged, erasure
  <2>2. UNCHANGED exec \/ \E u \in User : Forget(u)
    BY <1>1 DEF Access, RemoveMember, UpdateMember, Join, DeleteWorkspace
  <2> QED BY <2>1, <2>2, GoOn, AllKept
<1>2. ASSUME NEW u \in User, Asks(u) \/ Exhaust(u) \/ Lapse(u)
      PROVE  \A e \in Executor : TransactionOK(e)'
  <2>1. UNCHANGED <<item, frozen, exec>>
    BY <1>2 DEF Asks, AskDeletion, ReadForCancel, Cancel, Exhaust, Lapse, erasure, External
  <2>2. ASSUME NEW e \in Executor, Erasing(e)
        PROVE  /\ request'[exec[e].user].status = request[exec[e].user].status
               /\ request'[exec[e].user].holder = request[exec[e].user].holder
    <3>1. /\ exec[e].user \in User /\ exec[e].user \in UnderErasure
          /\ request[exec[e].user].status = "running"
      BY <2>2, AtWork DEF Erasing, UnderErasure, TransactionsInv, TransactionOK
    <3>2. CASE Lapse(u)
      BY <3>1, <3>2, RowsTyped DEF Lapse, Typed, RowsInv, RowsTypeOK, Request
    <3>3. CASE Asks(u) \/ Exhaust(u)
      <4>1. \/ request' = request
            \/ \E r : request' = [request EXCEPT ![u] = r] /\ u # exec[e].user
        <5>1. CASE AskDeletion(u) BY <3>1, <5>1 DEF AskDeletion
        <5>2. CASE ReadForCancel(u) BY <5>2 DEF ReadForCancel
        <5>3. CASE Cancel(u) BY <3>1, <5>3 DEF Cancel, SavedAsRead
        <5>4. CASE Exhaust(u) BY <3>1, <5>4 DEF Exhaust
        <5> QED BY <3>3, <5>1, <5>2, <5>3, <5>4 DEF Asks
      <4> QED BY <3>1, <4>1 DEF RowsInv, RowsTypeOK
    <3> QED BY <1>2, <3>2, <3>3
  <2> QED BY <2>1, <2>2, GoOn, AllKept
<1> QED BY <1>1, <1>2

\* Executors change requests and items under live claims, and those of nobody else.
LEMMA ExecutorsKeep ==
  ASSUME RowsInv, TransactionsInv, Overtaking, NEW e \in Executor, Works(e) \/ Crash(e)
  PROVE  \A f \in Executor : TransactionOK(f)'
<1> USE RowsTyped DEF Typed
<1> DEFINE u == exec[e].user
           Alone == /\ \A f \in Executor \ {e} : exec'[f] = exec[f]
                    /\ frozen' = frozen
                    /\ \A v \in User : \/ request'[v] = request[v] /\ item'[v] = item[v]
                                       \/ v = u /\ LiveClaim(e)
           OnlyOwn == \/ exec' = exec
                     \/ \E x : exec' = [exec EXCEPT ![e] = x]
<1>1. ASSUME OnlyOwn PROVE \A f \in Executor \ {e} : exec'[f] = exec[f]
  BY <1>1 DEF RowsInv, RowsTypeOK
<1>2. ASSUME NEW x, exec' = [exec EXCEPT ![e] = x] PROVE exec'[e] = x
  BY <1>2 DEF RowsInv, RowsTypeOK
<1>3. ASSUME exec'[e].step \notin {"demoted", "choosing", "chosen"} PROVE TransactionOK(e)'
  BY <1>3 DEF TransactionOK, Erasing
<1>4. CASE ClaimItems(e) \/ AfterItems(e) \/ Finalize(e) \/ Crash(e)
            \/ \E k \in Kind : EraseObject(e, k) \/ CompleteItem(e, k) \/ RetryItem(e, k)
  <2>1. OnlyOwn /\ frozen' = frozen
    BY <1>4 DEF ClaimItems, AfterItems, Finalize, Crash, EraseObject, CompleteItem, RetryItem,
                Stop, Enter, Dropped, External, erasure
  <2>2. ASSUME NEW v \in User, ~(v = u /\ LiveClaim(e))
        PROVE  request'[v] = request[v] /\ item'[v] = item[v]
    BY <1>4, <2>2 DEF ClaimItems, AfterItems, Finalize, Crash, EraseObject, CompleteItem,
                      RetryItem, Owns, External, erasure, RowsInv, RowsTypeOK
  <2>3. exec'[e].step \notin {"demoted", "choosing", "chosen"}
    <3>1. CASE Finalize(e) \/ Crash(e)
      BY <3>1, ExecMoves DEF Finalize, Crash, Idle
    <3>2. CASE ClaimItems(e)
      <4>1. CASE Enter(e, "items") BY <4>1, ExecMoves
      <4>2. CASE \E k \in Kind : exec' = [exec EXCEPT ![e] = [@ EXCEPT !.step = "items", !.todo = {k}]]
        <5>1. PICK k \in Kind : exec'[e] = [exec[e] EXCEPT !.step = "items", !.todo = {k}]
          BY <1>2, <4>2
        <5> QED BY <5>1 DEF Exec
      <4> QED BY <3>2, <4>1, <4>2 DEF ClaimItems
    <3>3. CASE AfterItems(e)
      <4>1. Enter(e, "erase") \/ Stop(e) BY <3>3 DEF AfterItems
      <4> QED BY <4>1, ExecMoves DEF Idle
    <3>4. ASSUME NEW k \in Kind, EraseObject(e, k) \/ CompleteItem(e, k) \/ RetryItem(e, k)
          PROVE  exec'[e].step \notin {"demoted", "choosing", "chosen"}
      <4>1. exec[e].todo # {} /\ exec[e] # Idle
        BY <3>4 DEF EraseObject, CompleteItem, RetryItem, Idle
      <4>2. exec[e].step = "items" BY <4>1, AtWork
      <4>3. exec'[e] = exec[e] \/ exec'[e] = Idle \/ exec'[e] = [exec[e] EXCEPT !.todo = @ \ {k}]
        BY <1>2, <3>4 DEF EraseObject, CompleteItem, RetryItem, Stop, Dropped
      <4> QED BY <4>2, <4>3 DEF Idle, Exec
    <3> QED BY <1>4, <3>1, <3>2, <3>3, <3>4
  <2> QED BY <1>1, <1>3, <2>1, <2>2, <2>3, OthersKept
<1>5. CASE EraseRows(e) \/ FindHeirs(e) \/ LockHeir(e) \/ CommitErasure(e)
  <2>1. UNCHANGED request /\ UNCHANGED erasure
    BY <1>5 DEF EraseRows, FindHeirs, LockHeir, CommitErasure, InTransaction
  <2>2. exec[e] # Idle /\ u \in User
    BY <1>5, AtWork DEF EraseRows, FindHeirs, LockHeir, CommitErasure, Idle
  <2>3. ASSUME exec'[e].user = u PROVE Statuses(exec[e].user)' = Statuses(u)
    BY <2>1, <2>3 DEF Statuses, erasure
  <2>4. TransactionOK(e)'
    <3>1. CASE EraseRows(e)
      <4>1. CASE Stop(e) BY <1>3, <4>1, ExecMoves DEF Idle
      <4>2. CASE Enter(e, "failed") \/ Enter(e, "completed") BY <1>3, <4>2, ExecMoves
      <4>3. CASE /\ LiveClaim(e) /\ Statuses(u) \subseteq {"none", "completed"}
                 /\ frozen[u] = "shared" /\ Active(User \ {u}) # {}
                 /\ Enter(e, "demoted") /\ UNCHANGED member
        <5>1. exec'[e].step = "demoted" /\ exec'[e].user = u
          BY <4>3, ExecMoves
        <5>2. Found(e)' # {} BY <4>3, <5>1 DEF Found, Active
        <5> QED BY <2>1, <2>3, <4>3, <5>1, <5>2 DEF TransactionOK, LiveClaim, erasure
      <4> QED BY <3>1, <4>1, <4>2, <4>3 DEF EraseRows
    <3>2. CASE CommitErasure(e)
      <4>1. EnterWith(e, "completed", {}) BY <3>2 DEF CommitErasure
      <4>2. exec'[e].step = "completed" BY <4>1, ExecMoves
      <4> QED BY <1>3, <4>2
    <3>3. CASE FindHeirs(e) \/ (LockHeir(e) /\ ~Stop(e))
      <4>1. /\ Erasing(e) /\ exec[e].step \in {"demoted", "choosing"} /\ UNCHANGED member
            /\ request[u].status = "running" /\ request[u].holder = e
            /\ Statuses(u) \subseteq {"none", "completed"} /\ frozen[u] = "shared"
            /\ exec[e].step # "demoted" => exec[e].heirs \subseteq User \ {u}
            /\ Found(e) # {} \/ u \in overtaken
        BY <3>3 DEF FindHeirs, LockHeir, InTransaction, Erasing, TransactionsInv, TransactionOK
      <4>2. PICK to \in {"choosing", "chosen"}, us \in SUBSET (User \ {u}) :
              /\ EnterWith(e, to, us)
              /\ Found(e) # {} => (Owners \ {u}) \cup Active(us) # {}
        <5>1. CASE FindHeirs(e)
          <6> DEFINE us == IF Owners \ {u} # {} THEN {} ELSE Active(User \ {u})
          <6>1. EnterWith(e, "choosing", us)
            BY <5>1 DEF FindHeirs
          <6>2. Found(e) = Active(User \ {u}) BY <5>1 DEF FindHeirs, Found
          <6>3. us \in SUBSET (User \ {u}) BY DEF Active
          <6>4. Found(e) # {} => (Owners \ {u}) \cup Active(us) # {} BY <6>2 DEF Active
          <6> HIDE DEF us
          <6> QED BY <6>1, <6>3, <6>4
        <5>2. CASE LockHeir(e) /\ ~Stop(e)
          <6> DEFINE heirs == Active(exec[e].heirs)
          <6>1. Found(e) = (Owners \ {u}) \cup heirs BY <5>2 DEF LockHeir, Found
          <6>2. heirs \subseteq User \ {u} BY <4>1, <5>2 DEF LockHeir, Active
          <6>3. PICK us \in SUBSET heirs :
                  /\ EnterWith(e, "chosen", us)
                  /\ us = {} => heirs = {}
            <7>1. CASE heirs = {} BY <5>2, <7>1 DEF LockHeir, Waits
            <7>2. CASE heirs # {}
              <8>1. PICK v \in heirs : EnterWith(e, "chosen", {v})
                BY <5>2, <7>2 DEF LockHeir
              <8>2. {v} \in SUBSET heirs /\ {v} # {} OBVIOUS
              <8> HIDE DEF heirs
              <8> QED BY <8>1, <8>2
            <7> QED BY <7>1, <7>2
          <6>4. Active(us) = us BY <6>3 DEF Active
          <6> QED BY <6>1, <6>2, <6>3, <6>4
        <5> QED BY <3>3, <5>1, <5>2
      <4>3. exec'[e].step = to /\ exec'[e].user = u /\ exec'[e].heirs = us
        BY <4>2, ExecMoves
      <4>4. Found(e)' = (Owners \ {u}) \cup Active(us) BY <4>1, <4>3 DEF Found, Owners, Active
      <4>5. u \in overtaken => u \in overtaken'
        <5>1. u \in UnderErasure' BY <4>3 DEF UnderErasure, Erasing
        <5> QED BY <5>1 DEF Overtaking
      <4> QED BY <2>1, <2>3, <4>1, <4>2, <4>3, <4>4, <4>5 DEF TransactionOK, erasure
    <3>4. CASE Stop(e) BY <1>3, <3>4, ExecMoves DEF Idle
    <3> QED BY <1>5, <3>1, <3>2, <3>3, <3>4
  <2>5. Stop(e) \/ (\E step : Enter(e, step)) \/ \E step, us : EnterWith(e, step, us)
    BY <1>5 DEF EraseRows, FindHeirs, LockHeir, CommitErasure
  <2>6. \A f \in Executor \ {e} : exec'[f] = exec[f] BY <2>5, ExecMoves
  <2> QED BY <2>1, <2>4, <2>6, OthersKept DEF erasure
<1> QED BY <1>4, <1>5 DEF Works

\* Every step keeps what the open transactions rely on.
LEMMA TransactionsStep ==
  ASSUME RowsInv, TransactionsInv, Moves, Overtaking
  PROVE  TransactionsInv'
<1>1. overtaken' \subseteq User
  <2>1. \A e \in Deserted : e \in Executor /\ exec[e].user \in User
    BY AtWork DEF Deserted, Erasing
  <2> QED BY <2>1 DEF Overtaking, TransactionsInv
<1>2. ASSUME NEW e \in Executor, NEW u \in Leaver, Claim(e, u)
      PROVE  \A f \in Executor : TransactionOK(f)'
  <2>1. /\ exec'[e].step = "claimed" /\ \A f \in Executor \ {e} : exec'[f] = exec[f]
        /\ \A v \in User \ {u} : Rests(v) /\ u \notin UnderErasure
    BY <1>2, UserAssumption, ClaimFacts DEF Claim
  <2>2. ASSUME NEW f \in Executor PROVE TransactionOK(f)'
    <3>1. CASE f = e BY <2>1, <3>1 DEF TransactionOK, Erasing
    <3>2. CASE f # e
      <4>1. Erasing(f) => exec[f].user \in User \ {u}
        BY <2>1, AtWork, <1>2 DEF Erasing, UnderErasure, Claim
      <4> QED BY <2>1, <3>2, <4>1, TransactionKept DEF TransactionsInv, Rests, GoesOn
    <3> QED BY <3>1, <3>2
  <2> QED BY <2>2
<1>3. \A f \in Executor : TransactionOK(f)'
  BY <1>2, UsersKeep, ExecutorsKeep, UserAssumption DEF Moves
<1> QED BY <1>1, <1>3 DEF TransactionsInv

-----------------------------------------------------------------------------
\* Every step keeps the rows, the members and the executors in order.
LEMMA RowsStep ==
  ASSUME RowsInv, TransactionsInv, Remembers, Moves
  PROVE  RowsInv'
<1>1. ASSUME NEW u \in Leaver, Asks(u) \/ Exhaust(u) \/ Lapse(u) PROVE RowsInv'
  <2>1. u \in User BY UserAssumption
  <2> QED BY <1>1, <2>1, AskStep, ReadStep, CancelStep, ExhaustStep, LapseStep DEF Asks
<1>2. ASSUME NEW e \in Executor, Works(e) PROVE RowsInv'
  BY <1>2, ClaimItemsStep, AfterItemsStep, EraseRowsStep, TransactionStep, CommitErasureStep,
     FinalizeStep, EraseObjectStep, CompleteItemStep, RetryItemStep DEF Works
<1>3. ASSUME NEW e \in Executor, Crash(e) PROVE RowsInv' BY <1>3, CrashStep
<1>4. ASSUME NEW e \in Executor, NEW u \in Leaver, Claim(e, u) PROVE RowsInv'
  <2>1. u \in User BY UserAssumption
  <2> QED BY <1>4, <2>1, ClaimStep
<1>5. CASE Access BY <1>5, AccessStep
<1> QED BY <1>1, <1>2, <1>3, <1>4, <1>5 DEF Moves

\* The invariant holds in every state of the deletions.
THEOREM DeletionInductive == Spec => []DeletionInv
<1>1. ASSUME Init PROVE DeletionInv
  <2>1. \A e \in Executor : ~Erasing(e) BY <1>1 DEF Init, Erasing, Idle
  <2>2. overtaken \subseteq User BY <1>1 DEF Init
  <2> QED BY <1>1, <2>1, <2>2, RowsInitInv DEF DeletionInv, TransactionsInv, TransactionOK
<1>2. ASSUME DeletionInv, Next PROVE DeletionInv'
  BY <1>2, RowsStep, TransactionsStep, OvertakingRemembers DEF Next, DeletionInv
<1>3. ASSUME DeletionInv, UNCHANGED vars PROVE DeletionInv'
  <2>1. UNCHANGED <<account, member, workspace, request, cancelling, frozen, item,
                    uploads, secrets, exec, overtaken>>
    BY <1>3 DEF vars, stateVars
  <2>2. RowsTypeOK' BY <1>3, <2>1 DEF DeletionInv, RowsInv, RowsTypeOK
  <2>3. Later /\ \A v : Rests(v) BY <2>1 DEF Later, Rests
  <2>4. \A v \in User : UserOK(v)' BY <1>3, <2>3, UserKept DEF DeletionInv, RowsInv
  <2>5. \A f \in Executor : ExecOK(f)'
    BY <1>3, <2>1, <2>3, ExecKept DEF DeletionInv, RowsInv
  <2>6. \A v \in User : Choosing(v) => Choosing(v)'
    BY <2>1 DEF Choosing, UnderWay, Done, LiveClaim
  <2>7. Owned' BY <1>3, <2>1, <2>6, OwnedKept DEF DeletionInv, RowsInv, Remembers
  <2>8. TransactionsInv'
    BY <1>3, <2>1 DEF DeletionInv, TransactionsInv, TransactionOK, Erasing, Found, Statuses,
                      Owners, Active
  <2> QED BY <2>2, <2>4, <2>5, <2>7, <2>8 DEF DeletionInv, RowsInv
<1> QED BY <1>1, <1>2, <1>3, PTL DEF Spec

\* Requests, claims and leases stay within their types and limits.
THEOREM DeletionTyped == Spec => []TypeOK
<1>1. DeletionInv => TypeOK BY DEF DeletionInv, RowsInv, TransactionsInv, TypeOK
<1> QED BY <1>1, DeletionInductive, PTL

\* What a settled request says of the account is true.
THEOREM VerdictsHold == Spec => []VerdictHolds
<1>1. ASSUME DeletionInv PROVE VerdictHolds
  <2> SUFFICES ASSUME NEW u \in User
               PROVE  /\ request[u].status = "completed" =>
                           /\ account[u] = "deleted" /\ u \notin secrets
                           /\ Statuses(u) \subseteq {"none", "completed"}
                           /\ frozen[u] = "personal" => ~uploads /\ workspace = "wiped"
                      /\ request[u].status = "cancelled" =>
                           /\ account[u] = "active" /\ frozen[u] = "none"
                           /\ Statuses(u) = {"none"} /\ request[u].holder = NoExecutor
    BY DEF VerdictHolds
  <2>1. CASE request[u].status = "completed"
    BY <1>1, <2>1 DEF DeletionInv, RowsInv, UserOK, Erased, Statuses
  <2>2. CASE request[u].status = "cancelled"
    <3>1. /\ frozen[u] = "none" /\ account[u] = "active"
          /\ \A k \in Kind : item[u][k].status = "none"
      BY <1>1, <2>2 DEF DeletionInv, RowsInv, UserOK, Untouched, Started
    <3>2. request[u].holder = NoExecutor BY <1>1, <2>2 DEF DeletionInv, RowsInv, RowsTypeOK
    <3> QED BY <2>2, <3>1, <3>2 DEF Statuses, Kind
  <2> QED BY <2>1, <2>2
<1> QED BY <1>1, DeletionInductive, PTL

\* A live Workspace has an active owner, or a deletion that has frozen it as shared
\* and is not completed has still to choose one, or its last owner was erased: by a
\* deletion whose first claim found no Workspace to hand on, or by one that was
\* overtaken, whose transaction lost all it had found to other members' steps.
THEOREM WorkspacesOwned == Spec => []OwnedUnlessDeleting
<1>1. ASSUME DeletionInv PROVE OwnedUnlessDeleting
  BY <1>1 DEF DeletionInv, RowsInv, Owned, Excused, Choosing, OwnedUnlessDeleting, Attended,
              LateJoiner
<1> QED BY <1>1, DeletionInductive, PTL

-----------------------------------------------------------------------------
(* The deletion keeps the promise of AccountErasure.                       *)

\* A claimed deletion has suspended the account.
Suspends == \A u \in User : Started(u) => account[u] \in {"suspended", "deleted"}

\* Only a deletion that takes the Workspace along lists its files.
FilesAreOwn == \A u \in User : item[u]["upload"].status # "none" => frozen[u] = "personal"

\* An executor works for a claimed deletion, on items it has listed.
Assigned(e) == exec[e] # Idle =>
  /\ Started(exec[e].user)
  /\ \A k \in exec[e].todo : item[exec[e].user][k].status # "none"

ErasureInv == Suspends /\ FilesAreOwn /\ \A e \in Executor : Assigned(e)

\* What is started or listed stays so, and executors that move stay assigned.
LEMMA ErasureKept ==
  ASSUME RowsInv, ErasureInv,
         \A u \in User :
           /\ Started(u) => Started(u)'
           /\ \A k \in Kind : item[u][k].status # "none" => item'[u][k].status # "none"
           /\ Started(u)' => account'[u] \in {"suspended", "deleted"}
           /\ item'[u]["upload"].status # "none" => frozen'[u] = "personal",
         \A e \in Executor : exec'[e] = exec[e] \/ Assigned(e)'
  PROVE  ErasureInv'
<1>1. ASSUME NEW e \in Executor, exec'[e] = exec[e] PROVE Assigned(e)'
  BY <1>1, AtWork DEF ErasureInv, Assigned
<1> QED BY <1>1 DEF ErasureInv, Suspends, FilesAreOwn

\* A step that the promise does not know of.
LEMMA HiddenStep ==
  ASSUME RowsInv, ErasureInv,
         UNCHANGED <<account, workspace, frozen, uploads, secrets>>,
         \A u \in User : request'[u].status = request[u].status,
         \A u \in User, k \in Kind : item[u][k].status = "none" <=> item'[u][k].status = "none",
         \A e \in Executor :
           \/ exec'[e] = exec[e] \/ exec'[e] = Idle
           \/ /\ exec[e] # Idle /\ exec'[e].user = exec[e].user
              /\ \A k \in exec'[e].todo : item'[exec[e].user][k].status # "none"
  PROVE  ErasureInv' /\ UNCHANGED Erasure!eVars
<1>1. \A u \in User : Started(u)' <=> Started(u) BY DEF Started
<1>2. ASSUME NEW e \in Executor PROVE exec'[e] = exec[e] \/ Assigned(e)'
  <2>1. CASE exec'[e] = exec[e] BY <2>1
  <2>2. CASE exec'[e] = Idle BY <2>2 DEF Assigned, Idle
  <2>3. CASE /\ exec[e] # Idle /\ exec'[e].user = exec[e].user
             /\ \A k \in exec'[e].todo : item'[exec[e].user][k].status # "none"
    BY <1>1, <2>3, AtWork DEF ErasureInv, Assigned
  <2> QED BY <2>1, <2>2, <2>3
<1>3. "upload" \in Kind BY DEF Kind
<1>4. ErasureInv' BY <1>1, <1>2, <1>3, ErasureKept DEF ErasureInv, Suspends, FilesAreOwn
<1> QED BY <1>4 DEF Erasure!eVars

\* The rows of one user change, and no executor, item or disposition.
LEMMA RequestStep ==
  ASSUME RowsInv, ErasureInv, UNCHANGED exec, UNCHANGED erasure,
         \A u \in User : /\ Started(u) => Started(u)'
                         /\ Started(u)' => account'[u] \in {"suspended", "deleted"}
  PROVE  ErasureInv'
BY ErasureKept DEF erasure, ErasureInv, FilesAreOwn

\* What members do to each other is no business of the promise; an owner may close the Workspace.
LEMMA AccessErases ==
  ASSUME RowsInv, ErasureInv, Access
  PROVE  ErasureInv' /\ [Erasure!ENext]_(Erasure!eVars)
<1>1. CASE Unmanaged /\ AllGoOn
  <2>1. \A e \in Executor : exec'[e] = Idle \/ (exec[e] # Idle /\ exec'[e].user = exec[e].user
                              /\ \A k \in exec'[e].todo : item'[exec[e].user][k].status # "none")
    BY <1>1 DEF AllGoOn, GoesOn, ErasureInv, Assigned, Unmanaged, erasure
  <2> QED BY <1>1, <2>1, HiddenStep DEF Unmanaged, erasure
<1>2. CASE DeleteWorkspace
  <2>1. ErasureInv' BY <1>2, RequestStep DEF DeleteWorkspace, ErasureInv, Suspends, Started
  <2>2. Erasure!Close BY <1>2 DEF DeleteWorkspace, erasure, Erasure!Close
  <2> QED BY <2>1, <2>2 DEF Erasure!ENext
<1> QED BY <1>1, <1>2, GoOn DEF Access, RemoveMember, UpdateMember, Join

\* Asking, withdrawing in time, and giving up are steps of the promise.
LEMMA UserErases ==
  ASSUME RowsInv, ErasureInv, NEW u \in User,
         Asks(u) \/ Exhaust(u) \/ Lapse(u)
  PROVE  ErasureInv' /\ [Erasure!ENext]_(Erasure!eVars)
<1> DEFINE st == [v \in User |-> request[v].status]
<1>1. request \in [User -> Request] /\ account = [v \in User |-> account[v]]
  BY DEF RowsInv, RowsTypeOK
<1>2. ASSUME NEW r, request' = [request EXCEPT ![u] = r]
      PROVE  [v \in User |-> request'[v].status] = [st EXCEPT ![u] = r.status]
  BY <1>1, <1>2
<1>3. CASE AskDeletion(u)
  <2>1. /\ UNCHANGED <<workspace, exec>> /\ UNCHANGED erasure /\ request[u].status = "none"
        /\ request' = [request EXCEPT ![u] = [request[u] EXCEPT !.status = "scheduled"]]
        /\ account' = [account EXCEPT ![u] = "scheduled"]
    BY <1>3 DEF AskDeletion
  <2>2. [request[u] EXCEPT !.status = "scheduled"].status = "scheduled"
    BY <1>1 DEF Request
  <2>3. Erasure!Ask(u)
    BY <1>2, <2>1, <2>2 DEF Erasure!Ask, Erasure!Enter, erasure
  <2>4. \A v \in User : /\ Started(v) => Started(v)'
                        /\ Started(v)' => account'[v] \in {"suspended", "deleted"}
    BY <1>1, <2>1, <2>2 DEF Started, ErasureInv, Suspends
  <2> QED BY <2>1, <2>3, <2>4, RequestStep DEF Erasure!ENext
<1>4. CASE Cancel(u) /\ request[u].status = "scheduled"
  <2>1. /\ UNCHANGED <<workspace, exec>> /\ UNCHANGED erasure
        /\ request' = [request EXCEPT ![u] = [request[u] EXCEPT !.status = "cancelled"]]
        /\ account' = [account EXCEPT ![u] = "active"]
    BY <1>4 DEF Cancel, SavedAsRead
  <2>2. [request[u] EXCEPT !.status = "cancelled"].status = "cancelled"
    BY <1>1 DEF Request
  <2>3. Erasure!Withdraw(u)
    BY <1>2, <1>4, <2>1, <2>2 DEF Erasure!Withdraw, Erasure!Enter, erasure
  <2>4. \A v \in User : /\ Started(v) => Started(v)'
                        /\ Started(v)' => account'[v] \in {"suspended", "deleted"}
    BY <1>1, <1>4, <2>1, <2>2 DEF Started, ErasureInv, Suspends
  <2> QED BY <2>1, <2>3, <2>4, RequestStep DEF Erasure!ENext
<1>5. CASE Exhaust(u)
  <2>1. /\ UNCHANGED <<account, workspace, exec>> /\ UNCHANGED erasure
        /\ request[u].status = "running"
        /\ request' = [request EXCEPT ![u] = Closed(request[u], "failed")]
    BY <1>5 DEF Exhaust
  <2>2. Closed(request[u], "failed").status = "failed" BY <1>1 DEF Closed, Request
  <2>3. Erasure!Finish(u) BY <1>2, <2>1, <2>2 DEF Erasure!Finish, erasure
  <2>4. \A v \in User : /\ Started(v) => Started(v)'
                        /\ Started(v)' => account'[v] \in {"suspended", "deleted"}
    BY <1>1, <2>1, <2>2 DEF Started, ErasureInv, Suspends
  <2> QED BY <2>1, <2>3, <2>4, RequestStep DEF Erasure!ENext
<1>6. CASE ReadForCancel(u) \/ (Cancel(u) /\ request[u].status # "scheduled")
  BY <1>6, HiddenStep DEF ReadForCancel, Cancel, SavedAsRead, erasure
<1>7. CASE Lapse(u)
  <2>1. request' = [request EXCEPT ![u] = [request[u] EXCEPT !.leased = FALSE]]
        /\ UNCHANGED <<item, uploads, secrets, exec>> /\ External
    BY <1>7 DEF Lapse
  <2>2. \A v \in User : request'[v].status = request[v].status BY <1>1, <2>1 DEF Request
  <2> QED BY <2>1, <2>2, HiddenStep DEF External
<1> QED BY <1>3, <1>4, <1>5, <1>6, <1>7 DEF Asks

\* An executor that works under no claim, crashes, or moves on without an item.
LEMMA MovesErases ==
  ASSUME RowsInv, ErasureInv, NEW e \in Executor, exec[e] # Idle,
         UNCHANGED <<account, workspace, request>>, UNCHANGED erasure,
         \/ Stop(e)
         \/ \E step : Enter(e, step)
         \/ \E step, us : EnterWith(e, step, us)
  PROVE  ErasureInv' /\ UNCHANGED Erasure!eVars
<1>1. \A f \in Executor \ {e} : exec'[f] = exec[f] BY ExecMoves
<1>2. \/ exec'[e] = Idle
      \/ exec'[e].user = exec[e].user /\ exec'[e].todo = exec[e].todo
  <2>1. CASE \E step, us : EnterWith(e, step, us)
    <3>1. PICK step, us : EnterWith(e, step, us) BY <2>1
    <3> HIDE <2>1
    <3> QED BY <3>1, ExecMoves
  <2>2. CASE Stop(e) \/ \E step : Enter(e, step) BY <2>2, ExecMoves
  <2> QED BY <2>1, <2>2
<1>3. exec'[e] = Idle \/ \A k \in exec'[e].todo : item'[exec[e].user][k].status # "none"
  BY <1>2 DEF erasure, ErasureInv, Assigned
<1> QED BY <1>1, <1>2, <1>3, HiddenStep DEF erasure

\* An executor changes the items of its user, none of which was or is unlisted.
LEMMA ItemErases ==
  ASSUME RowsInv, ErasureInv, NEW e \in Executor, NEW u \in User,
         exec[e] # Idle, exec[e].user = u, External, UNCHANGED <<uploads, secrets>>,
         \A v \in User : request'[v].status = request[v].status,
         \A v \in User \ {u} : item'[v] = item[v],
         \A k \in Kind : item[u][k].status = "none" <=> item'[u][k].status = "none",
         \A f \in Executor \ {e} : exec'[f] = exec[f],
         \/ exec'[e] = Idle
         \/ /\ exec'[e].user = u
            /\ \A k \in exec'[e].todo : k \in Kind /\ item'[u][k].status # "none"
  PROVE  ErasureInv' /\ UNCHANGED Erasure!eVars
BY HiddenStep DEF External

\* An executor takes an item.
LEMMA ClaimItemsErases ==
  ASSUME RowsInv, ErasureInv, NEW e \in Executor, ClaimItems(e)
  PROVE  ErasureInv' /\ UNCHANGED Erasure!eVars
<1> USE RowsTyped DEF Typed
<1>1. /\ exec[e].step = "claimed" /\ exec[e] # Idle /\ exec[e].todo = {}
      /\ UNCHANGED <<request, uploads, secrets>> /\ External
  <2>1. exec[e].step = "claimed" /\ UNCHANGED <<request, uploads, secrets>> /\ External
    BY DEF ClaimItems
  <2>2. exec[e] # Idle BY <2>1 DEF Idle
  <2> QED BY <2>1, <2>2, AtWork
<1>2. PICK u \in User : exec[e].user = u BY <1>1, AtWork
<1>3. CASE ~LiveClaim(e)
  BY <1>1, <1>3, MovesErases DEF ClaimItems, External, erasure
<1>4. CASE LiveClaim(e)
  <2> DEFINE its == item[exec[e].user]
             rows == [k \in Kind |-> IF Waiting(its[k]) /\ its[k].tries >= MaxTries
                                    THEN Moved(its[k], "failed") ELSE its[k]]
             ready == {k \in Kind : Waiting(rows[k])}
  <2>1. \A k \in Kind : /\ rows[k].status = "none" <=> item[u][k].status = "none"
                        /\ Waiting(rows[k]) => rows[k].status # "none"
    BY <1>2 DEF Moved, Item, Waiting
  <2>2. rows = [k \in Kind |-> rows[k]] OBVIOUS
  <2>3. CASE ready = {}
    <3>1. item' = [item EXCEPT ![u] = rows] /\ Enter(e, "items")
      BY <1>2, <1>4, <2>3 DEF ClaimItems
    <3>2. /\ exec'[e].user = u /\ exec'[e].todo = {}
          /\ \A f \in Executor \ {e} : exec'[f] = exec[f]
      BY <1>1, <1>2, <3>1 DEF Enter, Exec, RowsInv, RowsTypeOK
    <3>3. item'[u] = rows /\ \A v \in User \ {u} : item'[v] = item[v]
      BY <3>1 DEF RowsInv, RowsTypeOK
    <3> HIDE DEF rows, ready
    <3> QED BY <1>1, <1>2, <2>1, <3>2, <3>3, ItemErases
  <2>4. CASE ready # {}
    <3>1. PICK k \in ready :
            /\ item' = [item EXCEPT ![u] = [rows EXCEPT ![k] =
                          [status |-> "processing", tries |-> rows[k].tries + 1]]]
            /\ exec' = [exec EXCEPT ![e] = [exec[e] EXCEPT !.step = "items", !.todo = {k}]]
      BY <1>2, <1>4, <2>4 DEF ClaimItems
    <3>2. k \in Kind /\ rows[k].status # "none" BY <2>1
    <3>3. /\ exec'[e].user = u /\ exec'[e].todo = {k}
          /\ \A f \in Executor \ {e} : exec'[f] = exec[f]
      BY <1>1, <1>2, <3>1 DEF Exec, RowsInv, RowsTypeOK
    <3> HIDE DEF rows, ready
    <3>4. /\ \A v \in User \ {u} : item'[v] = item[v]
          /\ item'[u][k].status = "processing"
          /\ \A j \in Kind \ {k} : item'[u][j] = rows[j]
      BY <2>2, <3>1, <3>2 DEF RowsInv, RowsTypeOK
    <3>5. \A j \in Kind : item[u][j].status = "none" <=> item'[u][j].status = "none"
      BY <2>1, <3>2, <3>4
    <3> QED BY <1>1, <1>2, <3>2, <3>3, <3>4, <3>5, ItemErases
  <2> QED BY <2>3, <2>4
<1> QED BY <1>3, <1>4

\* It completes one.
LEMMA CompleteItemErases ==
  ASSUME RowsInv, ErasureInv, NEW e \in Executor, NEW k \in Kind, CompleteItem(e, k)
  PROVE  ErasureInv' /\ UNCHANGED Erasure!eVars
<1> USE RowsTyped DEF Typed
<1>1. /\ UNCHANGED <<request, uploads, secrets>> /\ External
      /\ k \in exec[e].todo /\ exec[e] # Idle
  BY DEF CompleteItem, Idle
<1>2. PICK u \in User : exec[e].user = u BY <1>1, AtWork
<1>3. CASE ~Owns(e, k)
  BY <1>1, <1>3, MovesErases DEF CompleteItem, External, erasure
<1>4. CASE Owns(e, k)
  <2>1. /\ item' = [item EXCEPT ![u][k] = Moved(item[u][k], "completed")]
        /\ exec' = [exec EXCEPT ![e] = [exec[e] EXCEPT !.todo = exec[e].todo \ {k}]]
    BY <1>2, <1>4 DEF CompleteItem, Dropped
  <2>2. Moved(item[u][k], "completed").status # "none" BY DEF Moved, Item
  <2>3. item[u][k].status # "none" BY <1>2, <1>4 DEF Owns
  <2>4. /\ \A v \in User \ {u} : item'[v] = item[v]
        /\ \A j \in Kind : item[u][j].status = "none" <=> item'[u][j].status = "none"
    BY <2>1, <2>2, <2>3 DEF RowsInv, RowsTypeOK
  <2>5. /\ exec'[e].user = u /\ exec'[e].todo \subseteq exec[e].todo
        /\ \A f \in Executor \ {e} : exec'[f] = exec[f]
    BY <1>2, <2>1 DEF Exec, RowsInv, RowsTypeOK
  <2>6. \A j \in exec[e].todo : j \in Kind /\ item[u][j].status # "none"
    BY <1>1, <1>2, AtWork DEF ErasureInv, Assigned
  <2> QED BY <1>1, <1>2, <2>4, <2>5, <2>6, ItemErases
<1> QED BY <1>3, <1>4

\* It leaves one for another attempt.
LEMMA RetryItemErases ==
  ASSUME RowsInv, ErasureInv, NEW e \in Executor, NEW k \in Kind, RetryItem(e, k)
  PROVE  ErasureInv' /\ UNCHANGED Erasure!eVars
<1> USE RowsTyped DEF Typed
<1>1. /\ UNCHANGED <<uploads, secrets>> /\ External
      /\ k \in exec[e].todo /\ exec[e] # Idle
  BY DEF RetryItem, Idle
<1>2. PICK u \in User : exec[e].user = u BY <1>1, AtWork
<1>3. CASE ~Owns(e, k)
  <2>1. Stop(e) /\ UNCHANGED <<item, request>> BY <1>3 DEF RetryItem
  <2> QED BY <1>1, <2>1, MovesErases DEF External, erasure
<1>4. CASE Owns(e, k)
  <2>1. PICK to \in {"failed", "pending"} :
          /\ item' = [item EXCEPT ![u][k] = Moved(item[u][k], to)]
          /\ \/ request' = request \/ request' = [request EXCEPT ![u] = Released(u, k = "credential")]
          /\ \/ exec' = [exec EXCEPT ![e] = Idle]
             \/ exec' = [exec EXCEPT ![e] = [exec[e] EXCEPT !.todo = exec[e].todo \ {k}]]
    BY <1>2, <1>4 DEF RetryItem, Dropped, Stop
  <2>2. Moved(item[u][k], to).status # "none" BY DEF Moved, Item
  <2>3. item[u][k].status # "none" BY <1>2, <1>4 DEF Owns
  <2>4. /\ \A v \in User \ {u} : item'[v] = item[v]
        /\ \A j \in Kind : item[u][j].status = "none" <=> item'[u][j].status = "none"
    BY <2>1, <2>2, <2>3 DEF RowsInv, RowsTypeOK
  <2>5. /\ exec'[e] = Idle \/ (exec'[e].user = u /\ exec'[e].todo \subseteq exec[e].todo)
        /\ \A f \in Executor \ {e} : exec'[f] = exec[f]
    BY <1>2, <2>1 DEF Exec, RowsInv, RowsTypeOK
  <2>6. \A j \in exec[e].todo : j \in Kind /\ item[u][j].status # "none"
    BY <1>1, <1>2, AtWork DEF ErasureInv, Assigned
  <2>7. Released(u, k = "credential").status = request[u].status
    BY DEF Released, HandedBack, Request
  <2>8. \A v \in User : request'[v].status = request[v].status
    BY <2>1, <2>7 DEF RowsInv, RowsTypeOK
  <2> QED BY <1>1, <1>2, <2>4, <2>5, <2>6, <2>8, ItemErases
<1> QED BY <1>3, <1>4

\* It goes on, or gives its claim back.
LEMMA AfterItemsErases ==
  ASSUME RowsInv, ErasureInv, NEW e \in Executor, AfterItems(e)
  PROVE  ErasureInv' /\ UNCHANGED Erasure!eVars
<1> USE RowsTyped DEF Typed
<1>1. /\ UNCHANGED <<item, uploads, secrets>> /\ External
      /\ exec[e].step = "items" /\ exec[e] # Idle
  BY DEF AfterItems, Idle
<1>2. PICK u \in User : exec[e].user = u BY <1>1, AtWork
<1>3. \/ (Stop(e) \/ Enter(e, "erase")) /\ UNCHANGED request
      \/ Stop(e) /\ request' = [request EXCEPT ![u] = Released(u, TRUE)]
  BY <1>2 DEF AfterItems
<1>4. CASE (Stop(e) \/ Enter(e, "erase")) /\ UNCHANGED request
  BY <1>1, <1>4, MovesErases DEF External, erasure
<1>5. CASE Stop(e) /\ request' = [request EXCEPT ![u] = Released(u, TRUE)]
  <2>1. Released(u, TRUE).status = request[u].status BY DEF Released, HandedBack, Request
  <2>2. \A v \in User : request'[v].status = request[v].status
    BY <1>5, <2>1 DEF RowsInv, RowsTypeOK
  <2>3. exec'[e] = Idle /\ \A f \in Executor \ {e} : exec'[f] = exec[f]
    BY <1>5 DEF Stop, RowsInv, RowsTypeOK
  <2> QED BY <1>1, <1>2, <2>2, <2>3, ItemErases
<1> QED BY <1>3, <1>4, <1>5

\* A file is erased for a deletion that takes the Workspace along, or has, and a
\* credential for its own user, by whatever executor, however late.
LEMMA EraseObjectErases ==
  ASSUME RowsInv, ErasureInv, NEW e \in Executor, NEW k \in Kind, EraseObject(e, k)
  PROVE  ErasureInv' /\ Erasure!ENext
<1>1. k \in exec[e].todo /\ exec[e] # Idle /\ UNCHANGED <<request, item, exec>> /\ External
  BY DEF EraseObject, Idle
<1>2. PICK u \in User : exec[e].user = u BY <1>1, AtWork
<1>3. Started(u) /\ item[u][k].status # "none" BY <1>1, <1>2 DEF ErasureInv, Assigned
<1>4. ErasureInv'
  BY <1>1, ErasureKept DEF External, ErasureInv, Suspends, FilesAreOwn, Started
<1>5. CASE k = "upload"
  <2>1. uploads /\ uploads' = FALSE /\ UNCHANGED secrets BY <1>5 DEF EraseObject
  <2>2. frozen[u] = "personal" BY <1>3, <1>5 DEF ErasureInv, FilesAreOwn
  <2>3. workspace # "live" BY <2>2 DEF RowsInv, UserOK, ItemsTrue
  <2>4. request[u].status # "completed" BY <2>1, <2>2 DEF RowsInv, UserOK, Erased
  <2>5. Erasure!EraseFiles(u)
    BY <1>1, <1>3, <2>1, <2>3, <2>4 DEF Erasure!EraseFiles, Erasure!Begun, Started, External
  <2> QED BY <1>4, <2>5 DEF Erasure!ENext
<1>6. CASE k = "credential"
  <2>1. u \in secrets /\ secrets' = secrets \ {u} /\ UNCHANGED uploads
    BY <1>2, <1>6 DEF EraseObject
  <2>2. request[u].status # "completed" BY <2>1 DEF RowsInv, UserOK, Erased
  <2>3. Erasure!EraseSecret(u)
    BY <1>1, <1>3, <2>1, <2>2 DEF Erasure!EraseSecret, Erasure!Begun, Started, External
  <2> QED BY <1>4, <2>3 DEF Erasure!ENext
<1> QED BY <1>5, <1>6 DEF Kind

\* The account is erased when nothing of the user is left outside the database.
LEMMA CommitErases ==
  ASSUME RowsInv, ErasureInv, NEW e \in Executor, NEW u \in User, exec[e] # Idle,
         exec[e].user = u, UNCHANGED request, UNCHANGED erasure,
         request[u].status = "running", Statuses(u) \subseteq {"none", "completed"},
         UNCHANGED workspace \/ (frozen[u] = "personal" /\ workspace' = "wiped"),
         account' = [account EXCEPT ![u] = "deleted"],
         exec'[e].user = u, exec'[e].todo = exec[e].todo,
         \A f \in Executor \ {e} : exec'[f] = exec[f]
  PROVE  ErasureInv' /\ [Erasure!ENext]_(Erasure!eVars)
<1>1. u \notin secrets /\ (frozen[u] = "personal" => ~uploads) BY NothingLeft
<1>2. frozen[u] = "personal" => workspace # "live" BY DEF RowsInv, UserOK, ItemsTrue
<1>3. Erasure!EraseAccount(u) BY <1>1, <1>2 DEF Erasure!EraseAccount, erasure
<1>4. Assigned(e)' BY DEF Assigned, ErasureInv, Started, erasure
<1>5. \A v \in User : Started(v)' => account'[v] \in {"suspended", "deleted"}
  BY DEF Started, ErasureInv, Suspends, RowsInv, RowsTypeOK
<1>6. ErasureInv'
  BY <1>4, <1>5, ErasureKept DEF erasure, ErasureInv, FilesAreOwn, Started
<1> QED BY <1>3, <1>6 DEF Erasure!ENext

LEMMA EraseRowsErases ==
  ASSUME RowsInv, ErasureInv, NEW e \in Executor, EraseRows(e)
  PROVE  ErasureInv' /\ [Erasure!ENext]_(Erasure!eVars)
<1> USE RowsTyped DEF Typed
<1>1. /\ UNCHANGED request /\ UNCHANGED erasure /\ exec[e].step = "erase" /\ exec[e] # Idle
  BY DEF EraseRows, Idle
<1>2. PICK u \in User : exec[e].user = u BY <1>1, AtWork
<1>3. CASE (Enter(e, "failed") \/ Enter(e, "demoted") \/ Stop(e))
           /\ UNCHANGED <<account, workspace>>
  BY <1>1, <1>3, MovesErases
<1>4. CASE /\ LiveClaim(e) /\ Statuses(u) \subseteq {"none", "completed"}
           /\ \/ UNCHANGED workspace
              \/ frozen[u] = "personal" /\ workspace' = "wiped"
           /\ account' = [account EXCEPT ![u] = "deleted"]
           /\ Enter(e, "completed")
  <2>1. request[u].status = "running" BY <1>2, <1>4 DEF LiveClaim
  <2>2. /\ exec'[e].user = u /\ exec'[e].todo = exec[e].todo
        /\ \A f \in Executor \ {e} : exec'[f] = exec[f]
    BY <1>2, <1>4 DEF Enter, Exec, RowsInv, RowsTypeOK
  <2> QED BY <1>1, <1>2, <1>4, <2>1, <2>2, CommitErases
<1> QED BY <1>2, <1>3, <1>4 DEF EraseRows, Wiped

\* The same at the end of the transaction on a shared Workspace, and not before.
LEMMA TransactionErases ==
  ASSUME RowsInv, TransactionsInv, ErasureInv, NEW e \in Executor,
         FindHeirs(e) \/ LockHeir(e) \/ CommitErasure(e)
  PROVE  ErasureInv' /\ [Erasure!ENext]_(Erasure!eVars)
<1> USE RowsTyped DEF Typed
<1>1. exec[e] # Idle /\ Erasing(e)
  BY DEF FindHeirs, LockHeir, CommitErasure, Erasing, Idle
<1>2. PICK u \in User : exec[e].user = u BY <1>1, AtWork
<1>3. CASE FindHeirs(e) \/ LockHeir(e)
  <2>1. UNCHANGED <<account, workspace, request>> /\ UNCHANGED erasure
    BY <1>3 DEF FindHeirs, LockHeir, InTransaction
  <2>2. \/ Stop(e)
        \/ \E step, us : EnterWith(e, step, us)
    BY <1>3, Zenon DEF FindHeirs, LockHeir
  <2> QED BY <1>1, <2>1, <2>2, MovesErases
<1>4. CASE CommitErasure(e)
  <2>1. /\ UNCHANGED <<request, workspace>> /\ UNCHANGED erasure
        /\ account' = [account EXCEPT ![u] = "deleted"]
        /\ exec' = [exec EXCEPT ![e] = [exec[e] EXCEPT !.step = "completed", !.heirs = {}]]
    BY <1>2, <1>4 DEF CommitErasure, EnterWith
  <2>2. request[u].status = "running" /\ Statuses(u) \subseteq {"none", "completed"}
    BY <1>1, <1>2 DEF TransactionsInv, TransactionOK
  <2>3. /\ exec'[e].user = u /\ exec'[e].todo = exec[e].todo
        /\ \A f \in Executor \ {e} : exec'[f] = exec[f]
    BY <1>2, <2>1 DEF Exec, RowsInv, RowsTypeOK
  <2> QED BY <1>1, <1>2, <2>1, <2>2, <2>3, CommitErases
<1> QED BY <1>3, <1>4

\* Only a live claim finishes a deletion.
LEMMA FinalizeErases ==
  ASSUME RowsInv, ErasureInv, NEW e \in Executor, Finalize(e)
  PROVE  ErasureInv' /\ [Erasure!ENext]_(Erasure!eVars)
<1> USE RowsTyped DEF Typed
<1>1. /\ UNCHANGED <<account, workspace>> /\ UNCHANGED erasure /\ Stop(e)
      /\ exec[e].step \in {"completed", "failed"} /\ exec[e] # Idle
  BY DEF Finalize, Idle
<1>2. PICK u \in User : exec[e].user = u BY <1>1, AtWork
<1>3. CASE ~LiveClaim(e)
  <2>1. request' = request BY <1>3 DEF Finalize
  <2> QED BY <1>1, <2>1, MovesErases
<1>4. CASE LiveClaim(e)
  <2> DEFINE to == exec[e].step
  <2>1. request[u].status = "running" /\ request' = [request EXCEPT ![u] = Closed(request[u], to)]
    BY <1>2, <1>4 DEF LiveClaim, Finalize
  <2>2. Closed(request[u], to).status = to BY DEF Closed, Request
  <2>3. to = "completed" => account[u] = "deleted" /\ u \notin secrets
    BY <1>2, <1>4 DEF RowsInv, ExecOK, Done, Erased
  <2>4. [v \in User |-> request'[v].status]
          = [[v \in User |-> request[v].status] EXCEPT ![u] = to]
    BY <2>1, <2>2 DEF RowsInv, RowsTypeOK
  <2>5. Erasure!Finish(u) BY <1>1, <2>1, <2>3, <2>4 DEF Erasure!Finish, erasure
  <2>6. /\ request'[u].status = to
        /\ \A v \in User \ {u} : request'[v] = request[v]
    BY <2>1, <2>2 DEF RowsInv, RowsTypeOK
  <2>7. \A v \in User : /\ Started(v) => Started(v)'
                        /\ Started(v)' => account'[v] \in {"suspended", "deleted"}
    BY <1>1, <2>1, <2>6 DEF Started, ErasureInv, Suspends
  <2>8. \A f \in Executor : exec'[f] = exec[f] \/ exec'[f] = Idle
    BY <1>1 DEF Stop, RowsInv, RowsTypeOK
  <2>9. \A f \in Executor : exec'[f] = exec[f] \/ Assigned(f)' BY <2>8 DEF Assigned, Idle
  <2>10. ErasureInv'
    BY <1>1, <2>7, <2>9, ErasureKept DEF erasure, ErasureInv, FilesAreOwn
  <2> QED BY <2>5, <2>10 DEF Erasure!ENext
<1> QED BY <1>3, <1>4

\* The first claim begins the deletion; a later one may close the Workspace.
LEMMA ClaimErases ==
  ASSUME RowsInv, ErasureInv, NEW e \in Executor, NEW u \in User, Claim(e, u)
  PROVE  ErasureInv' /\ [Erasure!ENext]_(Erasure!eVars)
<1> USE RowsTyped DEF Typed
<1>1. /\ UNCHANGED <<uploads, secrets>>
      /\ \/ workspace' = workspace
         \/ workspace = "live" /\ workspace' = "deleted"
      /\ account' = [account EXCEPT ![u] = IF @ = "deleted" THEN @ ELSE "suspended"]
  BY DEF Claim
<1>2. /\ request[u].status \in {"scheduled", "running"} /\ request'[u].status = "running"
      /\ \A v \in User \ {u} : Rests(v) /\ member'[v] = member[v]
      /\ exec'[e].user = u /\ exec'[e].todo = {} /\ frozen'[u] = Disposition(u)
      /\ \A f \in Executor \ {e} : exec'[f] = exec[f]
  BY ClaimFacts
<1>3. \A k \in Kind : item'[u][k] = item[u][k] \/ item'[u][k].status = "pending"
  BY ClaimRows
<1>4. account'[u] \in {"suspended", "deleted"} BY <1>1 DEF RowsInv, RowsTypeOK
<1>5. ASSUME item'[u]["upload"].status # "none" PROVE frozen'[u] = "personal"
  <2>1. CASE frozen[u] = "personal" BY <1>2, <2>1 DEF Disposition
  <2>2. CASE frozen[u] # "personal"
    <3>1. item[u]["upload"].status = "none" BY <2>2 DEF ErasureInv, FilesAreOwn
    <3>2. ASSUME Disposition(u) # "personal" PROVE item'[u]["upload"] = item[u]["upload"]
      BY <3>2 DEF Claim, RowsInv, RowsTypeOK, Kind
    <3> QED BY <1>2, <1>5, <3>1, <3>2
  <2> QED BY <2>1, <2>2
<1>6. Started(u)' /\ \A v \in User \ {u} : Started(v)' <=> Started(v)
  BY <1>2 DEF Started, Rests
<1>7. Assigned(e)' BY <1>2, <1>6 DEF Assigned
<1>8. ErasureInv'
  BY <1>2, <1>3, <1>4, <1>5, <1>6, <1>7, ErasureKept DEF ErasureInv, Suspends, FilesAreOwn, Rests
<1>9. CASE request[u].status = "scheduled"
  <2>1. account[u] = "scheduled" BY <1>9 DEF RowsInv, UserOK, Untouched, Started
  <2>2. account' = [account EXCEPT ![u] = "suspended"] BY <1>1, <2>1 DEF RowsInv, RowsTypeOK
  <2>3. [v \in User |-> request'[v].status]
          = [[v \in User |-> request[v].status] EXCEPT ![u] = "running"]
    BY <1>2 DEF Rests
  <2>4. Erasure!Begin(u)
    BY <1>1, <1>9, <2>2, <2>3 DEF Erasure!Begin, Erasure!Enter
  <2> QED BY <1>8, <2>4 DEF Erasure!ENext
<1>10. CASE request[u].status = "running"
  <2>1. account' = account
    BY <1>1, <1>10 DEF ErasureInv, Suspends, Started, RowsInv, RowsTypeOK
  <2>2. [v \in User |-> request'[v].status] = [v \in User |-> request[v].status]
    BY <1>2, <1>10 DEF Rests
  <2>3. CASE workspace' = workspace
    BY <1>1, <1>8, <2>1, <2>2, <2>3 DEF Erasure!eVars
  <2>4. CASE workspace = "live" /\ workspace' = "deleted"
    BY <1>1, <1>8, <2>1, <2>2, <2>4 DEF Erasure!Close, Erasure!ENext
  <2> QED BY <1>1, <2>3, <2>4
<1> QED BY <1>2, <1>9, <1>10

\* Every step of the deletions.
LEMMA ErasureStep ==
  ASSUME DeletionInv, ErasureInv, [Next]_vars
  PROVE  ErasureInv' /\ [Erasure!ENext]_(Erasure!eVars)
<1> USE DEF DeletionInv
<1>1. ASSUME NEW u \in Leaver, Asks(u) \/ Exhaust(u) \/ Lapse(u)
      PROVE  ErasureInv' /\ [Erasure!ENext]_(Erasure!eVars)
  <2>1. u \in User BY UserAssumption
  <2> QED BY <1>1, <2>1, UserErases
<1>2. ASSUME NEW e \in Executor, Works(e)
      PROVE  ErasureInv' /\ [Erasure!ENext]_(Erasure!eVars)
  BY <1>2, ClaimItemsErases, AfterItemsErases, EraseRowsErases, TransactionErases, FinalizeErases,
     EraseObjectErases, CompleteItemErases, RetryItemErases DEF Works
<1>3. ASSUME NEW e \in Executor, Crash(e)
      PROVE  ErasureInv' /\ [Erasure!ENext]_(Erasure!eVars)
  BY <1>3, MovesErases DEF Crash, External, erasure
<1>4. ASSUME NEW e \in Executor, NEW u \in Leaver, Claim(e, u)
      PROVE  ErasureInv' /\ [Erasure!ENext]_(Erasure!eVars)
  <2>1. u \in User BY UserAssumption
  <2> QED BY <1>4, <2>1, ClaimErases
<1>5. CASE Access BY <1>5, AccessErases
<1>6. CASE UNCHANGED vars
  BY <1>6, HiddenStep DEF vars, stateVars
<1> QED BY <1>1, <1>2, <1>3, <1>4, <1>5, <1>6 DEF Next, Moves

\* No step of members, users, executors or time takes anything from a user that
\* the promise of a deletion does not allow it to.
THEOREM DeletionKeepsPromise == Spec => ErasesAsPromised
<1>1. ASSUME Init PROVE ErasureInv
  <2>1. /\ \A u \in User : request[u].status = "none" /\ item[u]["upload"].status = "none"
        /\ \A e \in Executor : exec[e] = Idle
    BY <1>1 DEF Init, NoItem, Kind
  <2> QED BY <2>1 DEF ErasureInv, Suspends, FilesAreOwn, Assigned, Started
<1>2. ErasureInv /\ DeletionInv /\ [Next]_vars => ErasureInv' BY ErasureStep
<1>3. ErasureInv /\ DeletionInv /\ [Next]_vars => [Erasure!ENext]_(Erasure!eVars)
  BY ErasureStep
<1> QED BY <1>1, <1>2, <1>3, DeletionInductive, PTL DEF Spec, ErasesAsPromised

\* The deletion of accounts implements AccountErasure.
THEOREM DeletionImplements == Spec => Erasure!ESpec
<1>1. ASSUME Init PROVE Erasure!EInit
  BY <1>1, UserAssumption DEF Init, Erasure!EInit
<1> QED BY <1>1, DeletionKeepsPromise, PTL DEF Spec, ErasesAsPromised, Erasure!ESpec

-----------------------------------------------------------------------------
(***************************************************************************)
(* The identity e-mail outbox                                              *)
(***************************************************************************)

\* A worker about to acknowledge has had its message accepted by SMTP.
AcceptedFirst == \A w \in Worker, m \in Mail :
  Serving(w, m, "accepted") => ClaimOf(w, m) \in accepted

\* The inductive invariant: SentWasAccepted needs AcceptedFirst, because only
\* the worker knows what SMTP answered until it has acknowledged.
MailInv == MailTypeOK /\ LeaseHolds /\ AcceptedFirst /\ SentWasAccepted

-----------------------------------------------------------------------------
\* A worker that goes on to its next claim has a run of the right form.
LEMMA WithoutType ==
  ASSUME NEW r \in Run, NEW m \in Mail
  PROVE  /\ Without(r, m) \in Run
         /\ Without(r, m).step = "idle" <=> Without(r, m).claim = NoClaim
<1>1. NoClaim \in [Mail -> Nat] BY DEF NoClaim
<1>2. CASE \A n \in Mail \ {m} : r.claim[n] = 0
  BY <1>1, <1>2 DEF Without, NoRun, Run
<1>3. CASE ~(\A n \in Mail \ {m} : r.claim[n] = 0)
  <2> DEFINE c == [r.claim EXCEPT ![m] = 0]
  <2>1. PICK n \in Mail \ {m} : r.claim[n] # 0 BY <1>3
  <2>2. c \in [Mail -> Nat] BY DEF Run
  <2>3. c[n] # 0 BY <2>1 DEF Run
  <2>4. c # NoClaim BY <2>1, <2>3 DEF NoClaim
  <2>5. Without(r, m) = [step |-> "serving", claim |-> c] BY <1>3 DEF Without
  <2> QED BY <2>2, <2>4, <2>5 DEF Run
<1> QED BY <1>2, <1>3

\* What remains of a run after it has gone on from m.
LEMMA WithoutClaims ==
  ASSUME NEW r \in Run, NEW m \in Mail, NEW n \in Mail
  PROVE  /\ Without(r, m).claim[n] = IF n = m THEN 0 ELSE r.claim[n]
         /\ Without(r, m).step \in {"idle", "serving"}
<1>1. CASE \A k \in Mail \ {m} : r.claim[k] = 0
  BY <1>1 DEF Without, NoRun, NoClaim
<1>2. CASE ~(\A k \in Mail \ {m} : r.claim[k] = 0)
  BY <1>2 DEF Without, Run
<1> QED BY <1>1, <1>2

\* Releasing a row keeps its type, and only leased rows have an owner.
LEMMA UnleasedType ==
  ASSUME NEW r \in Row, NEW s \in {"pending", "sent", "dead", "gone"}
  PROVE  /\ Unleased(r, s) \in Row /\ Unleased(r, s).attempts = r.attempts
         /\ Unleased(r, s).status = s /\ Unleased(r, s).owner = Nobody
BY DEF Unleased, Row

\* The claims of worker w after it has gone on from m: what it keeps, it had.
LEMMA GoingOn ==
  ASSUME MailTypeOK, NEW w \in Worker, NEW m \in Mail, NextClaim(w, m)
  PROVE  /\ worker' \in [Worker -> Run]
         /\ \A v \in Worker : worker'[v].step = "idle" <=> worker'[v].claim = NoClaim
         /\ \A v \in Worker \ {w} : worker'[v] = worker[v]
         /\ worker'[w].step \in {"idle", "serving"}
         /\ \A n \in Mail : worker'[w].claim[n] = IF n = m THEN 0 ELSE worker[w].claim[n]
<1>1. worker[w] \in Run BY DEF MailTypeOK
<1>2. worker'[w] = Without(worker[w], m) BY DEF MailTypeOK, NextClaim
<1>3. \A v \in Worker \ {w} : worker'[v] = worker[v] BY DEF MailTypeOK, NextClaim
<1>4. worker' \in [Worker -> Run]
  BY <1>1, WithoutType DEF MailTypeOK, NextClaim
<1>5. ASSUME NEW v \in Worker
      PROVE  worker'[v].step = "idle" <=> worker'[v].claim = NoClaim
  <2>1. CASE v = w BY <2>1, <1>1, <1>2, WithoutType
  <2>2. CASE v # w BY <2>2, <1>3 DEF MailTypeOK
  <2> QED BY <2>1, <2>2
<1>6. worker'[w].step \in {"idle", "serving"} BY <1>1, <1>2, WithoutClaims
<1>7. \A n \in Mail : worker'[w].claim[n] = IF n = m THEN 0 ELSE worker[w].claim[n]
  BY <1>1, <1>2, WithoutClaims
<1> QED BY <1>3, <1>4, <1>5, <1>6, <1>7

\* A worker entering another step keeps its claims.
LEMMA SteppingTo ==
  ASSUME MailTypeOK, NEW w \in Worker, worker[w].step # "idle",
         NEW s \in {"serving", "accepted", "failed"}, StepTo(w, s)
  PROVE  /\ worker' \in [Worker -> Run]
         /\ \A v \in Worker : worker'[v].step = "idle" <=> worker'[v].claim = NoClaim
         /\ \A v \in Worker : worker'[v].claim = worker[v].claim
         /\ \A v \in Worker \ {w} : worker'[v] = worker[v]
         /\ worker'[w].step = s
BY DEF MailTypeOK, StepTo, Run

\* Only one worker holds the lease of a row.
LEMMA HolderIsUnique ==
  ASSUME NEW w \in Worker, NEW v \in Worker, NEW m \in Mail, Holds(w, m), Holds(v, m)
  PROVE  v = w
BY DEF Holds

-----------------------------------------------------------------------------
LEMMA MailInitInv == MailInit => MailInv
<1> SUFFICES ASSUME MailInit PROVE MailInv OBVIOUS
<1>1. MailTypeOK
  BY AttemptAssumption DEF MailInit, MailTypeOK, Row, Run, NoRun, NoClaim, Lease
<1>2. \A w \in Worker : Todo(w) = {} BY DEF MailInit, Todo, NoRun, NoClaim
<1>3. LeaseHolds /\ AcceptedFirst
  BY <1>2 DEF LeaseHolds, AcceptedFirst, Serving, IsCurrent
<1>4. SentWasAccepted BY DEF MailInit, SentWasAccepted
<1> QED BY <1>1, <1>3, <1>4 DEF MailInv

\* Steps of time, producers and retention leave the workers and leased rows alone.
LEMMA QuietSteps ==
  ASSUME MailInv, NEW m \in Mail, Enqueue(m) \/ BecomeDue(m) \/ Purge(m)
  PROVE  MailInv'
<1> USE DEF MailInv
<1>1. UNCHANGED <<worker, ended, accepted, faults>> BY DEF Enqueue, BecomeDue, Purge
<1>2. PICK r \in Row : /\ row' = [row EXCEPT ![m] = r]
                       /\ row[m].status # "leased" /\ r.status \notin {"leased", "sent"}
                       /\ r.attempts = row[m].attempts /\ r.owner = row[m].owner
  <2>1. row[m] \in Row BY DEF MailTypeOK
  <2>2. CASE Enqueue(m)
    <3> DEFINE r == [row[m] EXCEPT !.status = "pending", !.due = TRUE]
    <3>1. r \in Row /\ row' = [row EXCEPT ![m] = r]
      BY <2>1, <2>2 DEF Enqueue, Row, MailTypeOK
    <3> QED BY <2>1, <2>2, <3>1 DEF Enqueue, Row
  <2>3. CASE BecomeDue(m)
    <3> DEFINE r == [row[m] EXCEPT !.due = TRUE]
    <3>1. r \in Row /\ row' = [row EXCEPT ![m] = r]
      BY <2>1, <2>3 DEF BecomeDue, Row, MailTypeOK
    <3> QED BY <2>1, <2>3, <3>1 DEF BecomeDue, Row
  <2>4. CASE Purge(m)
    <3> DEFINE r == [row[m] EXCEPT !.status = "gone"]
    <3>1. r \in Row /\ row' = [row EXCEPT ![m] = r]
      BY <2>1, <2>4 DEF Purge, Row, MailTypeOK
    <3> QED BY <2>1, <2>4, <3>1 DEF Purge, Row
  <2> QED BY <2>2, <2>3, <2>4
<1>3. \A n \in Mail : row'[n] = IF n = m THEN r ELSE row[n] BY <1>2 DEF MailTypeOK
<1>4. MailTypeOK' BY <1>1, <1>2, <1>3 DEF MailTypeOK
<1>5. LeaseHolds'
  BY <1>1, <1>2, <1>3 DEF LeaseHolds, Todo, ClaimOf, Serving, IsCurrent, Holds
<1>6. AcceptedFirst' BY <1>1 DEF AcceptedFirst, Serving, IsCurrent, Todo, ClaimOf
<1>7. SentWasAccepted' BY <1>1, <1>2, <1>3 DEF SentWasAccepted, LeaseOf
<1> QED BY <1>4, <1>5, <1>6, <1>7

\* A lease ends while its worker goes on.
LEMMA LeaseEndsStep ==
  ASSUME MailInv, NEW m \in Mail, LeaseEnds(m)
  PROVE  MailInv'
<1> USE DEF MailInv
<1>1. UNCHANGED <<row, worker, accepted>> /\ ended \subseteq ended' BY DEF LeaseEnds
<1>2. ended' \subseteq Lease BY DEF LeaseEnds, MailTypeOK, Lease, LeaseOf, Row
<1>3. faults' \in 0..MaxFaults
  BY AttemptAssumption DEF LeaseEnds, Fault, MailTypeOK
<1>4. MailTypeOK' BY <1>1, <1>2, <1>3 DEF MailTypeOK
<1>5. LeaseHolds'
  BY <1>1 DEF LeaseHolds, Todo, ClaimOf, Serving, IsCurrent, Holds
<1>6. AcceptedFirst' BY <1>1 DEF AcceptedFirst, Serving, IsCurrent, Todo, ClaimOf
<1>7. SentWasAccepted' BY <1>1 DEF SentWasAccepted, LeaseOf
<1> QED BY <1>4, <1>5, <1>6, <1>7

\* A claimed row was no other worker's: its lease, if it had one, was over.
LEMMA ClaimBatchStep ==
  ASSUME MailInv, NEW w \in Worker, ClaimBatch(w)
  PROVE  MailInv'
<1> USE DEF MailInv
<1>1. PICK S \in SUBSET {m \in Mail : Claimable(m)} :
        /\ S # {}
        /\ row' = [m \in Mail |-> IF m \in S THEN Leased(row[m], w) ELSE row[m]]
        /\ worker' = [worker EXCEPT ![w] =
             [step |-> "serving",
              claim |-> [m \in Mail |-> IF m \in S THEN row[m].attempts + 1 ELSE 0]]]
  BY DEF ClaimBatch
<1>2. UNCHANGED <<ended, accepted, faults>> BY DEF ClaimBatch
<1> DEFINE c == [m \in Mail |-> IF m \in S THEN row[m].attempts + 1 ELSE 0]
<1>3. /\ worker'[w] = [step |-> "serving", claim |-> c]
      /\ \A v \in Worker \ {w} : worker'[v] = worker[v]
  BY <1>1 DEF MailTypeOK
<1>4. c \in [Mail -> Nat] BY DEF MailTypeOK, Row
<1>5. ASSUME NEW m \in S
      PROVE  /\ Claimable(m) /\ m \in Mail
             /\ row'[m] \in Row /\ row'[m].status = "leased" /\ row'[m].owner = w
             /\ row'[m].attempts = c[m] /\ c[m] # 0
  <2>1. Claimable(m) /\ m \in Mail /\ row[m] \in Row BY DEF MailTypeOK
  <2>2. row'[m] = Leased(row[m], w) BY <1>1, <2>1
  <2>3. row[m].attempts + 1 \in Nat \ {0} BY <2>1 DEF Row
  <2> QED BY <2>1, <2>2, <2>3 DEF Leased, Row
<1>6. \A m \in Mail \ S : row'[m] = row[m] BY <1>1
<1>7. MailTypeOK'
  <2>1. row' \in [Mail -> Row]
    <3>1. \A m \in Mail : row'[m] \in Row BY <1>5, <1>6 DEF MailTypeOK
    <3> QED BY <1>1, <3>1
  <2>2. worker' \in [Worker -> Run]
    BY <1>1, <1>4 DEF MailTypeOK, Run
  <2>3. \A m \in Mail : row'[m].status = "leased" <=> row'[m].owner # Nobody
    BY <1>5, <1>6, WorkerAssumption DEF MailTypeOK
  <2>4. c # NoClaim
    <3>1. PICK m \in S : TRUE BY <1>1
    <3> QED BY <3>1, <1>5 DEF NoClaim
  <2>5. \A v \in Worker : worker'[v].step = "idle" <=> worker'[v].claim = NoClaim
    BY <1>3, <2>4 DEF MailTypeOK
  <2> QED BY <1>2, <2>1, <2>2, <2>3, <2>5 DEF MailTypeOK
<1>8. LeaseHolds'
  <2> SUFFICES ASSUME NEW v \in Worker, NEW m \in Mail,
                      (m \in Todo(v) /\ ClaimOf(v, m) \notin ended /\ ~Serving(v, m, "failed"))'
               PROVE  Holds(v, m)'
    BY DEF LeaseHolds, Todo
  <2>1. CASE v = w
    <3>1. m \in S BY <1>3, <2>1 DEF Todo
    <3> QED BY <1>3, <1>5, <2>1, <3>1 DEF Holds
  <2>2. CASE v # w
    <3>1. worker'[v] = worker[v] BY <1>3, <2>2
    <3>2. Holds(v, m)
      BY <1>2, <3>1 DEF LeaseHolds, Todo, ClaimOf, Serving, IsCurrent
    <3>3. LeaseOf(m) \notin ended
      BY <1>2, <3>1, <3>2 DEF Holds, LeaseOf, ClaimOf
    <3>4. m \notin S
      BY <1>5, <3>2, <3>3 DEF Claimable, DuePending, Holds
    <3> QED BY <1>6, <3>1, <3>2, <3>4 DEF Holds
  <2> QED BY <2>1, <2>2
<1>9. AcceptedFirst'
  BY <1>2, <1>3 DEF AcceptedFirst, Serving, IsCurrent, Todo, ClaimOf
<1>10. SentWasAccepted'
  BY <1>2, <1>5, <1>6 DEF SentWasAccepted, LeaseOf
<1> QED BY <1>7, <1>8, <1>9, <1>10

\* A worker dies, holding its claims.
LEMMA DieStep ==
  ASSUME MailInv, NEW w \in Worker, Die(w)
  PROVE  MailInv'
<1> USE DEF MailInv
<1>1. UNCHANGED <<row, ended, accepted>> /\ worker' = [worker EXCEPT ![w] = NoRun]
  BY DEF Die
<1>2. \A v \in Worker : worker'[v] = IF v = w THEN NoRun ELSE worker[v] BY <1>1 DEF MailTypeOK
<1>3. NoRun \in Run /\ \A m \in Mail : NoRun.claim[m] = 0 BY DEF NoRun, NoClaim, Run
<1>4. faults' \in 0..MaxFaults BY AttemptAssumption DEF Die, Fault, MailTypeOK
<1>5. MailTypeOK' BY <1>1, <1>2, <1>3, <1>4 DEF MailTypeOK, NoRun
<1>6. LeaseHolds'
  BY <1>1, <1>2, <1>3 DEF LeaseHolds, Todo, ClaimOf, Serving, IsCurrent, Holds
<1>7. AcceptedFirst'
  BY <1>1, <1>2, <1>3 DEF AcceptedFirst, Serving, IsCurrent, Todo, ClaimOf
<1>8. SentWasAccepted' BY <1>1 DEF SentWasAccepted, LeaseOf
<1> QED BY <1>5, <1>6, <1>7, <1>8

\* SMTP takes a message, or does not.
LEMMA SendStep ==
  ASSUME MailInv, NEW w \in Worker, NEW m \in Mail, Send(w, m) \/ Fail(w, m)
  PROVE  MailInv'
<1> USE DEF MailInv
<1>1. /\ UNCHANGED <<row, ended, faults>> /\ accepted \subseteq accepted'
      /\ accepted' \subseteq accepted \cup {ClaimOf(w, m)}
      /\ Serving(w, m, "serving")
  BY DEF Send, Fail
<1>2. PICK s \in {"accepted", "failed"} :
        /\ StepTo(w, s)
        /\ s = "accepted" => ClaimOf(w, m) \in accepted'
  BY DEF Send, Fail
<1>3. worker[w].step = "serving" /\ IsCurrent(w, m) BY <1>1 DEF Serving
<1>4. /\ worker' \in [Worker -> Run]
      /\ \A v \in Worker : worker'[v].step = "idle" <=> worker'[v].claim = NoClaim
      /\ \A v \in Worker : worker'[v].claim = worker[v].claim
      /\ \A v \in Worker \ {w} : worker'[v] = worker[v]
      /\ worker'[w].step = s
  BY <1>2, <1>3, SteppingTo
<1>5. ClaimOf(w, m) \in Lease BY DEF ClaimOf, Lease, MailTypeOK, Run
<1>6. MailTypeOK' BY <1>1, <1>4, <1>5 DEF MailTypeOK
<1>7. LeaseHolds'
  BY <1>1, <1>3, <1>4 DEF LeaseHolds, Todo, ClaimOf, Serving, IsCurrent, Holds
<1>8. AcceptedFirst'
  <2> SUFFICES ASSUME NEW v \in Worker, NEW n \in Mail, Serving(v, n, "accepted")'
               PROVE  ClaimOf(v, n)' \in accepted'
    BY DEF AcceptedFirst
  <2>1. IsCurrent(v, n) /\ ClaimOf(v, n)' = ClaimOf(v, n)
    BY <1>4 DEF Serving, IsCurrent, Todo, ClaimOf
  <2>2. CASE v = w
    <3>1. m <= n /\ n <= m BY <1>3, <2>1, <2>2 DEF IsCurrent
    <3>2. n = m BY <3>1, MailAssumption
    <3> QED BY <1>2, <1>4, <2>1, <2>2, <3>2 DEF Serving
  <2>3. CASE v # w
    BY <1>1, <1>4, <2>1, <2>3 DEF AcceptedFirst, Serving
  <2> QED BY <2>2, <2>3
<1>9. SentWasAccepted' BY <1>1 DEF SentWasAccepted, LeaseOf
<1> QED BY <1>6, <1>7, <1>8, <1>9

\* The row of m after an acknowledgement of w: settled under the lease, or as it was.
Settles(w, m, s) ==
  row' = [row EXCEPT ![m] = IF Holds(w, m) THEN Unleased(@, s) ELSE @]

\* What an acknowledgement changes, and only under the lease.
LEMMA Settling ==
  ASSUME MailInv, NEW w \in Worker, NEW m \in Mail, m \in Todo(w),
         NEW s \in {"pending", "sent", "dead"}, Settles(w, m, s)
  PROVE  /\ row' \in [Mail -> Row]
         /\ \A n \in Mail : row'[n].status = "leased" <=> row'[n].owner # Nobody
         /\ \A n \in Mail : row'[n].attempts = row[n].attempts
         /\ \A n \in Mail : row'[n].status = "sent" =>
              row[n].status = "sent" \/ (n = m /\ s = "sent" /\ Holds(w, m))
         /\ \A v \in Worker, n \in Mail :
              Holds(v, n) => row'[n] = row[n] \/ (v = w /\ n = m)
<1>1. MailTypeOK BY DEF MailInv
<1>2. \A n \in Mail \ {m} : row'[n] = row[n] BY <1>1 DEF MailTypeOK, Settles
<1>3. row[m] \in Row BY <1>1 DEF MailTypeOK
<1>4. CASE Holds(w, m)
  <2>1. row'[m] = Unleased(row[m], s) BY <1>1, <1>4 DEF MailTypeOK, Settles
  <2>2. row'[m] \in Row /\ row'[m].attempts = row[m].attempts
        /\ row'[m].status = s /\ row'[m].owner = Nobody
    BY <1>3, <2>1, UnleasedType
  <2>3. row' \in [Mail -> Row]
    BY <1>1, <2>1, <2>2 DEF MailTypeOK, Settles
  <2>4. \A v \in Worker : Holds(v, m) => v = w BY <1>4, HolderIsUnique
  <2> QED BY <1>1, <1>2, <1>4, <2>2, <2>3, <2>4 DEF MailTypeOK
<1>5. CASE ~Holds(w, m)
  <2>1. row' = row BY <1>1, <1>5 DEF MailTypeOK, Settles
  <2> QED BY <1>1, <2>1 DEF MailTypeOK
<1> QED BY <1>4, <1>5

\* An acknowledgement, after which w goes on to its next message.
LEMMA AcknowledgeStep ==
  ASSUME MailInv, NEW w \in Worker, NEW m \in Mail,
         AcknowledgeSuccess(w, m) \/ AcknowledgeFailure(w, m)
  PROVE  MailInv'
<1> USE DEF MailInv
<1>1. /\ UNCHANGED <<ended, accepted, faults>> /\ NextClaim(w, m)
      /\ IsCurrent(w, m) /\ m \in Todo(w)
  BY DEF AcknowledgeSuccess, AcknowledgeFailure, Serving, IsCurrent
<1>2. PICK s \in {"pending", "sent", "dead"} :
        /\ Settles(w, m, s)
        /\ s = "sent" => Serving(w, m, "accepted")
  <2>1. CASE AcknowledgeSuccess(w, m) BY <2>1 DEF AcknowledgeSuccess, MarkSent, Settles
  <2>2. CASE AcknowledgeFailure(w, m)
    <3>1. CASE Terminal(w, m)
      <4>1. Settles(w, m, "dead")
        BY <2>2, <3>1 DEF AcknowledgeFailure, Settles
      <4> QED BY <4>1
    <3>2. CASE ~Terminal(w, m)
      <4>1. Settles(w, m, "pending")
        BY <2>2, <3>2 DEF AcknowledgeFailure, Settles
      <4> QED BY <4>1
    <3> QED BY <3>1, <3>2
  <2> QED BY <2>1, <2>2
<1>3. /\ row' \in [Mail -> Row]
      /\ \A n \in Mail : row'[n].status = "leased" <=> row'[n].owner # Nobody
      /\ \A n \in Mail : row'[n].attempts = row[n].attempts
      /\ \A n \in Mail : row'[n].status = "sent" =>
           row[n].status = "sent" \/ (n = m /\ s = "sent" /\ Holds(w, m))
      /\ \A v \in Worker, n \in Mail :
           Holds(v, n) => row'[n] = row[n] \/ (v = w /\ n = m)
  BY <1>1, <1>2, Settling
<1>4. /\ worker' \in [Worker -> Run]
      /\ \A v \in Worker : worker'[v].step = "idle" <=> worker'[v].claim = NoClaim
      /\ \A v \in Worker \ {w} : worker'[v] = worker[v]
      /\ worker'[w].step \in {"idle", "serving"}
      /\ \A n \in Mail : worker'[w].claim[n] = IF n = m THEN 0 ELSE worker[w].claim[n]
  BY <1>1, GoingOn
<1>5. MailTypeOK' BY <1>1, <1>3, <1>4 DEF MailTypeOK
<1>6. LeaseHolds'
  <2> SUFFICES ASSUME NEW v \in Worker, NEW n \in Mail,
                      (n \in Todo(v) /\ ClaimOf(v, n) \notin ended /\ ~Serving(v, n, "failed"))'
               PROVE  Holds(v, n)'
    BY DEF LeaseHolds, Todo
  <2>1. ~(v = w /\ n = m) BY <1>4 DEF Todo
  <2>2. worker'[v].claim[n] = worker[v].claim[n] /\ n \in Todo(v)
    BY <1>4, <2>1 DEF Todo
  <2>3. ~Serving(v, n, "failed")
    <3>1. CASE v = w
      <4>1. n # m /\ (IsCurrent(w, n) => m <= n /\ n <= m)
        BY <1>1, <2>1, <2>2, <3>1 DEF IsCurrent
      <4>2. ~IsCurrent(w, n) BY <4>1, MailAssumption
      <4> QED BY <3>1, <4>2 DEF Serving
    <3>2. CASE v # w
      <4>1. worker'[v] = worker[v] BY <1>4, <3>2
      <4> QED BY <4>1 DEF Serving, IsCurrent, Todo
    <3> QED BY <3>1, <3>2
  <2>4. Holds(v, n) BY <1>1, <2>2, <2>3 DEF LeaseHolds, ClaimOf
  <2>5. row'[n] = row[n] BY <1>3, <2>1, <2>4
  <2> QED BY <2>2, <2>4, <2>5 DEF Holds
<1>7. AcceptedFirst'
  BY <1>1, <1>4 DEF AcceptedFirst, Serving, IsCurrent, Todo, ClaimOf
<1>8. SentWasAccepted'
  <2> SUFFICES ASSUME NEW n \in Mail, row'[n].status = "sent"
               PROVE  LeaseOf(n)' \in accepted'
    BY DEF SentWasAccepted
  <2>1. LeaseOf(n)' = LeaseOf(n) BY <1>3 DEF LeaseOf
  <2>2. CASE row[n].status = "sent" BY <1>1, <2>1, <2>2 DEF SentWasAccepted
  <2>3. CASE n = m /\ s = "sent" /\ Holds(w, m)
    <3>1. ClaimOf(w, m) \in accepted BY <1>2, <2>3 DEF AcceptedFirst
    <3> QED BY <1>1, <2>1, <2>3, <3>1 DEF ClaimOf, LeaseOf, Holds
  <2> QED BY <1>3, <2>2, <2>3
<1> QED BY <1>5, <1>6, <1>7, <1>8

\* An acknowledgement that raises, whether or not it was committed.
LEMMA LostStep ==
  ASSUME MailInv, NEW w \in Worker, NEW m \in Mail, AcknowledgementLost(w, m)
  PROVE  MailInv'
<1> USE DEF MailInv
<1>1. /\ UNCHANGED <<ended, accepted>> /\ StepTo(w, "failed")
      /\ Serving(w, m, "accepted") /\ m \in Todo(w) /\ worker[w].step # "idle"
  BY DEF AcknowledgementLost, Serving, IsCurrent
<1>2. faults' \in 0..MaxFaults BY AttemptAssumption DEF AcknowledgementLost, Fault, MailTypeOK
<1>3. /\ row' \in [Mail -> Row]
      /\ \A n \in Mail : row'[n].status = "leased" <=> row'[n].owner # Nobody
      /\ \A n \in Mail : row'[n].attempts = row[n].attempts
      /\ \A n \in Mail : row'[n].status = "sent" =>
           row[n].status = "sent" \/ (n = m /\ Holds(w, m))
      /\ \A v \in Worker, n \in Mail :
           Holds(v, n) => row'[n] = row[n] \/ (v = w /\ n = m)
  <2>1. CASE MarkSent(w, m)
    <3>1. Settles(w, m, "sent") BY <2>1 DEF MarkSent, Settles
    <3> QED BY <1>1, <3>1, Settling
  <2>2. CASE UNCHANGED row BY <2>2 DEF MailTypeOK
  <2> QED BY <2>1, <2>2 DEF AcknowledgementLost
<1>4. /\ worker' \in [Worker -> Run]
      /\ \A v \in Worker : worker'[v].step = "idle" <=> worker'[v].claim = NoClaim
      /\ \A v \in Worker : worker'[v].claim = worker[v].claim
      /\ \A v \in Worker \ {w} : worker'[v] = worker[v]
      /\ worker'[w].step = "failed"
  BY <1>1, SteppingTo
<1>5. MailTypeOK' BY <1>1, <1>2, <1>3, <1>4 DEF MailTypeOK
<1>6. LeaseHolds'
  <2> SUFFICES ASSUME NEW v \in Worker, NEW n \in Mail,
                      (n \in Todo(v) /\ ClaimOf(v, n) \notin ended /\ ~Serving(v, n, "failed"))'
               PROVE  Holds(v, n)'
    BY DEF LeaseHolds, Todo
  <2>1. n \in Todo(v) /\ (IsCurrent(v, n)' <=> IsCurrent(v, n))
    BY <1>4 DEF Todo, IsCurrent
  <2>2. ~(v = w /\ n = m)
    BY <1>1, <1>4, <2>1 DEF Serving
  <2>3. ~Serving(v, n, "failed")
    <3>1. CASE v = w BY <1>1, <3>1 DEF Serving
    <3>2. CASE v # w BY <1>4, <2>1, <3>2 DEF Serving
    <3> QED BY <3>1, <3>2
  <2>4. Holds(v, n) BY <1>1, <1>4, <2>1, <2>3 DEF LeaseHolds, ClaimOf
  <2>5. row'[n] = row[n] BY <1>3, <2>2, <2>4
  <2> QED BY <1>4, <2>4, <2>5 DEF Holds
<1>7. AcceptedFirst'
  BY <1>1, <1>4 DEF AcceptedFirst, Serving, IsCurrent, Todo, ClaimOf
<1>8. SentWasAccepted'
  <2> SUFFICES ASSUME NEW n \in Mail, row'[n].status = "sent"
               PROVE  LeaseOf(n)' \in accepted'
    BY DEF SentWasAccepted
  <2>1. LeaseOf(n)' = LeaseOf(n) BY <1>3 DEF LeaseOf
  <2>2. CASE row[n].status = "sent" BY <1>1, <2>1, <2>2 DEF SentWasAccepted
  <2>3. CASE n = m /\ Holds(w, m)
    <3>1. ClaimOf(w, m) \in accepted BY <1>1 DEF AcceptedFirst
    <3> QED BY <1>1, <2>1, <2>3, <3>1 DEF ClaimOf, LeaseOf, Holds
  <2> QED BY <1>3, <2>2, <2>3
<1> QED BY <1>5, <1>6, <1>7, <1>8

\* Erasure finds no live lease, so no worker within its lease loses its row.
LEMMA MailEraseStep ==
  ASSUME MailInv, Erase
  PROVE  MailInv'
<1> USE DEF MailInv
<1>1. UNCHANGED <<worker, ended, accepted, faults>> /\ \A m \in Mail : ~Live(m)
  BY DEF Erase, Erasable
<1>2. row' = [m \in Mail |-> IF row[m].status = "absent" THEN row[m]
                             ELSE Unleased(row[m], "gone")]
  BY DEF Erase
<1>3. \A m \in Mail : /\ row'[m] \in Row /\ row'[m].status # "sent"
                      /\ row'[m].status = "leased" <=> row'[m].owner # Nobody
  <2> SUFFICES ASSUME NEW m \in Mail
               PROVE  /\ row'[m] \in Row /\ row'[m].status # "sent"
                      /\ row'[m].status = "leased" <=> row'[m].owner # Nobody
    OBVIOUS
  <2>1. row[m] \in Row BY DEF MailTypeOK
  <2>2. CASE row[m].status = "absent"
    BY <1>2, <2>1, <2>2 DEF MailTypeOK
  <2>3. CASE row[m].status # "absent"
    BY <1>2, <2>1, <2>3, UnleasedType
  <2> QED BY <2>2, <2>3
<1>4. MailTypeOK' BY <1>1, <1>2, <1>3 DEF MailTypeOK
<1>5. LeaseHolds'
  <2> SUFFICES ASSUME NEW w \in Worker, NEW m \in Mail,
                      m \in Todo(w), ClaimOf(w, m) \notin ended, ~Serving(w, m, "failed")
               PROVE  FALSE
    BY <1>1 DEF LeaseHolds, Todo, ClaimOf, Serving, IsCurrent
  <2>1. Holds(w, m) BY DEF LeaseHolds
  <2>2. Live(m) BY <2>1 DEF Live, Holds, LeaseOf, ClaimOf
  <2> QED BY <1>1, <2>2
<1>6. AcceptedFirst' BY <1>1 DEF AcceptedFirst, Serving, IsCurrent, Todo, ClaimOf
<1>7. SentWasAccepted' BY <1>3 DEF SentWasAccepted
<1> QED BY <1>4, <1>5, <1>6, <1>7

-----------------------------------------------------------------------------
\* The invariant holds in every state of the outbox.
THEOREM MailInductive == MailSpec => []MailInv
<1>1. MailInv /\ [MailNext]_mailVars => MailInv'
  <2> SUFFICES ASSUME MailInv, [MailNext]_mailVars PROVE MailInv' OBVIOUS
  <2>1. CASE UNCHANGED mailVars
    BY <2>1 DEF mailVars, MailInv, MailTypeOK, LeaseHolds, AcceptedFirst, SentWasAccepted,
                Todo, ClaimOf, Serving, IsCurrent, Holds, LeaseOf
  <2>2. CASE MailNext
    BY <2>2, QuietSteps, LeaseEndsStep, ClaimBatchStep, DieStep, SendStep,
       AcknowledgeStep, LostStep, MailEraseStep DEF MailNext
  <2> QED BY <2>1, <2>2
<1> QED BY <1>1, MailInitInv, PTL DEF MailSpec

\* Every reachable state is well typed: a row has an owner exactly while it is
\* leased, and an idle worker holds no claim.
THEOREM MailTyped == MailSpec => []MailTypeOK
<1>1. MailInv => MailTypeOK BY DEF MailInv
<1> QED BY <1>1, MailInductive, PTL

\* No message is taken away under the SMTP call of a worker within its lease.
THEOREM LeasesHold == MailSpec => []LeaseHolds
<1>1. MailInv => LeaseHolds BY DEF MailInv
<1> QED BY <1>1, MailInductive, PTL

\* 'sent' is never recorded for a claim under which SMTP accepted nothing.
THEOREM SentIsTrue == MailSpec => []SentWasAccepted
<1>1. MailInv => SentWasAccepted BY DEF MailInv
<1> QED BY <1>1, MailInductive, PTL

-----------------------------------------------------------------------------
(* The outbox keeps the promise of MailDelivery.                           *)

\* A claim, and a lease that is over, are of an attempt the row has counted, so
\* that the lease of a row claimed just now has not ended.
TriesCounted == /\ \A w \in Worker, m \in Mail : worker[w].claim[m] <= row[m].attempts
           /\ \A c \in ended : c[2] <= row[c[1]].attempts

\* Where MailDelivery sees a message, and what workers have and had.
Stand(m) == IF row[m].status \in {"pending", "leased"} THEN "open" ELSE row[m].status
Held     == {m \in Mail : Live(m)}
Handed   == {m \in Mail : row[m].attempts > 0}
Taken    == {c[1] : c \in accepted}

\* TriesCounted survives when attempts only grow, and claims and ended leases are counted.
LEMMA TriesKept ==
  ASSUME MailInv, MailInv', TriesCounted,
         \A m \in Mail : row[m].attempts <= row'[m].attempts,
         \A w \in Worker, m \in Mail :
           worker'[w].claim[m] \in {0, worker[w].claim[m], row'[m].attempts},
         \A c \in ended' : c \in ended \/ c[2] <= row'[c[1]].attempts
  PROVE  TriesCounted'
<1>1. \A m \in Mail : row[m].attempts \in Nat /\ row'[m].attempts \in Nat
  BY DEF MailInv, MailTypeOK, Row
<1>2. \A w \in Worker, m \in Mail : worker[w].claim[m] \in Nat
  BY DEF MailInv, MailTypeOK, Run
<1>3. \A c \in ended' : c[1] \in Mail /\ c[2] \in Nat BY DEF MailInv, MailTypeOK, Lease
<1> QED BY <1>1, <1>2, <1>3 DEF TriesCounted

\* What MailDelivery does not see.
LEMMA StandStill ==
  ASSUME \A m \in Mail : Stand(m)' = Stand(m) /\ (Live(m)' <=> Live(m))
                         /\ row'[m].attempts = row[m].attempts,
         accepted' = accepted
  PROVE  UNCHANGED Delivery!dVars
BY DEF Delivery!dVars, Stand, Live, LeaseOf

\* Producers submit, retention forgets, and time is not seen.
LEMMA QuietDelivers ==
  ASSUME MailInv, TriesCounted, NEW m \in Mail, Enqueue(m) \/ BecomeDue(m) \/ Purge(m)
  PROVE  TriesCounted' /\ [Delivery!DNext]_(Delivery!dVars)
<1>1. MailInv' BY QuietSteps
<1>2. UNCHANGED <<worker, ended, accepted>> BY DEF Enqueue, BecomeDue, Purge
<1>3. /\ \A n \in Mail \ {m} : row'[n] = row[n]
      /\ row'[m].attempts = row[m].attempts
      /\ row[m].status # "leased" /\ row'[m].status # "leased"
  BY DEF Enqueue, BecomeDue, Purge, MailInv, MailTypeOK, Row
<1>4. \A n \in Mail : row'[n].attempts = row[n].attempts /\ row[n].attempts \in Nat
  BY <1>3 DEF MailInv, MailTypeOK, Row
<1>5. TriesCounted' BY <1>1, <1>2, <1>4, TriesKept
<1>6. \A n \in Mail : Live(n)' <=> Live(n) BY <1>2, <1>3 DEF Live, LeaseOf
<1>7. UNCHANGED <<Held, Handed, Taken>> BY <1>2, <1>4, <1>6 DEF Held, Handed, Taken
<1>8. CASE Enqueue(m)
  <2>1. row[m].status = "absent" /\ row'[m].status = "pending"
    BY <1>8 DEF Enqueue, MailInv, MailTypeOK, Row
  <2>2. Delivery!Submit(m)
    BY <1>3, <1>7, <2>1 DEF Delivery!Submit, Delivery!Become, Held, Handed, Taken
  <2> QED BY <1>5, <2>2 DEF Delivery!DNext
<1>9. CASE BecomeDue(m)
  <2>1. row'[m].status = row[m].status BY <1>9 DEF BecomeDue, MailInv, MailTypeOK, Row
  <2>2. \A n \in Mail : Stand(n)' = Stand(n) BY <1>3, <2>1 DEF Stand
  <2> QED BY <1>2, <1>4, <1>5, <1>6, <2>2, StandStill
<1>10. CASE Purge(m)
  <2>1. row[m].status \in {"sent", "dead"} /\ row'[m].status = "gone"
    BY <1>10 DEF Purge, MailInv, MailTypeOK, Row
  <2>2. Delivery!Forget(m)
    BY <1>3, <1>7, <2>1 DEF Delivery!Forget, Delivery!Become, Held, Handed, Taken
  <2> QED BY <1>5, <2>2 DEF Delivery!DNext
<1> QED BY <1>8, <1>9, <1>10

\* The time of whoever has the message is over.
LEMMA LeaseEndsDelivers ==
  ASSUME MailInv, TriesCounted, NEW m \in Mail, LeaseEnds(m)
  PROVE  TriesCounted' /\ [Delivery!DNext]_(Delivery!dVars)
<1>1. MailInv' BY LeaseEndsStep
<1>2. UNCHANGED <<row, worker, accepted>> /\ ended' = ended \cup {LeaseOf(m)}
  BY DEF LeaseEnds
<1>3. \A n \in Mail : row[n].attempts \in Nat BY DEF MailInv, MailTypeOK, Row
<1>4. TriesCounted' BY <1>1, <1>2, <1>3, TriesKept DEF LeaseOf
<1>5. \A n \in Mail : Live(n)' <=> Live(n) /\ n # m BY <1>2 DEF Live, LeaseOf
<1>6. Held' = Held \ {m} BY <1>5 DEF Held
<1>7. Delivery!Release(m) BY <1>2, <1>6 DEF Delivery!Release, Held
<1> QED BY <1>4, <1>7 DEF Delivery!DNext

\* A claim hands out a batch, none of which anybody holds.
LEMMA ClaimDelivers ==
  ASSUME MailInv, TriesCounted, NEW w \in Worker, ClaimBatch(w)
  PROVE  TriesCounted' /\ [Delivery!DNext]_(Delivery!dVars)
<1>1. MailInv' BY ClaimBatchStep
<1>2. PICK S \in SUBSET {m \in Mail : Claimable(m)} :
        /\ row' = [m \in Mail |-> IF m \in S THEN Leased(row[m], w) ELSE row[m]]
        /\ worker' = [worker EXCEPT ![w] =
             [step |-> "serving",
              claim |-> [m \in Mail |-> IF m \in S THEN row[m].attempts + 1 ELSE 0]]]
        /\ UNCHANGED <<ended, accepted>>
  BY DEF ClaimBatch
<1>3. /\ \A m \in Mail : row[m].attempts \in Nat
      /\ \A m \in S : m \in Mail /\ Claimable(m)
  BY <1>2 DEF MailInv, MailTypeOK, Row
<1>4. /\ \A m \in S : row'[m].attempts = row[m].attempts + 1 /\ row'[m].status = "leased"
      /\ \A m \in Mail \ S : row'[m] = row[m]
  BY <1>2, <1>3 DEF Leased
<1>5. \A v \in Worker, m \in Mail :
        worker'[v].claim[m] \in {0, worker[v].claim[m], row'[m].attempts}
  <2> SUFFICES ASSUME NEW v \in Worker, NEW m \in Mail
               PROVE  worker'[v].claim[m] \in {0, worker[v].claim[m], row'[m].attempts}
    OBVIOUS
  <2>1. CASE v = w
    <3>1. worker'[w].claim[m] = IF m \in S THEN row[m].attempts + 1 ELSE 0
      BY <1>2 DEF MailInv, MailTypeOK
    <3> QED BY <1>4, <2>1, <3>1
  <2>2. CASE v # w BY <1>2, <2>2 DEF MailInv, MailTypeOK
  <2> QED BY <2>1, <2>2
<1>6. \A m \in Mail : row[m].attempts <= row'[m].attempts BY <1>3, <1>4
<1>7. TriesCounted' BY <1>1, <1>2, <1>5, <1>6, TriesKept
<1>8. \A m \in S : LeaseOf(m)' \notin ended
  <2> SUFFICES ASSUME NEW m \in S, LeaseOf(m)' \in ended PROVE FALSE OBVIOUS
  <2>1. LeaseOf(m)' = <<m, row[m].attempts + 1>> BY <1>4 DEF LeaseOf
  <2>2. row[m].attempts + 1 <= row[m].attempts BY <2>1 DEF TriesCounted
  <2> QED BY <1>3, <2>2
<1>9. \A m \in S : Stand(m) = "open" /\ ~Live(m)
  BY <1>3 DEF Claimable, DuePending, Stand, Live
<1>10. \A m \in Mail : /\ Live(m)' <=> Live(m) \/ m \in S
                       /\ Stand(m)' = Stand(m)
                       /\ row'[m].attempts > 0 <=> row[m].attempts > 0 \/ m \in S
  <2> SUFFICES ASSUME NEW m \in Mail
               PROVE  /\ Live(m)' <=> Live(m) \/ m \in S
                      /\ Stand(m)' = Stand(m)
                      /\ row'[m].attempts > 0 <=> row[m].attempts > 0 \/ m \in S
    OBVIOUS
  <2>1. CASE m \in S
    <3>1. Live(m)' BY <1>2, <1>4, <1>8, <2>1 DEF Live
    <3>2. Stand(m)' = "open" BY <1>4, <2>1 DEF Stand
    <3> QED BY <1>3, <1>4, <1>9, <2>1, <3>1, <3>2
  <2>2. CASE m \notin S BY <1>2, <1>4, <2>2 DEF Live, LeaseOf, Stand
  <2> QED BY <2>1, <2>2
<1>11. Held' = Held \cup S /\ Handed' = Handed \cup S /\ Taken' = Taken
  BY <1>2, <1>3, <1>10 DEF Held, Handed, Taken
<1>12. \A m \in S : m \notin Held BY <1>9 DEF Held
<1>13. [m \in Mail |-> Stand(m)]' = [m \in Mail |-> Stand(m)] BY <1>10
<1>14. Delivery!HandOut(S)
  BY <1>3, <1>9, <1>11, <1>12, <1>13 DEF Delivery!HandOut, Held, Handed, Taken, Stand
<1>15. S \in SUBSET Mail BY <1>3
<1> QED BY <1>7, <1>14, <1>15 DEF Delivery!DNext

\* The rows of a worker that dies stay leased until their time is over.
LEMMA DieDelivers ==
  ASSUME MailInv, TriesCounted, NEW w \in Worker, Die(w)
  PROVE  TriesCounted' /\ [Delivery!DNext]_(Delivery!dVars)
<1>1. MailInv' BY DieStep
<1>2. UNCHANGED <<row, ended, accepted>> /\ worker' = [worker EXCEPT ![w] = NoRun]
  BY DEF Die
<1>3. \A v \in Worker, m \in Mail : worker'[v].claim[m] \in {0, worker[v].claim[m]}
  BY <1>2 DEF MailInv, MailTypeOK, NoRun, NoClaim
<1>4. \A m \in Mail : row[m].attempts \in Nat BY DEF MailInv, MailTypeOK, Row
<1>5. TriesCounted' BY <1>1, <1>2, <1>3, <1>4, TriesKept
<1>6. UNCHANGED Delivery!dVars BY <1>2, StandStill DEF Stand, Live, LeaseOf
<1> QED BY <1>5, <1>6

\* What a worker still has to do was handed to it.
LEMMA TodoIsHanded ==
  ASSUME MailInv, TriesCounted, NEW w \in Worker, NEW m \in Todo(w)
  PROVE  m \in Handed
<1>1. m \in Mail /\ worker[w].claim[m] # 0 BY DEF Todo
<1>2. worker[w].claim[m] \in Nat /\ row[m].attempts \in Nat
  BY <1>1 DEF MailInv, MailTypeOK, Run, Row
<1>3. worker[w].claim[m] <= row[m].attempts BY <1>1 DEF TriesCounted
<1> QED BY <1>1, <1>2, <1>3 DEF Handed

\* SMTP takes the message, whatever the worker is told, or does not.
LEMMA SendDelivers ==
  ASSUME MailInv, TriesCounted, NEW w \in Worker, NEW m \in Mail, Send(w, m) \/ Fail(w, m)
  PROVE  TriesCounted' /\ [Delivery!DNext]_(Delivery!dVars)
<1>1. MailInv' BY SendStep
<1>2. /\ UNCHANGED <<row, ended>> /\ worker[w].step # "idle" /\ m \in Todo(w)
      /\ \E s \in {"accepted", "failed"} : StepTo(w, s)
      /\ accepted' = accepted \/ accepted' = accepted \cup {ClaimOf(w, m)}
  BY DEF Send, Fail, Serving, IsCurrent
<1>3. \A v \in Worker : worker'[v].claim = worker[v].claim
  BY <1>2, SteppingTo DEF MailInv
<1>4. \A n \in Mail : row[n].attempts \in Nat BY DEF MailInv, MailTypeOK, Row
<1>5. TriesCounted' BY <1>1, <1>2, <1>3, <1>4, TriesKept
<1>6. CASE accepted' = accepted
  BY <1>2, <1>5, <1>6, StandStill DEF Stand, Live, LeaseOf
<1>7. CASE accepted' = accepted \cup {ClaimOf(w, m)}
  <2>1. Taken' = Taken \cup {m}
    <3>1. ClaimOf(w, m)[1] = m BY DEF ClaimOf
    <3>2. Taken' = {c[1] : c \in accepted \cup {ClaimOf(w, m)}} BY <1>7 DEF Taken
    <3>3. \A n : n \in Taken' <=> n \in Taken \/ n = m BY <3>1, <3>2 DEF Taken
    <3> QED BY <3>3
  <2>2. \A n \in Mail : (Live(n)' <=> Live(n)) BY <1>2 DEF Live, LeaseOf
  <2>3. Held' = Held BY <2>2 DEF Held
  <2>4. m \in Handed BY <1>2, TodoIsHanded
  <2>5. Delivery!Take(m)
    BY <1>2, <2>1, <2>3, <2>4 DEF Delivery!Take, Taken, Held, Handed
  <2> QED BY <1>5, <2>5 DEF Delivery!DNext
<1> QED BY <1>2, <1>6, <1>7

\* An acknowledgement under the lease settles or releases the message.
LEMMA SettlingDelivers ==
  ASSUME MailInv, TriesCounted, NEW w \in Worker, NEW m \in Mail, m \in Todo(w),
         NEW s \in {"pending", "sent", "dead"}, Settles(w, m, s),
         s = "sent" => Serving(w, m, "accepted"), UNCHANGED <<ended, accepted>>
  PROVE  /\ \A n \in Mail : row'[n].attempts = row[n].attempts
         /\ [Delivery!DNext]_(Delivery!dVars)
<1>1. \A n \in Mail : row'[n].attempts = row[n].attempts BY Settling
<1>2. CASE ~Holds(w, m)
  <2>1. row' = row BY <1>2 DEF MailInv, MailTypeOK, Settles
  <2> QED BY <1>1, <2>1, StandStill DEF Stand, Live, LeaseOf
<1>3. CASE Holds(w, m)
  <2>1. row[m] \in Row BY DEF MailInv, MailTypeOK
  <2>2. row' = [row EXCEPT ![m] = Unleased(row[m], s)]
    BY <1>3 DEF Settles
  <2>3. /\ row'[m].status = s /\ row[m].status = "leased"
        /\ \A n \in Mail \ {m} : row'[n] = row[n]
    BY <1>3, <2>1, <2>2, UnleasedType DEF MailInv, MailTypeOK, Holds
  <2>4. \A n \in Mail : Live(n)' <=> Live(n) /\ n # m
    BY <2>3 DEF Live, LeaseOf
  <2>5. Held' = Held \ {m} /\ Handed' = Handed /\ Taken' = Taken
    BY <1>1, <2>4 DEF Held, Handed, Taken
  <2>6. m \in Handed BY TodoIsHanded
  <2>7. CASE s = "pending"
    <3>1. \A n \in Mail : Stand(n)' = Stand(n) BY <2>3, <2>7 DEF Stand
    <3>2. [n \in Mail |-> Stand(n)]' = [n \in Mail |-> Stand(n)] BY <3>1
    <3>3. Delivery!Release(m)
      BY <2>5, <3>2 DEF Delivery!Release, Held, Handed, Taken, Stand
    <3> QED BY <1>1, <3>3 DEF Delivery!DNext
  <2>8. CASE s \in {"sent", "dead"}
    <3>1. s = "sent" => m \in Taken
      <4> SUFFICES ASSUME s = "sent" PROVE m \in Taken OBVIOUS
      <4>1. ClaimOf(w, m) \in accepted BY DEF MailInv, AcceptedFirst
      <4> QED BY <4>1 DEF Taken, ClaimOf
    <3>2. [n \in Mail |-> Stand(n)]' = [[n \in Mail |-> Stand(n)] EXCEPT ![m] = s]
      BY <2>3, <2>8 DEF Stand
    <3>3. Stand(m) = "open" BY <2>3 DEF Stand
    <3>4. Delivery!Settle(m, s)
      BY <2>5, <2>6, <3>1, <3>2, <3>3
      DEF Delivery!Settle, Delivery!Become, Held, Handed, Taken, Stand
    <3> QED BY <1>1, <2>8, <3>4 DEF Delivery!DNext
  <2> QED BY <2>7, <2>8
<1> QED BY <1>2, <1>3

\* An acknowledgement settles the message, releases it, or comes too late.
LEMMA AcknowledgeDelivers ==
  ASSUME MailInv, TriesCounted, NEW w \in Worker, NEW m \in Mail,
         AcknowledgeSuccess(w, m) \/ AcknowledgeFailure(w, m) \/ AcknowledgementLost(w, m)
  PROVE  TriesCounted' /\ [Delivery!DNext]_(Delivery!dVars)
<1>1. MailInv' BY AcknowledgeStep, LostStep
<1>2. m \in Todo(w) /\ worker[w].step # "idle" /\ UNCHANGED <<ended, accepted>>
  BY DEF AcknowledgeSuccess, AcknowledgeFailure, AcknowledgementLost, Serving, IsCurrent
<1>3. \A v \in Worker, n \in Mail : worker'[v].claim[n] \in {0, worker[v].claim[n]}
  <2>1. CASE NextClaim(w, m) BY <2>1, GoingOn DEF MailInv
  <2>2. CASE StepTo(w, "failed") BY <1>2, <2>2, SteppingTo DEF MailInv
  <2> QED BY <2>1, <2>2 DEF AcknowledgeSuccess, AcknowledgeFailure, AcknowledgementLost
<1>4. \A n \in Mail : row[n].attempts \in Nat BY DEF MailInv, MailTypeOK, Row
<1>5. CASE UNCHANGED row
  <2>1. TriesCounted' BY <1>1, <1>2, <1>3, <1>4, <1>5, TriesKept
  <2> QED BY <1>2, <1>5, <2>1, StandStill DEF Stand, Live, LeaseOf
<1>6. CASE \E s \in {"pending", "sent", "dead"} :
             Settles(w, m, s) /\ (s = "sent" => Serving(w, m, "accepted"))
  <2>1. PICK s \in {"pending", "sent", "dead"} :
          Settles(w, m, s) /\ (s = "sent" => Serving(w, m, "accepted"))
    BY <1>6
  <2>2. /\ \A n \in Mail : row'[n].attempts = row[n].attempts
        /\ [Delivery!DNext]_(Delivery!dVars)
    BY <1>2, <2>1, SettlingDelivers
  <2>3. TriesCounted' BY <1>1, <1>2, <1>3, <1>4, <2>2, TriesKept
  <2> QED BY <2>2, <2>3
<1>7. CASE AcknowledgeSuccess(w, m)
  <2>1. Settles(w, m, "sent") /\ Serving(w, m, "accepted")
    BY <1>7 DEF AcknowledgeSuccess, MarkSent, Settles
  <2> QED BY <1>6, <2>1
<1>8. CASE AcknowledgementLost(w, m)
  <2>1. UNCHANGED row \/ (Settles(w, m, "sent") /\ Serving(w, m, "accepted"))
    BY <1>8 DEF AcknowledgementLost, MarkSent, Settles
  <2> QED BY <1>5, <1>6, <2>1
<1>9. CASE AcknowledgeFailure(w, m)
  <2>1. CASE Terminal(w, m)
    <3>1. Settles(w, m, "dead") BY <1>9, <2>1 DEF AcknowledgeFailure, Settles
    <3> QED BY <1>6, <3>1
  <2>2. CASE ~Terminal(w, m)
    <3>1. Settles(w, m, "pending") BY <1>9, <2>2 DEF AcknowledgeFailure, Settles
    <3> QED BY <1>6, <3>1
  <2> QED BY <2>1, <2>2
<1> QED BY <1>7, <1>8, <1>9

\* Erasure takes the whole mail when nobody holds any.
LEMMA EraseDelivers ==
  ASSUME MailInv, TriesCounted, Erase
  PROVE  TriesCounted' /\ [Delivery!DNext]_(Delivery!dVars)
<1>1. MailInv' BY MailEraseStep
<1>2. /\ UNCHANGED <<worker, ended, accepted>>
      /\ \A m \in Mail : ~Live(m)
      /\ row' = [m \in Mail |-> IF row[m].status = "absent" THEN row[m]
                                ELSE Unleased(row[m], "gone")]
  BY DEF Erase, Erasable
<1>3. \A m \in Mail : /\ row'[m].attempts = row[m].attempts
                      /\ row'[m].status = IF row[m].status = "absent" THEN "absent" ELSE "gone"
  <2> SUFFICES ASSUME NEW m \in Mail
               PROVE  /\ row'[m].attempts = row[m].attempts
                      /\ row'[m].status = IF row[m].status = "absent" THEN "absent" ELSE "gone"
    OBVIOUS
  <2>1. row[m] \in Row BY DEF MailInv, MailTypeOK
  <2>2. CASE row[m].status = "absent" BY <1>2, <2>2
  <2>3. CASE row[m].status # "absent" BY <1>2, <2>1, <2>3, UnleasedType
  <2> QED BY <2>2, <2>3
<1>4. \A m \in Mail : row[m].attempts \in Nat BY DEF MailInv, MailTypeOK, Row
<1>5. TriesCounted' BY <1>1, <1>2, <1>3, <1>4, TriesKept
<1>6. Held = {} /\ Held' = {} /\ Handed' = Handed /\ Taken' = Taken
  <2>1. \A m \in Mail : ~Live(m)' BY <1>3 DEF Live
  <2> QED BY <1>2, <1>3, <2>1 DEF Held, Handed, Taken
<1>7. \A m \in Mail : Stand(m)' = IF Stand(m) = "absent" THEN "absent" ELSE "gone"
  BY <1>3 DEF Stand
<1>8. [m \in Mail |-> Stand(m)]'
        = [m \in Mail |-> IF [n \in Mail |-> Stand(n)][m] = "absent" THEN "absent" ELSE "gone"]
  BY <1>7
<1>9. Delivery!Erase BY <1>6, <1>8 DEF Delivery!Erase, Held, Handed, Taken, Stand
<1> QED BY <1>5, <1>9 DEF Delivery!DNext

\* The outbox of one recipient implements MailDelivery.
THEOREM MailImplements == MailSpec => DeliversMail
<1>1. MailInit => TriesCounted /\ Delivery!DInit
  <2> SUFFICES ASSUME MailInit PROVE TriesCounted /\ Delivery!DInit OBVIOUS
  <2>1. TriesCounted BY DEF MailInit, TriesCounted, NoRun, NoClaim
  <2>2. \A m \in Mail : Stand(m) = "absent" /\ ~Live(m) /\ ~(row[m].attempts > 0)
    BY DEF MailInit, Stand, Live
  <2>3. Held = {} /\ Handed = {} BY <2>2 DEF Held, Handed
  <2>4. Taken = {} BY DEF MailInit, Taken
  <2>5. Delivery!DInit
    BY <2>2, <2>3, <2>4 DEF Delivery!DInit, Held, Handed, Taken, Stand
  <2> QED BY <2>1, <2>5
<1>2. MailInv /\ TriesCounted /\ [MailNext]_mailVars =>
        TriesCounted' /\ [Delivery!DNext]_(Delivery!dVars)
  <2> SUFFICES ASSUME MailInv, TriesCounted, [MailNext]_mailVars
               PROVE  TriesCounted' /\ [Delivery!DNext]_(Delivery!dVars)
    OBVIOUS
  <2>1. CASE UNCHANGED mailVars
    <3>1. TriesCounted' BY <2>1 DEF mailVars, TriesCounted
    <3> QED BY <2>1, <3>1, StandStill DEF mailVars, Stand, Live, LeaseOf
  <2>2. CASE MailNext
    BY <2>2, QuietDelivers, LeaseEndsDelivers, ClaimDelivers, DieDelivers, SendDelivers,
       AcknowledgeDelivers, EraseDelivers DEF MailNext
  <2> QED BY <2>1, <2>2
<1> QED BY <1>1, <1>2, MailInductive, PTL DEF MailSpec, DeliversMail, Delivery!DSpec

-----------------------------------------------------------------------------
(* Codes and refresh tokens.                                               *)

Rotating(r) == At(r, "rotate") \/ At(r, "decide")

\* Two transactions do not hold one row.
LocksExclude == \A r, q \in Tx : r # q =>
  /\ At(r, "exchange") /\ At(q, "exchange") => Of(r) # Of(q)
  /\ At(r, "exchange") /\ At(q, "cut") => Of(r) \notin tx[q].codes
  /\ Rotating(r) /\ Rotating(q) => Of(r) # Of(q)
  /\ At(r, "decide") /\ At(q, "decide") => FamilyOf(r) # FamilyOf(q)

\* What a transaction has read of a row it holds is how the row is.
ReadsHold == \A r \in Tx :
  /\ At(r, "exchange") => /\ Of(r) \in Code /\ code[Of(r)] # "none"
                          /\ tx[r].spent = (code[Of(r)] = "consumed")
  /\ Rotating(r) => /\ Of(r) \in Tx /\ Known(Of(r))
                    /\ tx[r].spent = (token[Of(r)].next # None)
  /\ At(r, "decide") => tx[r].revoked = family[FamilyOf(r)].revoked

\* What it has found is there, and what it holds back begins no family.
FindsHold == \A r \in Tx :
  /\ At(r, "revoke") \/ At(r, "cut") => \A f \in tx[r].found : Exists(f)
  /\ At(r, "claim") \/ At(r, "cut") => \A c \in tx[r].codes : code[c] # "none"
  /\ At(r, "cut") => \A f \in Tx : family[f].code \in tx[r].codes => f \in tx[r].found

\* Rows bear the name of the request that made them.
RowsAreMade == \A r \in Tx :
  /\ ~At(r, "granted") => family[r] = NoFamily
  /\ ~At(r, "granted") /\ ~At(r, "rotated") => token[r] = NoToken

\* A family was begun with a code that is consumed, and no other with the same.
CodesAreSpent == \A f \in Tx :
  /\ Exists(f) => /\ family[f].code \in Code /\ code[family[f].code] = "consumed"
                  /\ \A g \in Tx : family[g].code = family[f].code => f = g
  /\ ~Exists(f) => family[f] = NoFamily

\* Tokens are of a family, and a token that was rotated leads to the next in sequence.
Linked == \A t \in Tx :
  /\ Known(t) => token[t].family \in Tx /\ Exists(token[t].family)
  /\ Known(t) /\ token[t].next # None =>
       /\ token[t].next \in Tx
       /\ token[token[t].next].family = token[t].family
       /\ token[token[t].next].sequence = token[t].sequence + 1
  /\ ~Known(t) => token[t] = NoToken

\* A family has one token that may be rotated, the last of its sequence.
OneOpen == \A f \in Tx : Exists(f) => \E t \in Tx :
   /\ token[t].family = f /\ token[t].next = None
   /\ \A u \in Tx : token[u].family = f /\ u # t =>
        token[u].next # None /\ token[u].sequence < token[t].sequence

\* No two tokens of a family have one number.
SequencesDiffer == \A t, u \in Tx :
   Known(t) /\ token[t].family = token[u].family /\ token[t].sequence = token[u].sequence => t = u

\* What requests were told stays true.
AnswersTrue == \A r \in Tx :
  /\ At(r, "rotated") => Of(r) \in Tx /\ Known(Of(r)) /\ token[Of(r)].next = r
  /\ At(r, "reused") => /\ Of(r) \in Tx /\ Known(Of(r)) /\ token[Of(r)].next # None
                        /\ family[FamilyOf(r)].revoked

Rows == CodesAreSpent /\ Linked /\ OneOpen /\ SequencesDiffer /\ CutIsComplete
GrantInv == /\ GrantTypeOK /\ LocksExclude /\ ReadsHold /\ FindsHold
            /\ RowsAreMade /\ Rows /\ AnswersTrue

USE TxAssumption

\* Nothing is issued at first.
LEMMA GrantInitInv == GrantInit => GrantInv
<1> SUFFICES ASSUME GrantInit PROVE GrantInv
  OBVIOUS
<1>1. NoFamily \in FamilyRow /\ NoToken \in TokenRow /\ NoTx \in Transaction
  BY DEF NoFamily, NoToken, NoTx, FamilyRow, TokenRow, Transaction
<1>2. GrantTypeOK
  BY <1>1 DEF GrantInit, GrantTypeOK
<1>3. \A r \in Tx : tx[r].step = "new" /\ ~Exists(r) /\ ~Known(r) /\ family[r] = NoFamily /\ token[r] = NoToken
  BY DEF GrantInit, NoTx, NoFamily, NoToken, Exists, Known
<1>4. LocksExclude /\ ReadsHold /\ FindsHold /\ RowsAreMade /\ AnswersTrue
  BY <1>3 DEF LocksExclude, ReadsHold, FindsHold, RowsAreMade, AnswersTrue, At, Rotating
<1>5. Rows
  BY <1>3 DEF Rows, CodesAreSpent, Linked, OneOpen, SequencesDiffer, CutIsComplete, GrantInit
<1> QED
  BY <1>2, <1>4, <1>5 DEF GrantInv

\* The steps of a transaction that writes nothing yet.
LEMMA Going ==
  ASSUME GrantInv, NEW r \in Tx, NEW v \in Transaction, tx' = [tx EXCEPT ![r] = v],
         tx[r].step \notin Answers, v.step \notin Answers \ {"refused"},
         UNCHANGED <<code, family, token, cut, lapsed>>
  PROVE  /\ GrantTypeOK' /\ RowsAreMade' /\ Rows' /\ AnswersTrue'
         /\ \A q \in Tx \ {r} : tx'[q] = tx[q]
         /\ tx'[r] = v
<1>1. GrantTypeOK'
  BY DEF GrantInv, GrantTypeOK
<1>2. tx'[r] = v /\ \A q \in Tx \ {r} : tx'[q] = tx[q]
  BY DEF GrantInv, GrantTypeOK
<1>3. RowsAreMade' /\ AnswersTrue'
  <2>1. tx[r].step # "granted" /\ tx[r].step # "rotated" /\ v.step # "granted" /\ v.step # "rotated"
        /\ v.step # "reused"
    BY DEF Answers
  <2> QED
    BY <1>2, <2>1 DEF GrantInv, RowsAreMade, AnswersTrue, At, Of, FamilyOf, Known
<1>4. Rows'
  BY DEF GrantInv, Rows, CodesAreSpent, Linked, OneOpen, SequencesDiffer, CutIsComplete, Exists, Known
<1> QED
  BY <1>1, <1>2, <1>3, <1>4

\* A request that reads a code takes its row, which nobody had.
LEMMA ReadCodeStep ==
  ASSUME GrantInv, NEW r \in Tx, NEW c \in Code, NEW bound \in BOOLEAN, ReadCode(r, c, bound)
  PROVE  GrantInv'
<1> DEFINE v == [NoTx EXCEPT !.step = "exchange", !.of = c, !.bound = bound,
                             !.spent = (code[c] = "consumed")]
<1>1. v \in Transaction /\ tx' = [tx EXCEPT ![r] = v] /\ tx[r].step = "new"
  BY DEF ReadCode, Begin, NoTx, Transaction, InFlight, At
<1>2. UNCHANGED <<code, family, token, cut, lapsed>> /\ code[c] # "none" /\ CodeFree(c)
  BY DEF ReadCode
<1>3. v.step = "exchange" /\ v.of = c /\ v.spent = (code[c] = "consumed")
  BY DEF NoTx
<1> HIDE DEF v
<1>4. /\ GrantTypeOK' /\ RowsAreMade' /\ Rows' /\ AnswersTrue'
      /\ \A q \in Tx \ {r} : tx'[q] = tx[q]
      /\ tx'[r] = v
  <2>1. tx[r].step \notin Answers /\ v.step \notin Answers \ {"refused"}
    BY <1>1, <1>3 DEF Answers
  <2> QED
    BY <1>1, <1>2, <2>1, Going
<1>5. LocksExclude'
  BY <1>2, <1>3, <1>4 DEF GrantInv, LocksExclude, CodeFree, At, Of, FamilyOf, Rotating
<1>6. ReadsHold' /\ FindsHold'
  BY <1>2, <1>3, <1>4 DEF GrantInv, ReadsHold, FindsHold, At, Of, FamilyOf, Rotating, Known, Exists
<1> QED
  BY <1>4, <1>5, <1>6 DEF GrantInv

\* A request that reads a token takes its row, which nobody had.
LEMMA ReadTokenStep ==
  ASSUME GrantInv, NEW r \in Tx, NEW t \in Tx, NEW bound \in BOOLEAN, ReadToken(r, t, bound)
  PROVE  GrantInv'
<1> DEFINE v == [NoTx EXCEPT !.step = "rotate", !.of = t, !.bound = bound,
                             !.spent = (token[t].next # None)]
<1>1. v \in Transaction /\ tx' = [tx EXCEPT ![r] = v] /\ tx[r].step = "new"
  BY DEF ReadToken, Begin, NoTx, Transaction, InFlight, At
<1>2. UNCHANGED <<code, family, token, cut, lapsed>> /\ Known(t) /\ TokenFree(t)
  BY DEF ReadToken
<1>3. v.step = "rotate" /\ v.of = t /\ v.spent = (token[t].next # None)
  BY DEF NoTx
<1> HIDE DEF v
<1>4. /\ GrantTypeOK' /\ RowsAreMade' /\ Rows' /\ AnswersTrue'
      /\ \A q \in Tx \ {r} : tx'[q] = tx[q]
      /\ tx'[r] = v
  <2>1. tx[r].step \notin Answers /\ v.step \notin Answers \ {"refused"}
    BY <1>1, <1>3 DEF Answers
  <2> QED
    BY <1>1, <1>2, <2>1, Going
<1>5. LocksExclude'
  BY <1>2, <1>3, <1>4 DEF GrantInv, LocksExclude, TokenFree, At, Of, FamilyOf, Rotating
<1>6. ReadsHold' /\ FindsHold'
  BY <1>2, <1>3, <1>4 DEF GrantInv, ReadsHold, FindsHold, At, Of, FamilyOf, Rotating, Known, Exists
<1> QED
  BY <1>4, <1>5, <1>6 DEF GrantInv

\* A revocation finds families that are there, and holds none of them.
LEMMA FindStep ==
  ASSUME GrantInv, NEW r \in Tx, NEW F \in SUBSET LiveFamilies, Find(r, F)
  PROVE  GrantInv'
<1> DEFINE v == [NoTx EXCEPT !.step = "revoke", !.found = F]
<1>1. v \in Transaction /\ tx' = [tx EXCEPT ![r] = v] /\ tx[r].step = "new"
  BY DEF Find, Begin, NoTx, Transaction, InFlight, At, LiveFamilies
<1>2. UNCHANGED <<code, family, token, cut, lapsed>> /\ \A f \in F : Exists(f)
  BY DEF Find, LiveFamilies
<1>3. v.step = "revoke" /\ v.found = F
  BY DEF NoTx
<1> HIDE DEF v
<1>4. /\ GrantTypeOK' /\ RowsAreMade' /\ Rows' /\ AnswersTrue'
      /\ \A q \in Tx \ {r} : tx'[q] = tx[q]
      /\ tx'[r] = v
  <2>1. tx[r].step \notin Answers /\ v.step \notin Answers \ {"refused"}
    BY <1>1, <1>3 DEF Answers
  <2> QED
    BY <1>1, <1>2, <2>1, Going
<1>5. LocksExclude'
  BY <1>2, <1>3, <1>4 DEF GrantInv, LocksExclude, At, Of, FamilyOf, Rotating
<1>6. ReadsHold' /\ FindsHold'
  BY <1>2, <1>3, <1>4 DEF GrantInv, ReadsHold, FindsHold, At, Of, FamilyOf, Rotating, Known, Exists
<1> QED
  BY <1>4, <1>5, <1>6 DEF GrantInv

\* The claim sees the codes that were issued.
LEMMA ClaimAccountStep ==
  ASSUME GrantInv, NEW r \in Tx, ClaimAccount(r)
  PROVE  GrantInv'
<1> DEFINE C == {c \in Code : code[c] # "none"}
           v == [NoTx EXCEPT !.step = "claim", !.codes = C]
<1>1. v \in Transaction /\ tx' = [tx EXCEPT ![r] = v] /\ tx[r].step = "new"
  BY DEF ClaimAccount, Begin, NoTx, Transaction, InFlight, At
<1>2. UNCHANGED <<code, family, token, cut, lapsed>> /\ \A c \in C : code[c] # "none"
  BY DEF ClaimAccount
<1>3. v.step = "claim" /\ v.codes = C
  BY DEF NoTx
<1> HIDE DEF v
<1>4. /\ GrantTypeOK' /\ RowsAreMade' /\ Rows' /\ AnswersTrue'
      /\ \A q \in Tx \ {r} : tx'[q] = tx[q]
      /\ tx'[r] = v
  <2>1. tx[r].step \notin Answers /\ v.step \notin Answers \ {"refused"}
    BY <1>1, <1>3 DEF Answers
  <2> QED
    BY <1>1, <1>2, <2>1, Going
<1>5. LocksExclude'
  BY <1>2, <1>3, <1>4 DEF GrantInv, LocksExclude, At, Of, FamilyOf, Rotating
<1>6. ReadsHold' /\ FindsHold'
  BY <1>2, <1>3, <1>4 DEF GrantInv, ReadsHold, FindsHold, At, Of, FamilyOf, Rotating, Known, Exists
<1> QED
  BY <1>4, <1>5, <1>6 DEF GrantInv

\* Once the claim has its codes, no other transaction is exchanging one, so that every
\* family begun with one is among those that it finds.
LEMMA HoldCodesStep ==
  ASSUME GrantInv, NEW r \in Tx, HoldCodes(r)
  PROVE  GrantInv'
<1> DEFINE F == {f \in Tx : Exists(f)}
           v == [tx[r] EXCEPT !.step = "cut", !.found = F]
<1>0. tx[r] \in Transaction
  BY DEF GrantInv, GrantTypeOK
<1>1. v \in Transaction /\ tx' = [tx EXCEPT ![r] = v] /\ tx[r].step = "claim"
  BY <1>0 DEF HoldCodes, Transaction, InFlight, At
<1>2. UNCHANGED <<code, family, token, cut, lapsed>> /\ \A c \in tx[r].codes : CodeFree(c)
  BY DEF HoldCodes
<1>3. v.step = "cut" /\ v.found = F /\ v.codes = tx[r].codes
  BY <1>0 DEF Transaction
<1> HIDE DEF v
<1>4. /\ GrantTypeOK' /\ RowsAreMade' /\ Rows' /\ AnswersTrue'
      /\ \A q \in Tx \ {r} : tx'[q] = tx[q]
      /\ tx'[r] = v
  <2>1. tx[r].step \notin Answers /\ v.step \notin Answers \ {"refused"}
    BY <1>1, <1>3 DEF Answers
  <2> QED
    BY <1>1, <1>2, <2>1, Going
<1>5. LocksExclude'
  BY <1>2, <1>3, <1>4 DEF GrantInv, LocksExclude, At, Of, FamilyOf, Rotating, CodeFree
<1>6. ReadsHold'
  BY <1>2, <1>3, <1>4 DEF GrantInv, ReadsHold, At, Of, FamilyOf, Rotating, Known, Exists
<1>7. FindsHold'
  <2>1. \A c \in tx[r].codes : code[c] # "none" /\ c # None
    BY <1>0, <1>1 DEF GrantInv, FindsHold, At, Transaction
  <2>2. \A f \in Tx : family[f].code \in tx[r].codes => f \in F
    BY <2>1 DEF Exists
  <2> QED
    BY <1>2, <1>3, <1>4, <2>1, <2>2 DEF GrantInv, FindsHold, At, Exists
<1> QED
  BY <1>4, <1>5, <1>6, <1>7 DEF GrantInv

\* A rotation takes the row of the family, which no rotation had.
LEMMA ReadFamilyStep ==
  ASSUME GrantInv, NEW r \in Tx, ReadFamily(r)
  PROVE  GrantInv'
<1> DEFINE v == [tx[r] EXCEPT !.step = "decide", !.revoked = family[FamilyOf(r)].revoked]
<1>0. tx[r] \in Transaction /\ tx[r].step = "rotate" /\ FamilyFree(FamilyOf(r))
  BY DEF GrantInv, GrantTypeOK, ReadFamily, At
<1>a. Of(r) \in Tx /\ Known(Of(r)) /\ FamilyOf(r) \in Tx
  BY <1>0 DEF GrantInv, Rows, Linked, ReadsHold, Rotating, At, FamilyOf
<1>1. v \in Transaction /\ tx' = [tx EXCEPT ![r] = v]
  <2>1. family[FamilyOf(r)].revoked \in BOOLEAN
    BY <1>a DEF GrantInv, GrantTypeOK, FamilyRow
  <2> QED
    BY <1>0, <2>1 DEF ReadFamily, Transaction, InFlight, At
<1>2. UNCHANGED <<code, family, token, cut, lapsed>>
  BY DEF ReadFamily
<1>3. v.step = "decide" /\ v.of = tx[r].of /\ v.spent = tx[r].spent
      /\ v.revoked = family[FamilyOf(r)].revoked
  BY <1>0 DEF Transaction
<1> HIDE DEF v
<1>4. /\ GrantTypeOK' /\ RowsAreMade' /\ Rows' /\ AnswersTrue'
      /\ \A q \in Tx \ {r} : tx'[q] = tx[q]
      /\ tx'[r] = v
  <2>1. tx[r].step \notin Answers /\ v.step \notin Answers \ {"refused"}
    BY <1>0, <1>3 DEF Answers
  <2> QED
    BY <1>1, <1>2, <2>1, Going
<1>5. LocksExclude'
  BY <1>0, <1>2, <1>3, <1>4 DEF GrantInv, LocksExclude, At, Of, FamilyOf, Rotating, FamilyFree
<1>6. ReadsHold' /\ FindsHold'
  BY <1>0, <1>2, <1>3, <1>4 DEF GrantInv, ReadsHold, FindsHold, At, Of, FamilyOf, Rotating, Known, Exists
<1> QED
  BY <1>4, <1>5, <1>6 DEF GrantInv

\* Refused or rolled back.
LEMMA GivingUpStep ==
  ASSUME GrantInv, NEW r \in Tx, NEW step \in {"refused", "aborted"}, Close(r, step),
         tx[r].step \in InFlight, UNCHANGED <<code, family, token, cut, lapsed>>
  PROVE  GrantInv'
<1> DEFINE v == [tx[r] EXCEPT !.step = step]
<1>0. tx[r] \in Transaction
  BY DEF GrantInv, GrantTypeOK
<1>1. v \in Transaction /\ tx' = [tx EXCEPT ![r] = v]
  BY <1>0 DEF Close, Transaction, Answers
<1>3. v.step = step
  BY <1>0 DEF Transaction
<1> HIDE DEF v
<1>4. /\ GrantTypeOK' /\ RowsAreMade' /\ Rows' /\ AnswersTrue'
      /\ \A q \in Tx \ {r} : tx'[q] = tx[q]
      /\ tx'[r] = v
  <2>1. tx[r].step \notin Answers /\ v.step \notin Answers \ {"refused"}
    BY <1>0, <1>3 DEF Answers, InFlight
  <2> QED
    BY <1>1, <2>1, Going
<1>5. LocksExclude'
  BY <1>3, <1>4 DEF GrantInv, LocksExclude, At, Of, FamilyOf, Rotating
<1>6. ReadsHold' /\ FindsHold'
  BY <1>3, <1>4 DEF GrantInv, ReadsHold, FindsHold, At, Of, FamilyOf, Rotating, Known, Exists
<1> QED
  BY <1>4, <1>5, <1>6 DEF GrantInv

\* An answer changes where its request stands, and nothing of what it brought.
LEMMA Closing ==
  ASSUME GrantInv, NEW r \in Tx, NEW step \in Answers, Close(r, step)
  PROVE  /\ tx' \in [Tx -> Transaction]
         /\ \A q \in Tx \ {r} : tx'[q] = tx[q]
         /\ tx'[r].step = step /\ tx'[r].of = tx[r].of /\ tx'[r].bound = tx[r].bound
<1>1. tx \in [Tx -> Transaction] /\ tx[r] \in Transaction
  BY DEF GrantInv, GrantTypeOK
<1>2. [tx[r] EXCEPT !.step = step] \in Transaction
  BY <1>1 DEF Transaction
<1>3. [tx[r] EXCEPT !.step = step].step = step /\ [tx[r] EXCEPT !.step = step].of = tx[r].of
      /\ [tx[r] EXCEPT !.step = step].bound = tx[r].bound
  BY <1>1 DEF Transaction
<1> HIDE DEF Transaction
<1> QED
  BY <1>1, <1>2, <1>3 DEF Close

\* Revoking families leaves codes, chains and sequences as they were.
LEMMA Revoking ==
  ASSUME GrantInv, family' \in [Tx -> FamilyRow], UNCHANGED token,
         \A f \in Tx : family'[f].code = family[f].code /\ (family[f].revoked => family'[f].revoked),
         \A f \in Tx : ~Exists(f) => family'[f] = family[f],
         \A c \in Code : code[c] = "consumed" => code'[c] = "consumed"
  PROVE  /\ CodesAreSpent' /\ Linked' /\ OneOpen' /\ SequencesDiffer'
<1> USE DEF GrantInv, Rows
<1>1. CodesAreSpent'
  BY DEF CodesAreSpent, Exists
<1>2. Linked' /\ OneOpen' /\ SequencesDiffer'
  BY DEF Linked, OneOpen, SequencesDiffer, Exists, Known
<1> QED
  BY <1>1, <1>2

\* What revoking the families F does to each row.
LEMMA RevokedRows ==
  ASSUME GrantInv, NEW F \in SUBSET Tx
  PROVE  /\ Revoked(F) \in [Tx -> FamilyRow]
         /\ \A f \in Tx : /\ Revoked(F)[f].code = family[f].code
                          /\ family[f].revoked => Revoked(F)[f].revoked
                          /\ f \notin F => Revoked(F)[f] = family[f]
                          /\ f \in F => Revoked(F)[f].revoked
<1>1. \A f \in Tx : family[f] \in FamilyRow
  BY DEF GrantInv, GrantTypeOK
<1>2. \A f \in Tx : /\ [family[f] EXCEPT !.revoked = TRUE] \in FamilyRow
                   /\ [family[f] EXCEPT !.revoked = TRUE].code = family[f].code
                   /\ [family[f] EXCEPT !.revoked = TRUE].revoked = TRUE
  BY <1>1 DEF FamilyRow
<1> QED
  BY <1>1, <1>2 DEF Revoked

\* A code that is issued was held by nobody, and began nothing.
LEMMA IssueCodeStep ==
  ASSUME GrantInv, NEW c \in Code, IssueCode(c)
  PROVE  GrantInv'
<1>1. /\ code[c] = "none" /\ code'[c] = "issued" /\ \A d \in Code \ {c} : code'[d] = code[d]
      /\ UNCHANGED <<family, token, lapsed, tx, cut>>
  BY DEF IssueCode, GrantInv, GrantTypeOK
<1>2. GrantTypeOK'
  BY DEF IssueCode, GrantInv, GrantTypeOK
<1>3. LocksExclude' /\ RowsAreMade' /\ AnswersTrue'
  BY <1>1 DEF GrantInv, LocksExclude, RowsAreMade, AnswersTrue, At, Of, FamilyOf, Rotating, Known
<1>4. ReadsHold'
  BY <1>1 DEF GrantInv, ReadsHold, At, Of, FamilyOf, Rotating, Known
<1>5. FindsHold'
  <2>1. \A q \in Tx : tx[q].codes \subseteq Code
    BY DEF GrantInv, GrantTypeOK, Transaction
  <2> QED
    BY <1>1, <2>1 DEF GrantInv, FindsHold, At, Exists
<1>6. Rows'
  <2>1. CutIsComplete'
    BY <1>1 DEF GrantInv, Rows, CutIsComplete, GrantTypeOK
  <2>2. CodesAreSpent'
    BY <1>1 DEF GrantInv, Rows, CodesAreSpent, Exists
  <2>3. Linked' /\ OneOpen' /\ SequencesDiffer'
    BY <1>1 DEF GrantInv, Rows, Linked, OneOpen, SequencesDiffer, Exists, Known
  <2> QED
    BY <2>1, <2>2, <2>3 DEF Rows
<1> QED
  BY <1>2, <1>3, <1>4, <1>5, <1>6 DEF GrantInv

\* Time touches no row.
LEMMA ExpireStep ==
  ASSUME GrantInv, NEW x \in Code \cup Tx, Expire(x)
  PROVE  GrantInv'
<1>1. UNCHANGED <<code, family, token, tx, cut>> /\ lapsed' = lapsed \cup {x}
  BY DEF Expire
<1>2. GrantTypeOK'
  BY <1>1 DEF GrantInv, GrantTypeOK
<1>3. LocksExclude' /\ RowsAreMade' /\ AnswersTrue' /\ ReadsHold' /\ FindsHold'
  BY <1>1 DEF GrantInv, LocksExclude, RowsAreMade, AnswersTrue, ReadsHold, FindsHold, At, Of,
     FamilyOf, Rotating, Known, Exists
<1>4. Rows'
  BY <1>1 DEF GrantInv, Rows, CodesAreSpent, Linked, OneOpen, SequencesDiffer, CutIsComplete,
     Exists, Known
<1> QED
  BY <1>2, <1>3, <1>4 DEF GrantInv

\* What a request that may exchange its code knows, and that it has made no row.
LEMMA ExchangeFacts ==
  ASSUME GrantInv, NEW r \in Tx, At(r, "exchange")
  PROVE  /\ Of(r) \in Code /\ Of(r) # None /\ code[Of(r)] # "none"
         /\ tx[r].spent = (code[Of(r)] = "consumed")
         /\ family[r] = NoFamily /\ token[r] = NoToken /\ ~Exists(r) /\ ~Known(r)
         /\ \A u \in Tx : token[u].family # r
<1>1. Of(r) \in Code /\ Of(r) # None /\ code[Of(r)] # "none"
      /\ tx[r].spent = (code[Of(r)] = "consumed")
  BY DEF GrantInv, ReadsHold
<1>2. family[r] = NoFamily /\ token[r] = NoToken /\ ~Exists(r) /\ ~Known(r)
  <2>1. family[r] = NoFamily /\ token[r] = NoToken
    BY DEF GrantInv, RowsAreMade, At
  <2>2. NoFamily.code = None /\ NoToken.family = None
    BY DEF NoFamily, NoToken
  <2> QED
    BY <2>1, <2>2 DEF Exists, Known
<1>3. \A u \in Tx : token[u].family # r
  BY <1>2 DEF GrantInv, Rows, Linked, Known
<1> QED
  BY <1>1, <1>2, <1>3

\* What a rotation that may decide knows, and that it has made no row.
LEMMA DecideFacts ==
  ASSUME GrantInv, NEW r \in Tx, At(r, "decide")
  PROVE  /\ Of(r) \in Tx /\ Known(Of(r)) /\ FamilyOf(r) \in Tx /\ Exists(FamilyOf(r))
         /\ tx[r].spent = (token[Of(r)].next # None)
         /\ tx[r].revoked = family[FamilyOf(r)].revoked
         /\ family[r] = NoFamily /\ token[r] = NoToken /\ ~Exists(r) /\ ~Known(r)
         /\ \A u \in Tx : token[u].family # r
<1>1. Of(r) \in Tx /\ Known(Of(r)) /\ tx[r].spent = (token[Of(r)].next # None)
      /\ tx[r].revoked = family[FamilyOf(r)].revoked
  BY DEF GrantInv, ReadsHold, Rotating
<1>2. family[r] = NoFamily /\ token[r] = NoToken /\ ~Exists(r) /\ ~Known(r)
  <2>1. family[r] = NoFamily /\ token[r] = NoToken
    BY DEF GrantInv, RowsAreMade, At
  <2>2. NoFamily.code = None /\ NoToken.family = None
    BY DEF NoFamily, NoToken
  <2> QED
    BY <2>1, <2>2 DEF Exists, Known
<1>3. FamilyOf(r) \in Tx /\ Exists(FamilyOf(r)) /\ \A u \in Tx : token[u].family # r
  BY <1>1, <1>2 DEF GrantInv, Rows, Linked, Known, FamilyOf
<1> QED
  BY <1>1, <1>2, <1>3

\* The token of a rotation, and its family, are there.
LEMMA RotatingFacts ==
  ASSUME GrantInv, NEW q \in Tx, Rotating(q)
  PROVE  Of(q) \in Tx /\ Known(Of(q)) /\ FamilyOf(q) \in Tx /\ Exists(FamilyOf(q))
<1>1. Of(q) \in Tx /\ Known(Of(q))
  BY DEF GrantInv, ReadsHold
<1> QED
  BY <1>1 DEF GrantInv, Rows, Linked, FamilyOf

\* A revocation ends what it has found, and no rotation holds it.
LEMMA RevokeStep ==
  ASSUME GrantInv, NEW r \in Tx, Revoke(r)
  PROVE  GrantInv'
<1> DEFINE F == tx[r].found
<1>1. tx[r].step = "revoke" /\ UNCHANGED <<code, token, lapsed, cut>>
      /\ \A f \in F : Exists(f) /\ FamilyFree(f)
  BY DEF Revoke, GrantInv, FindsHold, At
<1>2. /\ family' \in [Tx -> FamilyRow]
      /\ \A f \in Tx : /\ family'[f].code = family[f].code
                       /\ family[f].revoked => family'[f].revoked
                       /\ f \notin F => family'[f] = family[f]
  <2>1. F \in SUBSET Tx /\ family' = Revoked(F)
    BY DEF Revoke, GrantInv, GrantTypeOK, Transaction
  <2> QED
    BY <2>1, RevokedRows
<1>3. /\ tx' \in [Tx -> Transaction] /\ tx'[r].step = "settled"
      /\ \A q \in Tx \ {r} : tx'[q] = tx[q]
  BY Closing DEF Revoke, Answers
<1>4. GrantTypeOK'
  BY <1>1, <1>2, <1>3 DEF GrantInv, GrantTypeOK
<1>5. \A f \in Tx : ~Exists(f) => family'[f] = family[f]
  BY <1>1, <1>2
<1>6. Rows'
  <2>1. CodesAreSpent' /\ Linked' /\ OneOpen' /\ SequencesDiffer'
    BY <1>1, <1>2, <1>5, Revoking
  <2>2. CutIsComplete'
    BY <1>1, <1>2 DEF GrantInv, Rows, CutIsComplete
  <2> QED
    BY <2>1, <2>2 DEF Rows
<1>7. LocksExclude' /\ RowsAreMade'
  <2>1. LocksExclude'
    BY <1>1, <1>3 DEF GrantInv, LocksExclude, At, Of, FamilyOf, Rotating
  <2>2. \A q \in Tx : family[q] = NoFamily => ~Exists(q)
    BY DEF NoFamily, Exists
  <2>3. RowsAreMade'
    BY <1>1, <1>3, <1>5, <2>2 DEF GrantInv, RowsAreMade, At
  <2> QED
    BY <2>1, <2>3
<1>8. ReadsHold'
  BY <1>1, <1>2, <1>3, RotatingFacts DEF GrantInv, ReadsHold, At, Of, FamilyOf, Rotating, FamilyFree, Known
<1>9. FindsHold'
  <2>1. \A q \in Tx : tx[q].found \subseteq Tx
    BY DEF GrantInv, GrantTypeOK, Transaction
  <2> QED
    BY <1>1, <1>2, <1>3, <2>1 DEF GrantInv, FindsHold, At, Exists
<1>10. AnswersTrue'
  <2>1. \A q \in Tx : Of(q) \in Tx /\ Known(Of(q)) => FamilyOf(q) \in Tx
    BY DEF GrantInv, Rows, Linked, FamilyOf
  <2> QED
    BY <1>1, <1>2, <1>3, <2>1 DEF GrantInv, AnswersTrue, At, Of, FamilyOf, Known
<1> QED
  BY <1>4, <1>6, <1>7, <1>8, <1>9, <1>10 DEF GrantInv

\* The claim consumes its codes and ends their families: it has missed none.
LEMMA CutGrantsStep ==
  ASSUME GrantInv, NEW r \in Tx, CutGrants(r)
  PROVE  GrantInv'
<1> DEFINE F == tx[r].found
           C == tx[r].codes
<1>1. tx[r].step = "cut" /\ UNCHANGED <<token, lapsed>> /\ cut' = cut \cup C /\ C \subseteq Code
      /\ \A f \in F : Exists(f) /\ FamilyFree(f)
  BY DEF CutGrants, GrantInv, FindsHold, At, GrantTypeOK, Transaction
<1>2. /\ family' \in [Tx -> FamilyRow]
      /\ \A f \in Tx : /\ family'[f].code = family[f].code
                       /\ family[f].revoked => family'[f].revoked
                       /\ f \notin F => family'[f] = family[f]
                       /\ f \in F => family'[f].revoked
  <2>1. F \in SUBSET Tx /\ family' = Revoked(F)
    BY DEF CutGrants, GrantInv, GrantTypeOK, Transaction
  <2> QED
    BY <2>1, RevokedRows
<1>a. /\ \A c \in Code : code'[c] = IF c \in C THEN "consumed" ELSE code[c]
      /\ code' \in [Code -> {"none", "issued", "consumed"}]
  BY DEF CutGrants, GrantInv, GrantTypeOK
<1>3. /\ tx' \in [Tx -> Transaction] /\ tx'[r].step = "settled"
      /\ \A q \in Tx \ {r} : tx'[q] = tx[q]
  BY Closing DEF CutGrants, Answers
<1>4. GrantTypeOK'
  BY <1>1, <1>2, <1>a, <1>3 DEF GrantInv, GrantTypeOK
<1>5. \A f \in Tx : ~Exists(f) => family'[f] = family[f]
  BY <1>1, <1>2
<1>6. Rows'
  <2>1. CodesAreSpent' /\ Linked' /\ OneOpen' /\ SequencesDiffer'
    BY <1>1, <1>2, <1>a, <1>5, Revoking
  <2>2. \A f \in Tx : family[f].code \in C => f \in F
    BY <1>1 DEF GrantInv, FindsHold, At
  <2>3. CutIsComplete'
    BY <1>1, <1>2, <1>a, <2>2 DEF GrantInv, GrantTypeOK, Rows, CutIsComplete
  <2> QED
    BY <2>1, <2>3 DEF Rows
<1>7. LocksExclude' /\ RowsAreMade'
  <2>1. LocksExclude'
    BY <1>1, <1>3 DEF GrantInv, LocksExclude, At, Of, FamilyOf, Rotating
  <2>2. \A q \in Tx : family[q] = NoFamily => ~Exists(q)
    BY DEF NoFamily, Exists
  <2>3. RowsAreMade'
    BY <1>1, <1>3, <1>5, <2>2 DEF GrantInv, RowsAreMade, At
  <2> QED
    BY <2>1, <2>3
<1>8. ReadsHold'
  <2>1. \A q \in Tx : At(q, "exchange") => Of(q) \notin C
    BY <1>1 DEF GrantInv, LocksExclude, At
  <2> QED
    BY <1>1, <1>2, <1>a, <1>3, <2>1, RotatingFacts
    DEF GrantInv, ReadsHold, At, Of, FamilyOf, Rotating, FamilyFree, Known
<1>9. FindsHold'
  <2>1. \A q \in Tx : tx[q].codes \subseteq Code /\ tx[q].found \subseteq Tx
    BY DEF GrantInv, GrantTypeOK, Transaction
  <2> QED
    BY <1>1, <1>2, <1>a, <1>3, <2>1 DEF GrantInv, FindsHold, At, Exists
<1>10. AnswersTrue'
  <2>1. \A q \in Tx : Of(q) \in Tx /\ Known(Of(q)) => FamilyOf(q) \in Tx
    BY DEF GrantInv, Rows, Linked, FamilyOf
  <2> QED
    BY <1>1, <1>2, <1>3, <2>1 DEF GrantInv, AnswersTrue, At, Of, FamilyOf, Known
<1> QED
  BY <1>4, <1>6, <1>7, <1>8, <1>9, <1>10 DEF GrantInv

\* A token that came again ends its family.
LEMMA ReuseStep ==
  ASSUME GrantInv, NEW r \in Tx, Reuse(r)
  PROVE  GrantInv'
<1> DEFINE g == FamilyOf(r)
<1>1. tx[r].step = "decide" /\ UNCHANGED <<code, token, lapsed, cut>> /\ tx[r].spent
      /\ Of(r) \in Tx /\ Known(Of(r)) /\ g \in Tx /\ Exists(g) /\ token[Of(r)].next # None
  BY DecideFacts DEF Reuse, At
<1>2. /\ family' \in [Tx -> FamilyRow]
      /\ \A f \in Tx : /\ family'[f].code = family[f].code
                       /\ family[f].revoked => family'[f].revoked
                       /\ f # g => family'[f] = family[f]
      /\ family'[g].revoked
  <2>1. family' = [family EXCEPT ![g] = [family[g] EXCEPT !.revoked = TRUE]]
    BY DEF Reuse
  <2>2. family \in [Tx -> FamilyRow] /\ family[g] \in FamilyRow
    BY <1>1 DEF GrantInv, GrantTypeOK
  <2>3. /\ [family[g] EXCEPT !.revoked = TRUE] \in FamilyRow
        /\ [family[g] EXCEPT !.revoked = TRUE].code = family[g].code
        /\ [family[g] EXCEPT !.revoked = TRUE].revoked = TRUE
    BY <2>2 DEF FamilyRow
  <2> QED
    BY <1>1, <2>1, <2>2, <2>3
<1>3. /\ tx' \in [Tx -> Transaction] /\ tx'[r].step = "reused" /\ tx'[r].of = tx[r].of
      /\ \A q \in Tx \ {r} : tx'[q] = tx[q]
  BY Closing DEF Reuse, Answers
<1>4. GrantTypeOK'
  BY <1>1, <1>2, <1>3 DEF GrantInv, GrantTypeOK
<1>5. \A f \in Tx : ~Exists(f) => family'[f] = family[f]
  BY <1>1, <1>2
<1>6. Rows'
  <2>1. CodesAreSpent' /\ Linked' /\ OneOpen' /\ SequencesDiffer'
    BY <1>1, <1>2, <1>5, Revoking
  <2>2. CutIsComplete'
    BY <1>1, <1>2 DEF GrantInv, Rows, CutIsComplete
  <2> QED
    BY <2>1, <2>2 DEF Rows
<1>7. LocksExclude' /\ RowsAreMade'
  <2>1. LocksExclude'
    BY <1>1, <1>3 DEF GrantInv, LocksExclude, At, Of, FamilyOf, Rotating
  <2>2. \A q \in Tx : family[q] = NoFamily => ~Exists(q)
    BY DEF NoFamily, Exists
  <2>3. RowsAreMade'
    BY <1>1, <1>3, <1>5, <2>2 DEF GrantInv, RowsAreMade, At
  <2> QED
    BY <2>1, <2>3
<1>8. ReadsHold'
  <2>1. \A q \in Tx \ {r} : At(q, "decide") => FamilyOf(q) # g
    BY <1>1 DEF GrantInv, LocksExclude, At
  <2> QED
    BY <1>1, <1>2, <1>3, <2>1, RotatingFacts DEF GrantInv, ReadsHold, At, Of, FamilyOf, Rotating, Known
<1>9. FindsHold'
  <2>1. \A q \in Tx : tx[q].found \subseteq Tx
    BY DEF GrantInv, GrantTypeOK, Transaction
  <2> QED
    BY <1>1, <1>2, <1>3, <2>1 DEF GrantInv, FindsHold, At, Exists
<1>10. AnswersTrue'
  <2>1. \A q \in Tx : Of(q) \in Tx /\ Known(Of(q)) => FamilyOf(q) \in Tx
    BY DEF GrantInv, Rows, Linked, FamilyOf
  <2> QED
    BY <1>1, <1>2, <1>3, <2>1 DEF GrantInv, AnswersTrue, At, Of, FamilyOf, Known
<1> QED
  BY <1>4, <1>6, <1>7, <1>8, <1>9, <1>10 DEF GrantInv

\* An exchange begins a family with one token, of a code that began none before.
LEMMA ExchangeStep ==
  ASSUME GrantInv, NEW r \in Tx, Exchange(r)
  PROVE  GrantInv'
<1> DEFINE c == Of(r)
<1>1. /\ At(r, "exchange") /\ c \in Code /\ c # None /\ code[c] = "issued"
      /\ family[r] = NoFamily /\ token[r] = NoToken /\ ~Exists(r) /\ ~Known(r)
      /\ \A u \in Tx : token[u].family # r
  <2>1. At(r, "exchange") /\ ~tx[r].spent
    BY DEF Exchange, CodeIsGood
  <2>2. code[c] # "consumed" /\ code[c] # "none" /\ c \in Code
    BY <2>1, ExchangeFacts
  <2> QED
    BY <2>1, <2>2, ExchangeFacts DEF GrantInv, GrantTypeOK
<1>2. /\ tx' \in [Tx -> Transaction] /\ tx'[r].step = "granted"
      /\ \A q \in Tx \ {r} : tx'[q] = tx[q]
  BY Closing DEF Exchange, Answers
<1>3. /\ code' \in [Code -> {"none", "issued", "consumed"}] /\ code'[c] = "consumed"
      /\ \A d \in Code \ {c} : code'[d] = code[d]
      /\ UNCHANGED <<lapsed, cut>>
  BY <1>1 DEF Exchange, GrantInv, GrantTypeOK
<1>4. /\ \A f \in Tx \ {r} : family'[f] = family[f] /\ token'[f] = token[f]
      /\ \/ family' = family /\ token' = token
         \/ /\ family'[r].code = c /\ ~family'[r].revoked
            /\ token'[r].family = r /\ token'[r].sequence = 1 /\ token'[r].next = None
      /\ family' \in [Tx -> FamilyRow] /\ token' \in [Tx -> TokenRow]
  <2>1. family \in [Tx -> FamilyRow] /\ token \in [Tx -> TokenRow]
    BY DEF GrantInv, GrantTypeOK
  <2>2. [code |-> c, revoked |-> FALSE] \in FamilyRow
        /\ [family |-> r, sequence |-> 1, next |-> None] \in TokenRow
    BY <1>1 DEF FamilyRow, TokenRow
  <2>3. CASE c \notin Offline
    BY <2>1, <2>3 DEF Exchange
  <2>4. CASE c \in Offline
    <3>1. /\ family' = [family EXCEPT ![r] = [code |-> c, revoked |-> FALSE]]
          /\ token' = [token EXCEPT ![r] = [family |-> r, sequence |-> 1, next |-> None]]
      BY <2>4 DEF Exchange
    <3> QED
      BY <2>1, <2>2, <3>1
  <2> QED
    BY <2>3, <2>4
<1>5. GrantTypeOK'
  BY <1>2, <1>3, <1>4 DEF GrantInv, GrantTypeOK
<1>6. \A f \in Tx : Exists(f) => f # r /\ Exists(f)' /\ family[f].code # c
  BY <1>1, <1>4 DEF GrantInv, Rows, CodesAreSpent, Exists
<1>7. Rows'
  <2>1. CodesAreSpent'
    <3>1. CASE family' = family
      BY <1>1, <1>3, <3>1 DEF GrantInv, Rows, CodesAreSpent, Exists
    <3>2. CASE family'[r].code = c
      <4>1. \A f \in Tx \ {r} : family'[f].code # c
        BY <1>1, <1>4, <1>6 DEF Exists
      <4> QED
        BY <1>1, <1>3, <1>4, <3>2, <4>1 DEF GrantInv, Rows, CodesAreSpent, Exists
    <3> QED
      BY <1>4, <3>1, <3>2
  <2>2. Linked'
    BY <1>1, <1>4, <1>6 DEF GrantInv, Rows, Linked, Known, Exists
  <2>3. OneOpen'
    <3> SUFFICES ASSUME NEW f \in Tx, Exists(f)'
                 PROVE  \E v \in Tx : /\ token'[v].family = f /\ token'[v].next = None
                                      /\ \A u \in Tx : token'[u].family = f /\ u # v =>
                                           /\ token'[u].next # None
                                           /\ token'[u].sequence < token'[v].sequence
      BY DEF OneOpen
    <3>1. CASE ~Exists(f)
      <4>1. f = r /\ token'[r].family = r /\ token'[r].next = None
        BY <1>1, <1>4, <3>1 DEF Exists
      <4>2. \A u \in Tx : token'[u].family = f => u = r
        BY <1>1, <1>4, <4>1
      <4> QED
        BY <4>1, <4>2
    <3>2. CASE Exists(f)
      <4>1. PICK v \in Tx : /\ token[v].family = f /\ token[v].next = None
                            /\ \A u \in Tx : token[u].family = f /\ u # v =>
                                 token[u].next # None /\ token[u].sequence < token[v].sequence
        BY <3>2 DEF GrantInv, Rows, OneOpen
      <4>2. f # r /\ v # r /\ token'[v] = token[v]
        BY <1>1, <1>4, <3>2, <4>1 DEF Exists, Known
      <4>3. \A u \in Tx : token'[u].family = f => token'[u] = token[u]
        BY <1>4, <4>2
      <4> QED
        BY <4>1, <4>2, <4>3
    <3> QED
      BY <3>1, <3>2
  <2>4. SequencesDiffer'
    BY <1>1, <1>4 DEF GrantInv, Rows, SequencesDiffer, Known
  <2>5. CutIsComplete'
    <3>1. \A d \in cut : d # c /\ d \in Code
      BY <1>1 DEF GrantInv, Rows, CutIsComplete, GrantTypeOK
    <3> QED
      BY <1>1, <1>3, <1>4, <3>1 DEF GrantInv, Rows, CutIsComplete
  <2> QED
    BY <2>1, <2>2, <2>3, <2>4, <2>5 DEF Rows
<1>8. \A q \in Tx : Rotating(q) => Of(q) \in Tx /\ Of(q) # r /\ FamilyOf(q) \in Tx /\ FamilyOf(q) # r
  BY <1>1, RotatingFacts
<1>9. LocksExclude' /\ RowsAreMade'
  <2>1. LocksExclude'
    BY <1>2, <1>4, <1>8 DEF GrantInv, LocksExclude, At, Of, FamilyOf, Rotating
  <2>2. RowsAreMade'
    BY <1>2, <1>4 DEF GrantInv, RowsAreMade, At
  <2> QED
    BY <2>1, <2>2
<1>10. ReadsHold'
  <2>1. \A q \in Tx \ {r} : At(q, "exchange") => Of(q) # c
    BY <1>1 DEF GrantInv, LocksExclude
  <2> QED
    BY <1>2, <1>3, <1>4, <1>8, <2>1 DEF GrantInv, ReadsHold, At, Of, FamilyOf, Rotating, Known
<1>11. FindsHold'
  <2>1. \A q \in Tx : tx[q].codes \subseteq Code /\ tx[q].found \subseteq Tx
    BY DEF GrantInv, GrantTypeOK, Transaction
  <2>2. \A q \in Tx \ {r} : At(q, "cut") => c \notin tx[q].codes
    BY <1>1 DEF GrantInv, LocksExclude
  <2> QED
    BY <1>2, <1>3, <1>4, <1>6, <2>1, <2>2 DEF GrantInv, FindsHold, At
<1>12. AnswersTrue'
  <2>1. \A q \in Tx : Of(q) \in Tx /\ Known(Of(q)) => Of(q) # r /\ FamilyOf(q) \in Tx /\ FamilyOf(q) # r
    BY <1>1 DEF GrantInv, Rows, Linked, FamilyOf
  <2> QED
    BY <1>2, <1>4, <2>1 DEF GrantInv, AnswersTrue, At, Of, FamilyOf, Known
<1> QED
  BY <1>5, <1>7, <1>9, <1>10, <1>11, <1>12 DEF GrantInv

\* A rotation puts its token at the open end of the chain, one number further.
LEMMA RotateStep ==
  ASSUME GrantInv, NEW r \in Tx, Rotate(r)
  PROVE  GrantInv'
<1> DEFINE t == Of(r)
           g == FamilyOf(r)
<1>1. /\ At(r, "decide") /\ t \in Tx /\ Known(t) /\ g \in Tx /\ Exists(g) /\ g = token[t].family
      /\ token[t].next = None /\ t # r /\ token[r] = NoToken
      /\ family[r] = NoFamily /\ ~Known(r) /\ \A u \in Tx : token[u].family # r
      /\ UNCHANGED <<code, family, lapsed, cut>>
  <2>1. At(r, "decide") /\ ~tx[r].spent /\ UNCHANGED <<code, family, lapsed, cut>>
    BY DEF Rotate
  <2>2. Known(t) /\ ~Known(r)
    BY <2>1, DecideFacts
  <2> QED
    BY <2>1, <2>2, DecideFacts DEF FamilyOf
<1>2. /\ tx' \in [Tx -> Transaction] /\ tx'[r].step = "rotated" /\ tx'[r].of = tx[r].of
      /\ \A q \in Tx \ {r} : tx'[q] = tx[q]
  BY Closing DEF Rotate, Answers
<1>3. /\ token' \in [Tx -> TokenRow]
      /\ \A u \in Tx \ {r, t} : token'[u] = token[u]
      /\ token'[t].family = g /\ token'[t].sequence = token[t].sequence /\ token'[t].next = r
      /\ token'[r].family = g /\ token'[r].sequence = token[t].sequence + 1 /\ token'[r].next = None
      /\ \A u \in Tx : token[u].sequence \in Nat
  <2>1. token \in [Tx -> TokenRow] /\ token[t] \in TokenRow
    BY <1>1 DEF GrantInv, GrantTypeOK
  <2>2. /\ [token[t] EXCEPT !.next = r] \in TokenRow
        /\ [token[t] EXCEPT !.next = r].family = token[t].family
        /\ [token[t] EXCEPT !.next = r].sequence = token[t].sequence
        /\ [token[t] EXCEPT !.next = r].next = r
    BY <2>1 DEF TokenRow
  <2>3. [family |-> g, sequence |-> token[t].sequence + 1, next |-> None] \in TokenRow
    BY <1>1, <2>1 DEF TokenRow
  <2>4. token' = [token EXCEPT ![t] = [token[t] EXCEPT !.next = r],
                  ![r] = [family |-> g, sequence |-> token[t].sequence + 1, next |-> None]]
    BY DEF Rotate
  <2>5. \A u \in Tx : token[u].sequence \in Nat
    BY <2>1 DEF TokenRow
  <2> QED
    BY <1>1, <2>1, <2>2, <2>3, <2>4, <2>5
<1>4. GrantTypeOK'
  BY <1>1, <1>2, <1>3 DEF GrantInv, GrantTypeOK
<1>5. \A u \in Tx : token[u].family = g /\ u # t =>
                      token[u].next # None /\ token[u].sequence < token[t].sequence
  BY <1>1 DEF GrantInv, Rows, OneOpen
<1>6. \A u \in Tx : Known(u) => u # r /\ token'[u].family = token[u].family
                                 /\ token'[u].sequence = token[u].sequence
  BY <1>1, <1>3
<1>7. Rows'
  <2>1. CodesAreSpent'
    BY <1>1 DEF GrantInv, Rows, CodesAreSpent, Exists
  <2>2. Linked'
    <3> SUFFICES ASSUME NEW u \in Tx
                 PROVE  /\ Known(u)' => token'[u].family \in Tx /\ Exists(token[u].family)'
                        /\ Known(u)' /\ token'[u].next # None =>
                             /\ token'[u].next \in Tx
                             /\ token'[token'[u].next].family = token'[u].family
                             /\ token'[token'[u].next].sequence = token'[u].sequence + 1
                        /\ ~Known(u)' => token'[u] = NoToken
      BY DEF Linked
    <3>1. CASE u = r
      BY <1>1, <1>3, <3>1 DEF Known, Exists
    <3>2. CASE u = t
      BY <1>1, <1>3, <3>2 DEF Known, Exists
    <3>3. CASE u # r /\ u # t
      <4>1. token'[u] = token[u]
        BY <1>3, <3>3
      <4>2. Known(u) /\ token[u].next # None => token[u].next \in Tx /\ Known(token[u].next)
        BY DEF GrantInv, Rows, Linked, Known
      <4> QED
        BY <1>1, <1>6, <4>1, <4>2 DEF GrantInv, Rows, Linked, Known, Exists
    <3> QED
      BY <3>1, <3>2, <3>3
  <2>3. OneOpen'
    <3> SUFFICES ASSUME NEW f \in Tx, Exists(f)
                 PROVE  \E v \in Tx : /\ token'[v].family = f /\ token'[v].next = None
                                      /\ \A u \in Tx : token'[u].family = f /\ u # v =>
                                           /\ token'[u].next # None
                                           /\ token'[u].sequence < token'[v].sequence
      BY <1>1 DEF OneOpen, Exists
    <3>1. CASE f = g
      BY <1>1, <1>3, <1>5, <3>1
    <3>2. CASE f # g
      <4>1. PICK v \in Tx : /\ token[v].family = f /\ token[v].next = None
                            /\ \A u \in Tx : token[u].family = f /\ u # v =>
                                 token[u].next # None /\ token[u].sequence < token[v].sequence
        BY DEF GrantInv, Rows, OneOpen
      <4>2. v # t /\ f # None
        BY <1>1, <3>2, <4>1 DEF Exists, GrantInv, GrantTypeOK
      <4>3. v # r
        BY <1>1, <4>1, <4>2 DEF Known
      <4>4. \A u \in Tx : token'[u].family = f => token'[u] = token[u]
        BY <1>3, <3>2
      <4> QED
        BY <1>3, <4>1, <4>2, <4>3, <4>4
    <3> QED
      BY <3>1, <3>2
  <2>4. SequencesDiffer'
    <3> SUFFICES ASSUME NEW u \in Tx, NEW v \in Tx, Known(u)', token'[u].family = token'[v].family,
                        token'[u].sequence = token'[v].sequence
                 PROVE  u = v
      BY DEF SequencesDiffer
    <3>1. CASE u # r /\ v # r
      <4>1. Known(u) /\ token[u].family = token[v].family /\ token[u].sequence = token[v].sequence
        BY <1>1, <1>3, <3>1 DEF Known
      <4> QED
        BY <4>1 DEF GrantInv, Rows, SequencesDiffer
    <3>2. CASE u = r /\ v # r
      BY <1>1, <1>3, <1>5, <3>2
    <3>3. CASE v = r /\ u # r
      BY <1>1, <1>3, <1>5, <3>3
    <3> QED
      BY <3>1, <3>2, <3>3
  <2>5. CutIsComplete'
    BY <1>1 DEF GrantInv, Rows, CutIsComplete
  <2> QED
    BY <2>1, <2>2, <2>3, <2>4, <2>5 DEF Rows
<1>8. \A q \in Tx \ {r} : Rotating(q) => Of(q) \in Tx /\ Of(q) # r /\ Of(q) # t /\ Known(Of(q))
  BY <1>1, RotatingFacts DEF GrantInv, LocksExclude, Rotating
<1>9. LocksExclude' /\ RowsAreMade'
  <2>1. LocksExclude'
    BY <1>2, <1>3, <1>8 DEF GrantInv, LocksExclude, At, Of, FamilyOf, Rotating
  <2>2. RowsAreMade'
    <3>1. \A q \in Tx : ~At(q, "granted")' /\ ~At(q, "rotated")' => q # r /\ q # t
      BY <1>1, <1>2 DEF GrantInv, RowsAreMade, At, Known, NoToken
    <3> QED
      BY <1>1, <1>2, <1>3, <3>1 DEF GrantInv, RowsAreMade, At
  <2> QED
    BY <2>1, <2>2
<1>10. ReadsHold'
  BY <1>1, <1>2, <1>3, <1>8 DEF GrantInv, ReadsHold, At, Of, FamilyOf, Rotating, Known
<1>11. FindsHold'
  BY <1>1, <1>2 DEF GrantInv, FindsHold, At, Exists
<1>12. AnswersTrue'
  <2> SUFFICES ASSUME NEW q \in Tx
               PROVE  /\ At(q, "rotated")' => /\ Of(q)' \in Tx /\ Known(Of(q))'
                                              /\ token'[tx'[q].of].next = q
                      /\ At(q, "reused")' => /\ Of(q)' \in Tx /\ Known(Of(q))'
                                             /\ token'[tx'[q].of].next # None
                                             /\ family'[token'[tx'[q].of].family].revoked
    BY DEF AnswersTrue, Of, FamilyOf
  <2>1. CASE q = r
    BY <1>1, <1>2, <1>3, <2>1 DEF At, Of, Known
  <2>2. CASE q # r
    <3>1. tx'[q] = tx[q]
      BY <1>2, <2>2
    <3>2. At(q, "rotated") \/ At(q, "reused") => Of(q) \in Tx /\ Known(Of(q)) /\ Of(q) # r /\ Of(q) # t
      BY <1>1 DEF GrantInv, AnswersTrue
    <3> QED
      BY <1>1, <1>3, <3>1, <3>2 DEF GrantInv, AnswersTrue, At, Of, Known, FamilyOf
  <2> QED
    BY <2>1, <2>2
<1> QED
  BY <1>4, <1>7, <1>9, <1>10, <1>11, <1>12 DEF GrantInv

\* Every step keeps the invariant.
LEMMA GrantStep ==
  ASSUME GrantInv, [GrantNext]_grantVars
  PROVE  GrantInv'
<1>1. CASE UNCHANGED grantVars
  <2>1. UNCHANGED <<code, family, token, lapsed, tx, cut>> BY <1>1 DEF grantVars
  <2>2. GrantTypeOK' /\ RowsAreMade' /\ AnswersTrue'
    BY <2>1 DEF GrantInv, GrantTypeOK, RowsAreMade, AnswersTrue, At, Of, FamilyOf, Known
  <2>3. LocksExclude' /\ ReadsHold' /\ FindsHold'
    BY <2>1 DEF GrantInv, LocksExclude, ReadsHold, FindsHold, At, Of, FamilyOf, Known,
                Exists, Rotating
  <2>4. Rows'
    BY <2>1 DEF GrantInv, Rows, CodesAreSpent, Linked, OneOpen, SequencesDiffer,
                CutIsComplete, Exists, Known
  <2> QED BY <2>2, <2>3, <2>4 DEF GrantInv
<1>2. CASE \E c \in Code : IssueCode(c)
  BY <1>2, IssueCodeStep
<1>3. CASE \E r \in Tx, c \in Code, bound \in BOOLEAN : ReadCode(r, c, bound)
  BY <1>3, ReadCodeStep
<1>4. CASE \E r, t \in Tx, bound \in BOOLEAN : ReadToken(r, t, bound)
  BY <1>4, ReadTokenStep
<1>5. CASE \E r, t \in Tx : FindByToken(r, t)
  <2>1. PICK r \in Tx, t \in Tx : Find(r, LiveFamilies \cap {token[t].family})
    BY <1>5 DEF FindByToken
  <2>2. LiveFamilies \cap {token[t].family} \in SUBSET LiveFamilies OBVIOUS
  <2> QED BY <2>1, <2>2, FindStep
<1>6. CASE \E r \in Tx, s \in Session : FindBySession(r, s)
  <2>1. PICK r \in Tx, s \in Session :
          Find(r, {f \in LiveFamilies : SessionOf[family[f].code] = s})
    BY <1>6 DEF FindBySession
  <2>2. {f \in LiveFamilies : SessionOf[family[f].code] = s} \in SUBSET LiveFamilies OBVIOUS
  <2> QED BY <2>1, <2>2, FindStep
<1>7. CASE \E r \in Tx : FindAll(r)
  <2>1. PICK r \in Tx : Find(r, LiveFamilies) BY <1>7 DEF FindAll
  <2>2. LiveFamilies \in SUBSET LiveFamilies OBVIOUS
  <2> QED BY <2>1, <2>2, FindStep
<1>8. CASE \E r \in Tx : RefuseCode(r) \/ RefuseToken(r) \/ Abort(r)
  <2>1. PICK r \in Tx : RefuseCode(r) \/ RefuseToken(r) \/ Abort(r) BY <1>8
  <2>2. tx[r].step \in InFlight BY <2>1 DEF RefuseCode, RefuseToken, Abort, At, InFlight
  <2>3. \E step \in {"refused", "aborted"} : Close(r, step)
    BY <2>1 DEF RefuseCode, RefuseToken, Abort
  <2>4. UNCHANGED <<code, family, token, cut, lapsed>>
    BY <2>1 DEF RefuseCode, RefuseToken, Abort
  <2> QED BY <2>2, <2>3, <2>4, GivingUpStep
<1>9. CASE \E r \in Tx : Exchange(r) \/ ReadFamily(r) \/ Reuse(r) \/ Rotate(r)
  BY <1>9, ExchangeStep, ReadFamilyStep, ReuseStep, RotateStep
<1>10. CASE \E r \in Tx : Revoke(r) \/ ClaimAccount(r) \/ HoldCodes(r) \/ CutGrants(r)
  BY <1>10, RevokeStep, ClaimAccountStep, HoldCodesStep, CutGrantsStep
<1>11. CASE \E x \in Code \cup Tx : Expire(x)
  BY <1>11, ExpireStep
<1> QED
  BY <1>1, <1>2, <1>3, <1>4, <1>5, <1>6, <1>7, <1>8, <1>9, <1>10, <1>11 DEF GrantNext

\* Whatever the codes, requests and sessions, and however their transactions interleave,
\* rows follow their locks, every family is one chain, and answers are true.
THEOREM GrantInductive == GrantSpec => []GrantInv
<1>1. GrantInv /\ [GrantNext]_grantVars => GrantInv' BY GrantStep
<1> QED BY <1>1, GrantInitInv, PTL DEF GrantSpec

\* Every reachable state is well typed.
THEOREM GrantTyped == GrantSpec => []GrantTypeOK
<1>1. GrantInv => GrantTypeOK BY DEF GrantInv
<1> QED BY <1>1, GrantInductive, PTL

\* A committed claim of account deletion leaves no code it met to be exchanged, and no
\* family of one live, although it locks no family that is being begun.
THEOREM CutsAreComplete == GrantSpec => []CutIsComplete
<1>1. GrantInv => CutIsComplete BY DEF GrantInv, Rows
<1> QED BY <1>1, GrantInductive, PTL

\* An exchange consumes its code and begins one family; a family has one token that may be
\* rotated, the last of its sequence; each rotated token points to the next one; and
\* UNIQUE(family_id, sequence) is never what stops a rotation.
THEOREM FamiliesAreChains == GrantSpec => [](CodesAreSpent /\ Linked /\ OneOpen /\ SequencesDiffer)
<1>1. GrantInv => CodesAreSpent /\ Linked /\ OneOpen /\ SequencesDiffer BY DEF GrantInv, Rows
<1> QED BY <1>1, GrantInductive, PTL

\* A family that has ended stays ended, and its tokens stay as they are: none is rotated,
\* and none is added.
EndedStays(f) == Exists(f) /\ family[f].revoked =>
  /\ family'[f] = family[f]
  /\ \A t \in Tx : token[t].family = f \/ token'[t].family = f => token'[t] = token[t]

\* Revoking an ended family again changes nothing.
LEMMA RevokingEnds ==
  ASSUME GrantInv, NEW F \in SUBSET Tx, family' = Revoked(F), UNCHANGED token, NEW f \in Tx
  PROVE  EndedStays(f)
<1>1. family[f] \in FamilyRow BY DEF GrantInv, GrantTypeOK
<1>2. family[f].revoked => [family[f] EXCEPT !.revoked = TRUE] = family[f]
  BY <1>1 DEF FamilyRow
<1> QED BY <1>2 DEF EndedStays, Revoked

\* No step changes an ended family or its tokens, or adds one.
LEMMA EndedStep ==
  ASSUME GrantInv, [GrantNext]_grantVars, NEW f \in Tx
  PROVE  EndedStays(f)
<1>1. CASE UNCHANGED <<family, token>>
  BY <1>1 DEF EndedStays
<1>2. ASSUME NEW r \in Tx, Exchange(r) PROVE EndedStays(f)
  <2>1. At(r, "exchange") BY <1>2 DEF Exchange
  <2>2. ~Exists(r) /\ ~Known(r) /\ \A u \in Tx : token[u].family # r
    BY <2>1, ExchangeFacts
  <2>3. CASE UNCHANGED <<family, token>>
    BY <2>3 DEF EndedStays
  <2>4. CASE /\ family' = [family EXCEPT ![r] = [code |-> Of(r), revoked |-> FALSE]]
             /\ token' = [token EXCEPT ![r] = [family |-> r, sequence |-> 1, next |-> None]]
    <3>1. /\ \A g \in Tx \ {r} : family'[g] = family[g] /\ token'[g] = token[g]
          /\ token'[r].family = r
      BY <2>4 DEF GrantInv, GrantTypeOK
    <3> QED BY <2>2, <3>1 DEF EndedStays, Known, Exists
  <2> QED BY <1>2, <2>3, <2>4 DEF Exchange
<1>3. ASSUME NEW r \in Tx, Reuse(r) PROVE EndedStays(f)
  <2>1. At(r, "decide") /\ ~tx[r].revoked /\ UNCHANGED token
        /\ family' = [family EXCEPT ![FamilyOf(r)].revoked = TRUE]
    BY <1>3 DEF Reuse, TokenIsGood
  <2>2. ~family[FamilyOf(r)].revoked BY <2>1, DecideFacts
  <2>3. f # FamilyOf(r) => family'[f] = family[f]
    BY <2>1 DEF GrantInv, GrantTypeOK
  <2> QED BY <2>1, <2>2, <2>3 DEF EndedStays
<1>4. ASSUME NEW r \in Tx, Rotate(r) PROVE EndedStays(f)
  <2>1. At(r, "decide") /\ ~tx[r].revoked /\ UNCHANGED family
    BY <1>4 DEF Rotate, TokenIsGood
  <2>2. /\ ~family[FamilyOf(r)].revoked /\ Of(r) \in Tx /\ ~Known(r) /\ r # Of(r)
        /\ token[Of(r)].family = FamilyOf(r)
    BY <2>1, DecideFacts DEF FamilyOf
  <2>3. token \in [Tx -> TokenRow] /\ token[Of(r)] \in TokenRow
    BY <2>2 DEF GrantInv, GrantTypeOK
  <2>4. /\ \A u \in Tx \ {r, Of(r)} : token'[u] = token[u]
        /\ token'[r].family = FamilyOf(r)
        /\ token'[Of(r)].family = FamilyOf(r)
    <3>1. [token[Of(r)] EXCEPT !.next = r].family = token[Of(r)].family
      BY <2>3 DEF TokenRow
    <3>2. token' = [token EXCEPT ![Of(r)] = [token[Of(r)] EXCEPT !.next = r],
            ![r] = [family |-> FamilyOf(r), sequence |-> token[Of(r)].sequence + 1, next |-> None]]
      BY <1>4 DEF Rotate
    <3> QED BY <2>2, <2>3, <3>1, <3>2
  <2>5. Exists(f) => token[r].family # f
    BY <2>2 DEF Known, Exists, GrantInv, Rows, CodesAreSpent
  <2> QED BY <2>1, <2>2, <2>4, <2>5 DEF EndedStays
<1>5. ASSUME NEW r \in Tx, Revoke(r) \/ CutGrants(r) PROVE EndedStays(f)
  <2>1. tx[r].found \in SUBSET Tx BY DEF GrantInv, GrantTypeOK, Transaction
  <2> QED BY <1>5, <2>1, RevokingEnds DEF Revoke, CutGrants
<1>6. CASE GrantNext
  <2>1. \/ UNCHANGED <<family, token>>
        \/ \E r \in Tx : Exchange(r) \/ Reuse(r) \/ Rotate(r) \/ Revoke(r) \/ CutGrants(r)
    BY <1>6 DEF GrantNext, IssueCode, ReadCode, ReadToken, FindByToken, FindBySession, FindAll,
                Find, RefuseCode, ReadFamily, RefuseToken, ClaimAccount, HoldCodes, Abort, Expire
  <2> QED BY <1>1, <1>2, <1>3, <1>4, <1>5, <2>1
<1> QED BY <1>1, <1>6 DEF grantVars

\* Revocation is final, also for a rotation that is under way.
THEOREM EndedFamiliesStay == GrantSpec => [][\A f \in Tx : EndedStays(f)]_grantVars
<1>1. GrantInv /\ [GrantNext]_grantVars => [\A f \in Tx : EndedStays(f)]_grantVars
  BY EndedStep
<1> QED BY <1>1, GrantInductive, PTL DEF GrantSpec

\* Of the requests that bring one token one at most has rotated it, and where one was told
\* that its token came again the family has ended.
OneRotation == \A r \in Tx :
  /\ At(r, "rotated") => \A q \in Tx : At(q, "rotated") /\ Of(q) = Of(r) => q = r
  /\ At(r, "reused") => ~(FamilyOf(r) \in LiveFamilies)

\* Of two requests with one token, one at most gets the next.
THEOREM TokensRotateOnce == GrantSpec => []OneRotation
<1>1. GrantInv => OneRotation
  BY DEF GrantInv, AnswersTrue, OneRotation, LiveFamilies
<1> QED BY <1>1, GrantInductive, PTL

-----------------------------------------------------------------------------
\* Revocations bring nothing.
Nameless == \A r \in Tx : tx[r].step \in {"revoke", "claim", "cut"} =>
                             tx[r].of = None /\ tx[r].bound = FALSE

\* Every step keeps that.
LEMMA NamelessKept ==
  ASSUME GrantInv, Nameless, [GrantNext]_grantVars
  PROVE  Nameless'
<1>0. tx \in [Tx -> Transaction] /\ \A r \in Tx : tx[r] \in Transaction
  BY DEF GrantInv, GrantTypeOK
<1>1. CASE UNCHANGED tx BY <1>1 DEF Nameless
<1>2. ASSUME NEW r \in Tx, NEW v, tx' = [tx EXCEPT ![r] = v],
             v.step \in {"revoke", "claim", "cut"} => v.of = None /\ v.bound = FALSE
      PROVE  Nameless'
  BY <1>0, <1>2 DEF Nameless
<1>3. ASSUME NEW r \in Tx, NEW c, NEW bound, ReadCode(r, c, bound) \/ ReadToken(r, c, bound)
      PROVE  Nameless'
  <2>1. CASE ReadCode(r, c, bound)
    <3> DEFINE v == [NoTx EXCEPT !.step = "exchange", !.of = c, !.bound = bound,
                                 !.spent = (code[c] = "consumed")]
    <3>1. tx' = [tx EXCEPT ![r] = v] BY <2>1 DEF ReadCode, Begin
    <3>2. v.step = "exchange" BY DEF NoTx
    <3> HIDE DEF v
    <3> QED BY <1>2, <3>1, <3>2
  <2>2. CASE ReadToken(r, c, bound)
    <3> DEFINE v == [NoTx EXCEPT !.step = "rotate", !.of = c, !.bound = bound,
                                 !.spent = (token[c].next # None)]
    <3>1. tx' = [tx EXCEPT ![r] = v] BY <2>2 DEF ReadToken, Begin
    <3>2. v.step = "rotate" BY DEF NoTx
    <3> HIDE DEF v
    <3> QED BY <1>2, <3>1, <3>2
  <2> QED BY <1>3, <2>1, <2>2
<1>4. ASSUME NEW r \in Tx, NEW F, Find(r, F) PROVE Nameless'
  <2> DEFINE v == [NoTx EXCEPT !.step = "revoke", !.found = F]
  <2>1. tx' = [tx EXCEPT ![r] = v] BY <1>4 DEF Find, Begin
  <2>2. v.of = None /\ v.bound = FALSE BY DEF NoTx
  <2> HIDE DEF v
  <2> QED BY <1>2, <2>1, <2>2
<1>5. ASSUME NEW r \in Tx, ClaimAccount(r) PROVE Nameless'
  <2> DEFINE v == [NoTx EXCEPT !.step = "claim", !.codes = {c \in Code : code[c] # "none"}]
  <2>1. tx' = [tx EXCEPT ![r] = v] BY <1>5 DEF ClaimAccount, Begin
  <2>2. v.of = None /\ v.bound = FALSE BY DEF NoTx
  <2> HIDE DEF v
  <2> QED BY <1>2, <2>1, <2>2
<1>6. ASSUME NEW r \in Tx, HoldCodes(r) PROVE Nameless'
  <2> DEFINE v == [tx[r] EXCEPT !.step = "cut", !.found = {f \in Tx : Exists(f)}]
  <2>1. tx' = [tx EXCEPT ![r] = v] /\ tx[r].step = "claim" BY <1>6 DEF HoldCodes, At
  <2>2. v.of = tx[r].of /\ v.bound = tx[r].bound BY <1>0 DEF Transaction
  <2>3. tx[r].of = None /\ tx[r].bound = FALSE BY <2>1 DEF Nameless
  <2> HIDE DEF v
  <2> QED BY <1>2, <2>1, <2>2, <2>3
<1>7. ASSUME NEW r \in Tx, NEW step \in Answers \cup {"aborted"}, Close(r, step) PROVE Nameless'
  <2>1. tx' = [tx EXCEPT ![r] = [tx[r] EXCEPT !.step = step]] BY <1>7 DEF Close
  <2>2. [tx[r] EXCEPT !.step = step].step = step BY <1>0 DEF Transaction
  <2>3. step \notin {"revoke", "claim", "cut"} BY <1>7 DEF Answers
  <2> QED BY <1>2, <2>1, <2>2, <2>3
<1>8. ASSUME NEW r \in Tx, ReadFamily(r) PROVE Nameless'
  <2> DEFINE v == [tx[r] EXCEPT !.step = "decide", !.revoked = family[FamilyOf(r)].revoked]
  <2>1. tx' = [tx EXCEPT ![r] = v] BY <1>8 DEF ReadFamily
  <2>2. v.step = "decide" BY <1>0 DEF Transaction
  <2> HIDE DEF v
  <2> QED BY <1>2, <2>1, <2>2
<1>9. CASE GrantNext
  <2>0. LiveFamilies \in SUBSET Tx BY DEF LiveFamilies
  <2>1. \/ UNCHANGED tx
        \/ \E r \in Tx, c \in Code \cup Tx, bound \in BOOLEAN : ReadCode(r, c, bound) \/ ReadToken(r, c, bound)
        \/ \E r \in Tx, F \in SUBSET Tx : Find(r, F)
        \/ \E r \in Tx : ClaimAccount(r) \/ HoldCodes(r) \/ ReadFamily(r)
        \/ \E r \in Tx, step \in Answers \cup {"aborted"} : Close(r, step)
    BY <1>9, <2>0 DEF GrantNext, IssueCode, Expire, FindByToken, FindBySession, FindAll, RefuseCode,
                Exchange, RefuseToken, Reuse, Rotate, Revoke, CutGrants, Abort, Answers
  <2> QED BY <1>1, <1>3, <1>4, <1>5, <1>6, <1>7, <1>8, <2>1
<1> QED BY <1>1, <1>9 DEF grantVars

\* What RefreshChain sees.
Used    == {c \in Code : code[c] = "consumed"}
Current == [f \in Tx |-> ChainOf(f, TRUE)]
Spent   == [f \in Tx |-> ChainOf(f, FALSE)]
Told    == [r \in Tx |->
    IF tx[r].step \in Answers
    THEN [result |-> tx[r].step, of |-> Of(r), bound |-> tx[r].bound]
    ELSE [result |-> "none", of |-> None, bound |-> FALSE]]

\* The answers RefreshChain sees change when a request is answered.
LEMMA ToldFacts ==
  ASSUME NEW r \in Tx, tx[r].step \notin Answers,
         \A q \in Tx \ {r} : tx'[q] = tx[q]
  PROVE  /\ Told[r] = Chain!NoAnswer
         /\ tx'[r].step \notin Answers => Told' = Told
         /\ tx'[r].step \in Answers =>
              /\ Told' = [Told EXCEPT ![r] = [result |-> tx'[r].step, of |-> tx'[r].of,
                                              bound |-> tx'[r].bound]]
              /\ Told'[r] # Told[r]
<1>1. Told[r] = Chain!NoAnswer BY DEF Told, Chain!NoAnswer
<1>2. \A q \in Tx \ {r} : Told'[q] = Told[q] BY DEF Told, Of
<1>3. ASSUME tx'[r].step \notin Answers PROVE Told' = Told
  <2>1. Told'[r] = Told[r] BY <1>3 DEF Told
  <2> QED BY <1>2, <2>1 DEF Told
<1>4. ASSUME tx'[r].step \in Answers
      PROVE  /\ Told' = [Told EXCEPT ![r] = [result |-> tx'[r].step, of |-> tx'[r].of,
                                              bound |-> tx'[r].bound]]
             /\ Told'[r] # Told[r]
  <2>1. Told'[r] = [result |-> tx'[r].step, of |-> tx'[r].of, bound |-> tx'[r].bound]
    BY <1>4 DEF Told, Of
  <2>2. Told'[r].result # "none" /\ Told[r].result = "none"
    BY <1>1, <1>4, <2>1 DEF Answers, Chain!NoAnswer
  <2>3. Told' = [Told EXCEPT ![r] = Told'[r]]
    BY <1>2 DEF Told
  <2> QED BY <2>1, <2>2, <2>3
<1> QED BY <1>1, <1>3, <1>4

\* A step of the chain, by the request it answers.
LEMMA ServedStep ==
  ASSUME NEW r \in Tx, Told'[r] # Told[r],
         \/ \E c \in Code : Chain!Granted(r, c) \/ \E bound \in BOOLEAN : Chain!NotGranted(r, c, bound)
         \/ \E f, t \in Tx :
              \/ Chain!Rotated(r, f, t) \/ Chain!Reused(r, f, t)
              \/ \E bound \in BOOLEAN : Chain!NotRotated(r, f, t, bound)
         \/ Chain!End(r)
  PROVE  Chain!CNext
BY DEF Chain!CNext, Chain!Served, Told

\* What RefreshChain does not see.
LEMMA StillChain ==
  ASSUME UNCHANGED <<family, token, lapsed>>, Told' = Told, Used' = Used
  PROVE  UNCHANGED Chain!cVars
BY DEF Chain!cVars, Told, Used, LiveFamilies, Exists, ChainOf

\* The steps that RefreshChain does not see.
LEMMA UnseenChains ==
  ASSUME GrantInv, NEW r \in Tx,
         \/ \E c \in Code, bound \in BOOLEAN : ReadCode(r, c, bound)
         \/ \E t \in Tx, bound \in BOOLEAN : ReadToken(r, t, bound)
         \/ \E F \in SUBSET Tx : Find(r, F)
         \/ ReadFamily(r) \/ ClaimAccount(r) \/ HoldCodes(r) \/ Abort(r)
  PROVE  UNCHANGED Chain!cVars
<1>1. UNCHANGED <<code, family, token, lapsed>> /\ tx[r].step \notin Answers
  BY DEF ReadCode, ReadToken, Find, ReadFamily, ClaimAccount, HoldCodes, Abort, Begin, At,
         Answers, InFlight
<1>2. /\ \A q \in Tx \ {r} : tx'[q] = tx[q]
      /\ tx'[r].step \in {"exchange", "rotate", "revoke", "decide", "claim", "cut", "aborted"}
  <2>1. tx \in [Tx -> Transaction] /\ tx[r] \in Transaction BY DEF GrantInv, GrantTypeOK
  <2>2. CASE \E c \in Code, bound \in BOOLEAN : ReadCode(r, c, bound)
    <3>1. PICK c \in Code, bound \in BOOLEAN : ReadCode(r, c, bound) BY <2>2
    <3>2. tx' = [tx EXCEPT ![r] = [NoTx EXCEPT !.step = "exchange", !.of = c, !.bound = bound,
                                       !.spent = (code[c] = "consumed")]]
      BY <3>1 DEF ReadCode, Begin
    <3> QED BY <2>1, <3>2 DEF NoTx
  <2>3. CASE \E t \in Tx, bound \in BOOLEAN : ReadToken(r, t, bound)
    BY <2>1, <2>3 DEF ReadToken, Begin, NoTx
  <2>4. CASE \E F \in SUBSET Tx : Find(r, F)
    BY <2>1, <2>4 DEF Find, Begin, NoTx
  <2>5. CASE ReadFamily(r) BY <2>1, <2>5 DEF ReadFamily, Transaction
  <2>6. CASE ClaimAccount(r) BY <2>1, <2>6 DEF ClaimAccount, Begin, NoTx
  <2>7. CASE HoldCodes(r) BY <2>1, <2>7 DEF HoldCodes, Transaction
  <2>8. CASE Abort(r) BY <2>1, <2>8 DEF Abort, Close, Transaction
  <2> QED BY <2>2, <2>3, <2>4, <2>5, <2>6, <2>7, <2>8
<1>3. Told' = Told BY <1>1, <1>2, ToldFacts DEF Answers
<1>4. Used' = Used BY <1>1 DEF Used
<1> QED BY <1>1, <1>3, <1>4, StillChain

\* A code that is issued is not used yet.
LEMMA IssueChains ==
  ASSUME GrantInv, NEW c \in Code, IssueCode(c)
  PROVE  UNCHANGED Chain!cVars
<1>1. Used' = Used BY DEF IssueCode, Used, GrantInv, GrantTypeOK
<1>2. Told' = Told BY DEF IssueCode, Told, Of
<1> QED BY <1>1, <1>2, StillChain DEF IssueCode

\* Lifetimes end there as they do here.
LEMMA ExpireChains ==
  ASSUME NEW x \in Code \cup Tx, Expire(x)
  PROVE  Chain!CNext
<1>1. Chain!Late(x)
  BY DEF Expire, Chain!Late, LiveFamilies, Exists, ChainOf, Of
<1> QED BY <1>1 DEF Chain!CNext

\* What follows when a request is answered.
LEMMA Answering ==
  ASSUME GrantInv, NEW r \in Tx, NEW step \in Answers, Close(r, step), tx[r].step \in InFlight
  PROVE  /\ Chain!Answer(r, step, Of(r), tx[r].bound)
         /\ Told'[r] # Told[r]
<1>1. /\ \A q \in Tx \ {r} : tx'[q] = tx[q]
      /\ tx'[r].step = step /\ tx'[r].of = tx[r].of /\ tx'[r].bound = tx[r].bound
  BY Closing
<1>2. tx[r].step \notin Answers BY DEF InFlight, Answers
<1>3. /\ Told[r] = Chain!NoAnswer /\ Told'[r] # Told[r]
      /\ Told' = [Told EXCEPT ![r] = [result |-> step, of |-> Of(r), bound |-> tx[r].bound]]
  BY <1>1, <1>2, ToldFacts DEF Of
<1>4. Chain!Answer(r, step, Of(r), tx[r].bound)
  BY <1>3 DEF Chain!Answer, Told
<1> QED BY <1>3, <1>4

\* What is refused was used, ended, late or not bound to the request.
LEMMA RefusalChains ==
  ASSUME GrantInv, NEW r \in Tx, RefuseCode(r) \/ RefuseToken(r)
  PROVE  Chain!CNext
<1>1. /\ Close(r, "refused") /\ UNCHANGED <<code, family, token, lapsed>>
      /\ tx[r].step \in InFlight
  BY DEF RefuseCode, RefuseToken, At, InFlight
<1>2. /\ Chain!Answer(r, "refused", Of(r), tx[r].bound) /\ Told'[r] # Told[r]
  BY <1>1, Answering DEF Answers
<1>3. UNCHANGED <<Used, LiveFamilies, Current, Spent, lapsed>>
  BY <1>1 DEF Used, LiveFamilies, Exists, Current, Spent, ChainOf
<1>4. tx[r].bound \in BOOLEAN BY DEF GrantInv, GrantTypeOK, Transaction
<1>5. CASE RefuseCode(r)
  <2>1. At(r, "exchange") /\ ~CodeIsGood(r) BY <1>5 DEF RefuseCode
  <2>2. Of(r) \in Code /\ (Of(r) \in Used \cup lapsed \/ ~tx[r].bound)
    BY <2>1, ExchangeFacts DEF CodeIsGood, Used
  <2>3. Chain!NotGranted(r, Of(r), tx[r].bound)
    BY <1>2, <1>3, <2>2 DEF Chain!NotGranted, Used, Current, Spent
  <2> QED BY <1>2, <1>4, <2>2, <2>3, ServedStep
<1>6. CASE RefuseToken(r)
  <2>1. At(r, "decide") /\ ~TokenIsGood(r) BY <1>6 DEF RefuseToken
  <2>2. /\ Of(r) \in Tx /\ FamilyOf(r) \in Tx
        /\ FamilyOf(r) \notin LiveFamilies \/ Of(r) \in lapsed \/ ~tx[r].bound
    BY <2>1, DecideFacts DEF TokenIsGood, LiveFamilies
  <2>3. Of(r) \in Current[FamilyOf(r)] \cup Spent[FamilyOf(r)]
    BY <2>2 DEF Current, Spent, ChainOf, FamilyOf
  <2>4. Chain!NotRotated(r, FamilyOf(r), Of(r), tx[r].bound)
    BY <1>2, <1>3, <2>2, <2>3 DEF Chain!NotRotated, Used, Current, Spent
  <2> QED BY <1>2, <1>4, <2>2, <2>4, ServedStep
<1> QED BY <1>5, <1>6

\* A token reused is one that its live family has rotated.
LEMMA ReuseChains ==
  ASSUME GrantInv, NEW r \in Tx, Reuse(r)
  PROVE  Chain!CNext
<1> DEFINE g == FamilyOf(r)
<1>1. /\ At(r, "decide") /\ ~tx[r].revoked /\ Of(r) \notin lapsed /\ tx[r].bound = TRUE /\ tx[r].spent
      /\ UNCHANGED <<code, token, lapsed>> /\ Close(r, "reused")
      /\ family' = [family EXCEPT ![g].revoked = TRUE]
  BY DEF Reuse, TokenIsGood, GrantInv, GrantTypeOK, Transaction
<1>2. /\ Of(r) \in Tx /\ g \in Tx /\ g \in LiveFamilies /\ token[Of(r)].next # None
  BY <1>1, DecideFacts DEF LiveFamilies
<1>3. Chain!Answer(r, "reused", Of(r), TRUE) /\ Told'[r] # Told[r]
  <2>1. tx[r].step \in InFlight /\ "reused" \in Answers BY <1>1 DEF InFlight, At, Answers
  <2>2. Chain!Answer(r, "reused", Of(r), tx[r].bound) /\ Told'[r] # Told[r]
    BY <1>1, <2>1, Answering
  <2> QED BY <1>1, <2>2 DEF Chain!Answer
<1>4. UNCHANGED <<Used, Current, Spent, lapsed>>
  BY <1>1 DEF Used, Current, Spent, ChainOf
<1>5. LiveFamilies' = LiveFamilies \ {g}
  <2>1. family \in [Tx -> FamilyRow] /\ family[g] \in FamilyRow BY <1>2 DEF GrantInv, GrantTypeOK
  <2>2. [family[g] EXCEPT !.revoked = TRUE].revoked = TRUE BY <2>1 DEF FamilyRow
  <2>3. /\ \A f \in Tx \ {g} : family'[f] = family[f]
        /\ family'[g] = [family[g] EXCEPT !.revoked = TRUE]
    BY <1>1, <1>2, <2>1
  <2> QED BY <2>2, <2>3 DEF LiveFamilies, Exists
<1>6. Of(r) \in Spent[g]
  BY <1>2 DEF Spent, ChainOf, FamilyOf
<1>7. Chain!Reused(r, g, Of(r))
  BY <1>1, <1>2, <1>3, <1>4, <1>5, <1>6 DEF Chain!Reused, Used, Current, Spent
<1> QED BY <1>2, <1>3, <1>7, ServedStep

\* A revocation ends families and closes codes, and does nothing else.
LEMMA EndChains ==
  ASSUME GrantInv, Nameless, NEW r \in Tx, Revoke(r) \/ CutGrants(r)
  PROVE  Chain!CNext
<1>1. /\ tx[r].found \in SUBSET Tx /\ family' = Revoked(tx[r].found)
      /\ UNCHANGED <<token, lapsed>> /\ Close(r, "settled") /\ tx[r].step \in InFlight
  BY DEF Revoke, CutGrants, GrantInv, GrantTypeOK, Transaction, At, InFlight
<1>2. tx[r].of = None /\ tx[r].bound = FALSE
  BY DEF Nameless, Revoke, CutGrants, At
<1>3. Chain!Answer(r, "settled", None, FALSE) /\ Told'[r] # Told[r]
  <2>1. Chain!Answer(r, "settled", Of(r), tx[r].bound) /\ Told'[r] # Told[r]
    BY <1>1, Answering DEF Answers
  <2> QED BY <1>2, <2>1 DEF Of, Chain!Answer
<1>4. UNCHANGED <<Current, Spent, lapsed>>
  BY <1>1 DEF Current, Spent, ChainOf
<1>5. LiveFamilies' \in SUBSET LiveFamilies
  BY <1>1, RevokedRows DEF LiveFamilies, Exists
<1>6. Used \subseteq Used' /\ Used' \in SUBSET Code
  BY DEF Revoke, CutGrants, Used
<1>7. Chain!End(r)
  BY <1>3, <1>4, <1>5, <1>6 DEF Chain!End, Used, Current, Spent
<1> QED BY <1>3, <1>7, ServedStep

\* An exchange uses its code, and begins a family or none.
LEMMA ExchangeChains ==
  ASSUME GrantInv, NEW r \in Tx, Exchange(r)
  PROVE  Chain!CNext
<1>a. PICK c \in Code : c = Of(r) BY ExchangeFacts DEF Exchange
<1>1. /\ At(r, "exchange") /\ ~tx[r].spent /\ c \notin lapsed /\ tx[r].bound = TRUE
      /\ code' = [code EXCEPT ![c] = "consumed"] /\ Close(r, "granted") /\ UNCHANGED lapsed
  BY <1>a DEF Exchange, CodeIsGood, GrantInv, GrantTypeOK, Transaction
<1>2. /\ c \in Code /\ code[c] # "consumed" /\ ~Exists(r) /\ ~Known(r)
      /\ \A u \in Tx : token[u].family # r
  BY <1>a, <1>1, ExchangeFacts
<1>3. Chain!Answer(r, "granted", c, TRUE) /\ Told'[r] # Told[r]
  <2>1. tx[r].step \in InFlight /\ "granted" \in Answers BY <1>1 DEF InFlight, At, Answers
  <2>2. Chain!Answer(r, "granted", c, tx[r].bound) /\ Told'[r] # Told[r]
    BY <1>a, <1>1, <2>1, Answering
  <2> QED BY <1>1, <2>2 DEF Chain!Answer
<1>4. c \notin Used /\ Used' = Used \cup {c}
  BY <1>1, <1>2 DEF Used, GrantInv, GrantTypeOK
<1>5. \/ UNCHANGED <<LiveFamilies, Current>>
      \/ /\ Current[r] = {} /\ Spent[r] = {} /\ LiveFamilies' = LiveFamilies \cup {r}
         /\ Current' = [Current EXCEPT ![r] = {r}]
  <2>1. CASE UNCHANGED <<family, token>>
    BY <2>1 DEF LiveFamilies, Exists, Current, ChainOf
  <2>2. CASE /\ family' = [family EXCEPT ![r] = [code |-> c, revoked |-> FALSE]]
             /\ token' = [token EXCEPT ![r] = [family |-> r, sequence |-> 1, next |-> None]]
    <3>1. /\ \A f \in Tx \ {r} : family'[f] = family[f] /\ token'[f] = token[f]
          /\ family'[r].code = c /\ family'[r].revoked = FALSE /\ c # None
          /\ token'[r].family = r /\ token'[r].next = None
      BY <1>2, <2>2 DEF GrantInv, GrantTypeOK
    <3>2. LiveFamilies' = LiveFamilies \cup {r} BY <3>1 DEF LiveFamilies, Exists
    <3>3. Current[r] = {} /\ Spent[r] = {} BY <1>2 DEF Current, Spent, ChainOf
    <3>4. ChainOf(r, TRUE)' = {r} BY <1>2, <3>1 DEF ChainOf
    <3>5. \A f \in Tx \ {r} : ChainOf(f, TRUE)' = ChainOf(f, TRUE)
      BY <1>2, <3>1 DEF ChainOf, Known
    <3>6. Current' = [Current EXCEPT ![r] = {r}] BY <3>4, <3>5 DEF Current
    <3> QED BY <3>2, <3>3, <3>6
  <2> QED BY <1>a, <2>1, <2>2 DEF Exchange
<1>6. Spent' = Spent
  <2>1. CASE UNCHANGED token BY <2>1 DEF Spent, ChainOf
  <2>2. CASE token' = [token EXCEPT ![r] = [family |-> r, sequence |-> 1, next |-> None]]
    <3>1. /\ \A f \in Tx \ {r} : token'[f] = token[f]
          /\ token'[r].family = r /\ token'[r].next = None
      BY <2>2 DEF GrantInv, GrantTypeOK
    <3>2. \A f \in Tx : ChainOf(f, FALSE)' = ChainOf(f, FALSE)
      BY <1>2, <3>1 DEF ChainOf, Known
    <3> QED BY <3>2 DEF Spent
  <2> QED BY <1>a, <2>1, <2>2 DEF Exchange
<1>7. Chain!Granted(r, c)
  <2>1. CASE UNCHANGED <<LiveFamilies, Current>>
    BY <1>1, <1>3, <1>4, <1>6, <2>1 DEF Chain!Granted, Used, Current, Spent
  <2>2. CASE /\ Current[r] = {} /\ Spent[r] = {} /\ LiveFamilies' = LiveFamilies \cup {r}
             /\ Current' = [Current EXCEPT ![r] = {r}]
    BY <1>1, <1>3, <1>4, <1>6, <2>2 DEF Chain!Granted, Used, Current, Spent
  <2> QED BY <1>5, <2>1, <2>2
<1>8. \E d \in Code : Chain!Granted(r, d) BY <1>2, <1>7
<1> QED BY <1>3, <1>8, ServedStep

\* A rotation puts another token in the place of the current one of a live family.
LEMMA RotateChains ==
  ASSUME GrantInv, NEW r \in Tx, Rotate(r)
  PROVE  Chain!CNext
<1>a. PICK t \in Tx, g \in Tx : t = Of(r) /\ g = FamilyOf(r)
  BY DecideFacts DEF Rotate
<1>1. /\ At(r, "decide") /\ ~tx[r].revoked /\ t \notin lapsed /\ tx[r].bound = TRUE /\ ~tx[r].spent
      /\ Close(r, "rotated") /\ UNCHANGED <<code, family, lapsed>>
  BY <1>a DEF Rotate, TokenIsGood, GrantInv, GrantTypeOK, Transaction
<1>2. /\ t \in Tx /\ Known(t) /\ g \in Tx /\ Exists(g) /\ g \in LiveFamilies /\ g # None
      /\ token[t].family = g /\ token[t].next = None /\ t # r /\ ~Known(r)
  <2>1. /\ t \in Tx /\ Known(t) /\ g \in Tx /\ Exists(g) /\ ~family[g].revoked
        /\ token[t].next = None /\ ~Known(r)
    BY <1>a, <1>1, DecideFacts
  <2> QED BY <1>a, <2>1 DEF LiveFamilies, FamilyOf
<1>3. Chain!Answer(r, "rotated", t, TRUE) /\ Told'[r] # Told[r]
  <2>1. tx[r].step \in InFlight /\ "rotated" \in Answers BY <1>1 DEF InFlight, At, Answers
  <2>2. Chain!Answer(r, "rotated", t, tx[r].bound) /\ Told'[r] # Told[r]
    BY <1>a, <1>1, <2>1, Answering
  <2> QED BY <1>1, <2>2 DEF Chain!Answer
<1>4. /\ \A u \in Tx \ {r, t} : token'[u] = token[u]
      /\ token'[t].family = g /\ token'[t].next = r
      /\ token'[r].family = g /\ token'[r].next = None
  <2>1. token \in [Tx -> TokenRow] /\ token[t] \in TokenRow
    BY <1>2 DEF GrantInv, GrantTypeOK
  <2>2. /\ [token[t] EXCEPT !.next = r].family = token[t].family
        /\ [token[t] EXCEPT !.next = r].next = r
    BY <2>1 DEF TokenRow
  <2>3. token' = [token EXCEPT ![t] = [token[t] EXCEPT !.next = r],
                  ![r] = [family |-> g, sequence |-> token[t].sequence + 1, next |-> None]]
    BY <1>a DEF Rotate
  <2> QED BY <1>2, <2>1, <2>2, <2>3
<1>5. /\ ChainOf(g, TRUE) = {t} /\ ChainOf(g, TRUE)' = {r}
      /\ ChainOf(g, FALSE)' = ChainOf(g, FALSE) \cup {t}
  <2>1. \A u \in Tx : token[u].family = g /\ u # t => token[u].next # None
    BY <1>2 DEF GrantInv, Rows, OneOpen
  <2>2. token[r].family # g BY <1>2 DEF Known
  <2>3. ChainOf(g, TRUE) = {t} BY <1>2, <2>1 DEF ChainOf
  <2>4. ChainOf(g, TRUE)' = {r} BY <1>2, <1>4, <2>1 DEF ChainOf
  <2>5. ChainOf(g, FALSE)' = ChainOf(g, FALSE) \cup {t}
    <3>1. \A u \in Tx : u \in ChainOf(g, FALSE)' <=> u \in ChainOf(g, FALSE) \cup {t}
      BY <1>2, <1>4, <2>2 DEF ChainOf
    <3>2. ChainOf(g, FALSE)' \subseteq Tx /\ ChainOf(g, FALSE) \subseteq Tx BY DEF ChainOf
    <3> QED BY <1>2, <3>1, <3>2
  <2> QED BY <2>3, <2>4, <2>5
<1>6. \A f \in Tx \ {g} : /\ ChainOf(f, TRUE)' = ChainOf(f, TRUE)
                         /\ ChainOf(f, FALSE)' = ChainOf(f, FALSE)
  <2>1. \A f \in Tx : token[r].family # f BY <1>2 DEF Known
  <2> QED BY <1>2, <1>4, <2>1 DEF ChainOf
<1>7. /\ Current[g] = {t} /\ Current' = [Current EXCEPT ![g] = {r}]
      /\ Spent' = [Spent EXCEPT ![g] = @ \cup {t}]
  <2>1. Current[g] = {t} BY <1>2, <1>5 DEF Current
  <2>2. Current' = [Current EXCEPT ![g] = {r}] BY <1>2, <1>5, <1>6 DEF Current
  <2>3. Spent' = [Spent EXCEPT ![g] = @ \cup {t}]
    <3>1. Spent[g] = ChainOf(g, FALSE) BY <1>2 DEF Spent
    <3> QED BY <1>2, <1>5, <1>6, <3>1 DEF Spent
  <2> QED BY <2>1, <2>2, <2>3
<1>8. UNCHANGED <<Used, LiveFamilies, lapsed>>
  BY <1>1 DEF Used, LiveFamilies, Exists
<1>9. Chain!Rotated(r, g, t)
  BY <1>1, <1>2, <1>3, <1>7, <1>8 DEF Chain!Rotated, Used, Current, Spent
<1> QED BY <1>2, <1>3, <1>9, ServedStep

\* Nothing is seen at first.
LEMMA ChainInitial == GrantInit => Chain!CInit /\ Nameless
<1> SUFFICES ASSUME GrantInit PROVE Chain!CInit /\ Nameless OBVIOUS
<1>1. \A r \in Tx : tx[r].step = "new" /\ ~Exists(r) /\ token[r].family = None
  BY DEF GrantInit, NoTx, NoFamily, NoToken, Exists
<1>2. Used = {} /\ LiveFamilies = {} BY <1>1 DEF GrantInit, Used, LiveFamilies
<1>3. \A f \in Tx : ChainOf(f, TRUE) = {} /\ ChainOf(f, FALSE) = {}
  BY <1>1 DEF ChainOf
<1>4. \A r \in Tx : Told[r] = Chain!NoAnswer
  BY <1>1 DEF Told, Chain!NoAnswer, Answers
<1>5. lapsed = {} BY DEF GrantInit
<1> QED BY <1>1, <1>2, <1>3, <1>4, <1>5 DEF Chain!CInit, Used, Told, Nameless

\* The transactions and row locks of RefreshTokens implement RefreshChain: requests are
\* answered as if each were served at one instant.
THEOREM TokensSerialize == GrantSpec => Serializes
<1>1. GrantInv /\ Nameless /\ [GrantNext]_grantVars => [Chain!CNext]_(Chain!cVars)
  <2> SUFFICES ASSUME GrantInv, Nameless, [GrantNext]_grantVars
               PROVE  [Chain!CNext]_(Chain!cVars)
    OBVIOUS
  <2>1. CASE UNCHANGED grantVars
    BY <2>1, StillChain DEF grantVars, Told, Used, Of
  <2>2. CASE \E c \in Code : IssueCode(c) BY <2>2, IssueChains
  <2>3. CASE \E x \in Code \cup Tx : Expire(x) BY <2>3, ExpireChains
  <2>4. CASE \E r \in Tx :
               \/ \E c \in Code, bound \in BOOLEAN : ReadCode(r, c, bound)
               \/ \E t \in Tx, bound \in BOOLEAN : ReadToken(r, t, bound)
               \/ \E F \in SUBSET Tx : Find(r, F)
               \/ ReadFamily(r) \/ ClaimAccount(r) \/ HoldCodes(r) \/ Abort(r)
    BY <2>4, UnseenChains
  <2>5. CASE \E r \in Tx : \/ RefuseCode(r) \/ RefuseToken(r) \/ Reuse(r) \/ Exchange(r)
                           \/ Rotate(r) \/ Revoke(r) \/ CutGrants(r)
    BY <2>5, RefusalChains, ReuseChains, ExchangeChains, RotateChains, EndChains
  <2>6. CASE GrantNext
    <3>1. LiveFamilies \in SUBSET Tx BY DEF LiveFamilies
    <3> QED BY <2>2, <2>3, <2>4, <2>5, <2>6, <3>1
            DEF GrantNext, FindByToken, FindBySession, FindAll
  <2> QED BY <2>1, <2>6
<1>2. GrantInv /\ Nameless /\ [GrantNext]_grantVars => Nameless' BY NamelessKept
<1> QED BY <1>1, <1>2, ChainInitial, GrantInductive, PTL DEF GrantSpec, Serializes, Chain!CSpec
=============================================================================
