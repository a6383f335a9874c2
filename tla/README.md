# Verification of the workspace backend

TLA+ specifications, TLC configurations and TLAPS proofs for the backend of the
career workspace (`src/src/backend`, with its migrations in `src/alembic`). They
are about what is hard to get right there and hard to test: work that is handed
from HTTP requests to background workers through a database table, survives
crashes, retries and stale leases, calls a model, a tool or a store between two
transactions, and waits for people.

`PROJECT.json` lists the components, runs, mutants, findings, hazards and theorems,
and maps every definition to the lines it models.

## 1. Inventory

Three executables share the tree: `backend` (the API and its workers, layered as
domain / application / ports / infrastructure / api), `dashboard` (reads only) and
`dbctl` (administration). Everything below is `backend`.

| Component | State it keeps | Operations | What makes it correct |
|---|---|---|---|
| Unified outbox dispatch (`application/outbox_dispatch.py`, migrations 0023, 0027) | `agent.outbox_events`: status, attempt, lease token, lease expiry, next attempt | insert, claim a batch, renew, complete, retry or fail, purge; the loop `run_once` with an exhaustion hook | a row leaves the queue only after the domain resources it owns are closed; one owner can settle it; all work is eventually settled |
| Agent Run, ToolApproval, Proposal continuation (`domain/agent_v2.py`, `application/agent_v2.py`, `agent_worker.py`) | Run, Job, approval, Messages, Conversation revision, execution grant | create, cancel, decide, execute, continue, run a tool, compensate | Run and Job never part, one answer, no tool call without consent, no Run left behind |
| Platform Job, artifacts, SSE journal, audit (`application/platform.py`) | Job status, revision, progress; event journal | create, cancel with compensation, replay | a Job settles once; cancelled, it has done nothing and will do nothing; queued or running, it has an event that will finish it |
| Resume, proposals and jobs (`application/resumes.py`, `resume_worker.py`) | Resume revisions, operation ledger, Proposals, Jobs | apply operations with rebase, decide, import, restore, render | an operation is applied once; a decision applies to the revision it was made for; a restore never overwrites a later edit |
| Upload sessions (`domain/upload_sessions.py`, `application/knowledge.py`) | session, object, completion attempts | put, complete, fail, claim, release | a verdict is final; the content becomes one Resume or one Knowledge version |
| Knowledge sources, connections (`application/knowledge.py`, `knowledge_worker.py`) | sources, versions, connections, Jobs | revise, add a version, ingest, sync, delete, revoke | what was erased never comes back into use; an outdated ingest never publishes over a newer state |
| Interview sessions (`application/interview_v2.py`, `interview_worker.py`) | session, lease, transcript, end and report Jobs | connect, speak, end, report, cancel | ending and its Job agree; one report, of the whole transcript |
| V2 idempotency (`infrastructure/v2_idempotency.py`) | receipts | claim, execute, replay, prepare then commit | the command and its receipt commit together; the same key never runs twice |
| Identity e-mail outbox (`infrastructure/identity_email_outbox.py`) | encrypted mail rows, hourly budgets | enqueue, claim, acknowledge, retry, erase a recipient | a mail marked sent was sent under that claim; nothing is erased under a running send |
| Account deletion (`application/account_deletion.py`, migration 0025) | requests, frozen disposition, erasure items | request, cancel, claim, erase, finalize | a verdict says what was erased; every claimed deletion ends |
| Workspaces and members (`application/access.py`, `domain/workspaces.py`) | Workspace, memberships | update, remove, join, delete | a live Workspace has an owner |
| OAuth (`application/oauth.py`, `infrastructure/oauth.py`) | authorization codes, refresh-token families and their tokens | issue, exchange, rotate, revoke | a code is exchanged once; a token is rotated once, and sent again ends its family; a family that ended gets no token |
| Maintenance | retention | purge | with the component whose rows it purges |
| Hosted identity, providers, sandboxes, observability, HTTP API, V1 services, dashboard, dbctl | see `PROJECT.json` | | not modelled: single-row updates, pure I/O, cryptography or legacy |

**How they interact.** A request changes its aggregate and inserts *work* and
*notification* rows into the outbox in one transaction. Four dispatchers (agent,
interview, knowledge, resume) each claim the work event types of their own
allowlist and call their handler; a notification is published by the transaction
that inserts it and only feeds the SSE replay. A handler works in short
transactions and does its external work (model, tool, conversion) between them,
holding nothing but the lease, which it never checks: the revisions it compares at
its commit are the only thing that separates it from another worker with the same
event. At the last attempt the dispatcher calls the handler's exhaustion hook,
which closes the domain resources, before the row becomes `failed`. Components
also meet through shared rows: an Agent Run and its Job move in the same
transaction; cancelling a Job reaches into the Run, source, upload or session it
drives; a decided Resume Proposal emits the event that continues the Run; imports
and Knowledge compete for one upload; the deletion of an account waits for the mail
outbox, changes who owns a Workspace, and closes codes and token families that
requests may be exchanging or rotating.

**What is hard.** Stale workers that finish after their lease lapsed; batches
whose later claims lapse while earlier ones are handled; crashes between commit
and acknowledgement; events delivered again after a later event moved the
aggregate on; four ways to end one wait; authorisation that changes during a model
call; external effects that cannot be undone when their Job is cancelled; compensation
that raises. Section 9 lists what the models found; the hazards
are in `PROJECT.json`, each at its line.

## 2. Plan

In order of importance; items 1 to 11 exist.

1. `WorkDelivery`, `OutboxDispatch`, `OutboxDispatchProofs`: the queue everything
   else runs on, with the proof of its safety properties and of its refinement.
2. `AgentRunLifecycle`, `AgentRun`: the richest handler, with people, a model and a
   tool between its transactions.
3. `MCOutboxDispatch`, and the instances that need only a `.cfg`, as `AgentRun`.
4. `AgentRunProofs`: every safety property of `AgentRun` and its refinement of
   `AgentRunLifecycle`, for any number of workers, attempts, faults and edits.
5. `CommandReceipts`, `IdempotentCommand`, `IdempotentCommandProofs`: receipts,
   advisory locks, preparation and retention, with every property proved.
6. `UnifiedJob`, `JobWork`: what a Job promises whatever its domain, and what the
   domains share; on them `KnowledgeJobs`, `ResumeJobs` (with `UploadSession`) and
   `InterviewJobs`, which all implement `UnifiedJob`.
7. `JobWorkProofs`, `KnowledgeJobsProofs`, `InterviewJobsProofs`, and `ResumeProofs` for the
   Jobs and the operations of a Resume.
8. `MailDelivery`, what the mail outbox promises, and `IdentityMail`, which implements it, with
   recipient erasure.
9. `AccountErasure`, what a deletion promises, and `AccountDeletion`, which implements it:
   the executor against the members of a Workspace. `IdentityProofs` for items 8 and 9.
10. `ResumeOperations`: the operations of a Resume, their ledger and their rebase, against
    a reference order.
11. `RefreshChain`, what the token endpoint promises, and `RefreshTokens`, the transactions and
    row locks that implement it. `IdentityProofs` for this one too.
12. Left: the process-local rate limiter of the model providers; the retention of batch
    receipts; more than one Resume in `ResumeOperations`.

One run per component with two workers, with liveness where the code promises progress
and no Job cap says it already, and a violation run only for a disagreement with what
the repository says of itself.

## 3. The outbox

`OutboxDispatch` is the table and the loops. `row[e]` holds the columns that matter
(`status`, `attempt`, `token`, and three facts time brings about: `due` for
`next_attempt_at`, `lapsed` for `lease_expires_at`, `capped` for a reclaim at the
attempt cap). `worker[w]` holds the locals of
`run_once`: the batch still to do, the attempt number *as claimed*, the token and
where it stands in handling one claim. `effect[e]` stands for the domain: open,
done by the handler, or compensated by the hook, whose contracts (commit at most
once, be idempotent) are those of `application/ports/outbox_dispatch.py`.

| Action | Code |
|---|---|
| `Enqueue` | `classify_outbox_event`, `initial_outbox_lifecycle` |
| `Claim` | `claim_outbox_events` as migration 0027 leaves it: lapsed leases first, a full batch, no further attempt at the cap |
| `HandlerCommits`, `HandlerReturns`, `HandlerFails` | one claim inside `run_once`, failing before or after its commit |
| `HookCommits`, `HookReturns`, `HookRaises` | `_retry` at the cap; an exception of the hook leaves `run_once` |
| `Renew`, `LeaseLost`, `LeaseExpires`, `Stall` | `_run_with_renewal`; only the claim being handled is renewed |
| `Complete`, `Retry` | the CAS functions on event and token |
| `Crash`, `AbortBatch` | process death, shutdown, storage errors: the rest of the batch stays leased |
| `Purge` | `purge_expired_outbox_events` |

`WorkDelivery` says what the table is for: an item accepted is open until it is
delivered or abandoned, then may be forgotten, and never comes back. `Implements`
is the refinement, checked by TLC and proved.

Not modelled: the branch for a missing handler, which `composition.py` never
builds; the back-off arithmetic of `_retry_delay` (a row simply becomes due again).

## 4. The Agent Run

`AgentRun` has one Run, because Runs meet only in their Conversation, whose edits
by others are the action `UpdateConversation`. Each action is one transaction or
one external call, and two workers interleave between any two of them. The outbox
row of each of the three work events is `event[e]` (state, attempt, holder and the
revisions in its payload): what section 3 proves of the dispatcher is assumed of
it, with lease loss, reclaim at the cap and late settlement kept.

| Action | Code |
|---|---|
| `CreateAgentRun`, `CancelAgentRun`, `DecideToolApproval` | the requests of `application/agent_v2.py` |
| `CancelJob` | `cancel_job` with `_cancel_agent_run` |
| `DecideProposal`, `EditResume` | `decide_proposal` (any editor may decide) and a later edit of the Resume |
| `UpdateConversation` | edits, archiving and new Messages by users |
| `PrepareExecution`, `RecordPreflightFailure` | first transaction of `execute_run`, with its hand-off rules for redelivered events |
| `CallModel`, `CallTool` | the provider and tool ports: any outcome they may return |
| `CommitRefused`, `CommitCompletion`, `CommitToolApproval`, `CommitProposalInterruption`, `RecordRunFailure` | second transaction, its refusals and the failure transaction |
| `PrepareToolDecision`, `RecordTool` | `execute_approved_tool` |
| `PrepareProposalContinuation`, `RecordContinuationFailure` | `resume_after_proposal_decision` |
| `FailExhausted`, `HookRaises` | `on_exhausted` |
| `Claim`, `Complete`, `Retry`, `LeaseExpires`, `LeaseLost`, `Crash`, `StorageError` | the dispatcher around it |

The model follows the PostgreSQL adapters. That matters once: `save_run` there does
not write the grant, so `run.grant` never changes after creation.

What is abstracted: a grant is the Conversation revision in it; a Knowledge or
policy change during a model call has the same effect as an edit. An answer the
commit would reject (an unregistered tool, an unusable draft) counts as a failed
call. Message texts, prompts, usage and tool traces are left out. Today's
`composition.py` wires an empty tool registry, so `CommitToolApproval` cannot
happen in that deployment; the `Outcome` constant keeps it in the model because
the handler, the approval endpoint and the tool port are all there.

`AgentRunLifecycle` is what a user is promised: at most one answer, no tool call
without consent, refusal means no answer, whoever closes a Run that is asking
closes the question. `AgentRun` implements it (`Implements`).

## 5. The idempotency receipts

`IdempotentCommand` is the table of receipts and the requests that pass through
`AtomicPostgresIdempotencyExecutor`. `rows[s]` is the committed row of a scope,
`held[k]` the advisory locks, `local[c]` the locals of one request *and* the writes
of its open transaction, which is why `Abort` (a conflict, a cancellation, a crash, a
lost connection) only has to forget them. `settled` and `answer` are the
world outside: commands committed, and the last response that arrived.

| Action | Code |
|---|---|
| `Execute` | `execute`: the envelope and its clock, before the lock |
| `Coordinate`, `PreflightFree`, `PreflightReplay` | `execute_prepared`: the session lock and the look for a receipt |
| `Prepare`, `LoseSession`, `StrayPrepare` | the external preparation, which PostgreSQL does not wait for: when the connection is lost the lock is free and `prepare` still runs |
| `Enter`, `Claim`, `ClaimReplay` | `_execute_in_current_envelope`, `_claim_in_session` |
| `Operate`, `Complete`, `Commit` | the command, its receipt, and the end of the transaction with both |
| `Abort` | every other end of a request |
| `Purge`, `Tick` | `maintain_api_v2_idempotency_receipts`; time |

A body stands for the request fingerprint. A command is its outcome: `ok`, or a domain
problem, whose units of work rolled back to their savepoint and which is itself the
response. A refused request (key reused, in progress) changes nothing and is no
action. Releasing a lock and sending an answer are part of the commit, which may or
may not reach the client. Different scopes may share a lock key (it is a 64-bit
digest). Rows left `pending` by earlier releases may be there from the start.

Left out: `InMemoryIdempotencyExecutor` (development only; it leaves a failed command
pending by design), the public `claim` and `complete` of the store, which nothing
calls, and the loser of `on_conflict_do_nothing`, which cannot happen under the lock.

`CommandReceipts` is the promise without any of this: a command settles once, its
receipt answers only the request that was settled, and is forgotten when its
retention is over. `IdempotentCommand` implements it (`Implements`).

## 5a. The Jobs of the domains

Imports, restores, renders, ingests, syncs, deletions, revocations, interview ends and
reports are all Jobs: a row, an event that drives it, a handler that works in two
transactions around an external effect, and `DELETE /jobs/{id}`. Their domains differ
in what fences a handler from the next one, and in what a cancellation must give back.

`UnifiedJob` is what all of them promise: a Job acts only after it was started, settles
once, a cancelled one never acted and never will, and an unsettled one keeps its event.
`JobWork` holds what they share, as operators the domain modules build their actions
from:

| Part of `JobWork` | Code |
|---|---|
| `job`, `cancel`, `ReadForCancel`, `Swaps`, `Withdrawn` | the row, and `cancel_job`: it reads the Job, locks the aggregate, then reads the Job *for update*, but gets the object it read first, so only the compare-and-swap on the revision sees what happened in between |
| `delivery`, `Receives`, `Count`, `AcknowledgeAtOnce`, `Spent` | the event. Section 3 proves what is used of it; a lapsed lease means that the next claim finds the last handler still running, and an acknowledgement may be lost |
| `worker`, `Take`, `Release`, `HoldsJob` | a handler between its transactions; it may end anywhere without a trace |
| `performed` | Jobs whose external effect, or published result, is real |

`KnowledgeJobs` is one source (file or remote) or one Connection. `target` is its row,
`version` the version rows, `edits` counts what users do besides Jobs.

| Action | Code |
|---|---|
| `Revise`, `AllocateVersion`, `RequestProcessing`, `RequestRemoval` | the requests of `application/knowledge.py` |
| `ClaimNothing`, `Claim` | `claim`: superseded, replayed, refused or taken, with both revisions advanced to fence the last handler |
| `Perform` | credentials revoked, objects erased, outside any transaction |
| `CompleteProcessing`, `CompleteRemoval`, `ReturnLate`, `Fail`, `Raise` | the second transaction and its alternatives |
| `Exhaust` | `fail_exhausted`, from the Job's columns alone |
| `Cancel` | `cancel_job` with `synchronize_cancellation` |

`ResumeJobs` is one Resume, a sequence of what made each revision, with one upload
(`UploadSession`). `EditResume` stands for everything that makes a revision besides a
restore. A Job delivered again keeps its revision, so two handlers of one Job are told
apart by nothing until one settles it; a restore is also compared with the revision it
named. `UploadSession` has the signed `Put`, overlapping completion attempts (`Begin`,
`Scan`, `RecordFailure`, `CommitCompletion`, `Abandon`), and `ClaimContent`, for which
imports and Knowledge compete and which a cancelled import undoes.

`ResumeOperations` opens what `EditResume` stands for: `history` holds the snapshot and
the change targets of each revision, `ledger` what was applied under each operation id,
`proposal` a Proposal, and `made` (seen only by the properties) the revision each batch
was put together on. Every request locks the Resume and is one step.

| Definition | Code |
|---|---|
| `Possible`, `Result`, `WellFormed` | `_apply_operation` with its helpers, and the checks of `ResumeDocument` |
| `Targets`, `Overlaps`, `RebaseIsSafe` | `_operation_targets`, `ChangeTarget.overlaps`, `_ensure_rebase_is_safe` |
| `ApplyBatch`, `Fresh`, `Reused` | `apply_batch`: dedupe, rebase, apply, all or nothing |
| `ApplyOperations`, `UpdateMetadata`, `Restore`, `Propose`, `DecideProposal`, `RejectProposal` | what makes a revision, and what is decided against one |

A document is its title, template, template settings and sections with their items; one
title stands for all the fields of an entity. `RebaseCommutes` checks the comparison of
targets against a reference order: a batch let through late must give the document it
would have given in time, with what was done meanwhile done after it. It does not for the
pairs that `Missed` names (section 9); TLC finds a counterexample for each when it is
taken out.

`InterviewJobs` is one session with its realtime connections (`Issue`,
`CommitConnection`: a grant is issued between two transactions), its input
(`MediaStarted`, `Utter`), the request that ends it and the report requests. A report
Job gains a revision whenever it is taken up or reports progress; an end Job does not,
and its media are finalized outside any transaction (`Finalize`). `Conflict`, `GiveUp`
and `Exhaust` are the three ways to close a Job that another handler may still hold.

Abstracted: texts, indexes, templates, rubrics and segments are at most a digest or a
number; a deadline may have passed whenever the code could find that it has; quotas and
authorization only refuse.

## 5b. The mail outbox

`IdentityMail` is the mail of one recipient, because erasure is by recipient and nothing
else relates two rows but the batch. `row[m]` is the row; `worker[w]` is `run_once` with
the messages still to do and their attempt numbers; a lease is named by message and
attempt number, `ended` are the leases whose time is over, and `accepted` the claims
under which SMTP took the message.

| Action | Code |
|---|---|
| `Enqueue` | `enqueue`, in the transaction of the sign-in step; the hourly budget only refuses |
| `ClaimBatch` | `claim`: `FOR UPDATE SKIP LOCKED`, due or lapsed rows, at most a batch |
| `Send`, `Fail` | decryption and SMTP, outside any transaction; an error may follow acceptance |
| `AcknowledgeSuccess`, `AcknowledgementLost`, `AcknowledgeFailure` | the acknowledgements, which compare owner and attempt and never the time; one that raises is taken for a transport failure |
| `Die`, `LeaseEnds`, `BecomeDue` | process death, time |
| `Purge`, `Erase` | `purge_retained`; `erase_recipient`, refused while a lease is live |

`MailDelivery` is its promise without leases, attempts and workers: a message is mailed
only after a worker was given it, recorded as sent only if SMTP took it, and settled once;
what is forgotten or erased does not come back; a recipient's mail is erased whole, and
only when nobody holds any of it. `DeliversMail` maps a pending or leased row to an open
message, a row with an attempt to one handed out, a lease whose time is not over to one
held, and the first components of `accepted` to those taken. What it does not promise, and
the model shows by reaching it: a message may be mailed after its erasure, by a worker
that outlived its lease; it may be sent twice, and one that SMTP accepted may be recorded
as dead. Left out: encryption, the 1000-attempt constraint and the bound of 1000 rows per
erasure.

## 5c. Account deletion

`AccountDeletion` is one Workspace, its members, and those of them who delete their
accounts. An executor `exec[e]` is one claim with its token; `item` are the erasure
items, `uploads` and `secrets` what they erase outside the database.

| Action | Code |
|---|---|
| `AskDeletion`, `ReadForCancel`, `Cancel` | `application/access.py`; both rows are saved only as read |
| `UpdateMember`, `RemoveMember`, `Join`, `DeleteWorkspace` | the members meanwhile; they wait for the rows an erasure has locked |
| `Exhaust`, `Claim` | `claim_due_account_deletions`: the disposition is frozen by the first claim that finds one |
| `ClaimItems`, `EraseObject`, `CompleteItem`, `RetryItem`, `AfterItems` | `_erase_external_state`, item by item, and the claim given back after progress |
| `EraseRows` | `erase_account_for_deletion`: claim and items checked, then all of it, unless the Workspace is shared; of a shared one the check for an active collaborator (migration 0025, 1286) and the demotion (1296) |
| `FindHeirs` | is there an active owner (1306); if not, the active collaborators (1313) |
| `LockHeir` | `FOR UPDATE` of the first that is still active when the lock is granted, or nobody (1327) |
| `CommitErasure` | its role (1328), the rows of the user, the commit |
| `Finalize` | `finalize_account_deletion`, a transaction of its own |
| `Lapse`, `Crash` | leases end, executors die |

The erasure of a shared Workspace is a transaction of several READ COMMITTED statements
that lock the request, the row of the user and that of the successor, but not the
Workspace. So it is a step per statement that reads what members change: each sees what
has been committed by then, and what it writes is seen when it commits (`exec[e]` holds
what it has found, `Locked` its row locks). A wait for a lock ends with the lock, or with
the lock timeout, which spends the claim (`Waits`). The two reads of `FindHeirs` are one
step, and so are the check and the lock of `EraseRows`: what others may do between the two
they can as well do before or after both. The members' commands lock the
Workspace and are one step; one that counts the owners before the erasure commits and is
saved after it ends as if it had come first.

Abstracted: which candidate comes first, admins before the rest, is left open; a claim is
of one request and an item batch of one item; an item lease never outlives its claim and
ends early only as a crash would; a user asks once; waiting for mail on its way is a free
choice; executors are alike, so the first idle one claims.
What the database erasure clears besides account and membership is left out.

`AccountErasure` is what all this promises, with no claim, lease, item, executor or
member in it. A user who may still withdraw has lost nothing. A deletion that began ends
once, completed or failed, and its user is never active again. What is outside the
database goes before the rows that point to it: the credential before the account, the
files when the Workspace is out of use and before it is wiped. A completed deletion has
left neither account nor credential. One thing it does not promise, because the code
does not: an executor that has lost its claim may still be deleting an object when the
request has failed, so storage and vault change after the verdict, though only towards
nothing. The mapping is the identity but for the status of a request, which is a field
of its row. The property of the run is `ErasesAsPromised`, every step one of
`AccountErasure` or a stutter, since the run does not start from `Init`; the proof adds
`Init` and has the whole implementation.

## 5d. Codes and refresh tokens

`RefreshTokens` is the authorization codes, token families and tokens of one account. A
request is one transaction, but not one step: it reads, locks, decides on what it has read,
and writes when it commits. `tx[r]` is where it stands and what it has read; the rows it
inserts bear its name, since ids are drawn for each request. `code[c]`, `family[r]` and
`token[r]` are the committed rows. The row locks are not a variable: who holds what follows
from where the transactions stand (`CodeFree`, `TokenFree`, `FamilyFree`).

| Action | Code |
|---|---|
| `IssueCode` | `issue_authorization_code` |
| `ReadCode`, `RefuseCode`, `Exchange` | `exchange_authorization_code`, which locks the code |
| `ReadToken`, `ReadFamily`, `RefuseToken`, `Reuse`, `Rotate` | `rotate_refresh_token`, which locks the token, then its family; reuse commits, and raises after that |
| `FindByToken`, `FindBySession`, `FindAll`, `Revoke` | `revoke_refresh_token`, `revoke_login_session`, `replace_password_and_revoke_sessions`: families read without a lock, written at the flush |
| `ClaimAccount`, `HoldCodes`, `CutGrants` | the claim of a deletion (migration 0025): the codes it sees, the locks on them, the families it sees after that |
| `Abort` | the process dies, or a lock is waited for too long |
| `Expire` | time |

Which client, redirect URI and verifier a request brings, and whether a grant is older than
the origin cutover, is one fact (`bound`). Any request may bring any token again.

`RefreshChain` has no transaction and no lock: each request is answered at one instant. A
family has one current token and those that were rotated; a rotation needs the current one,
a rotated one ends the family. `Serializes` maps consumed codes to those used, families not
revoked to those live, and a transaction to its answer. It promises nothing of revocation
but that it only ends families and closes codes: which ones is `CutIsComplete`, for the
claim. Revoking a session or replacing a password ends the families there are; the codes
issued in that session are not looked at, in the code as in the model.

Left out: the checks of `begin_authorization`, token formats and signatures, revoked access
tokens, the rows of sessions (so a revocation may be repeated), and the in-memory
repository, which has no transactions.

## 6. Runs, bounds and fairness

| Run | Question | Bounds | Result |
|---|---|---|---|
| `outbox_dispatch` | are rows, leases and effects consistent, is all work settled? | 2 work rows, 2 workers, 2 attempts, batch 2, 4 tokens, 1 fault | holds, 84 thousand states |
| `outbox_poison_row` | does one failing hook harm other rows? | 2 rows, 1 worker, batch 2, no faults | violated |
| `agent_run` | is the Run consistent, does it implement its lifecycle, does it get somewhere? | 2 workers, 2 attempts, 2 faults, 1 edit, every outcome of the model | holds, 685 thousand states |
| `agent_proposal_stuck` | does a decided Proposal settle its Run? | 1 worker, no faults, 1 edit | violated |
| `command_safety` | does a command settle once, and is its receipt kept? | 2 requests (symmetric), 1 scope of each executor with one lock key, 2 bodies (symmetric), retention 2, clock to 2 | holds, 246 thousand states |
| `knowledge_safety` | are removals final, Jobs inert once over, sources in charge of somebody? | a target of each type, 2 Jobs, 2 handlers (symmetric), 2 attempts, 2 versions, 2 digests, 1 edit | holds, 533 thousand states |
| `knowledge_outdated` | can an outdated Job overwrite a newer version? | the same | violated |
| `resume_jobs` | is an upload consumed once, is an edit lost to a restore, is an operation applied once and a stale batch harmless? | an upload with 2 completion attempts of 2 operations, or a Resume with 2 edits; 2 Jobs, 2 handlers, 2 attempts. Or a Resume of 2 sections and an item, 15 batches and 2 drafts, 2 operation ids, 4 revisions | holds, 280 thousand states |
| `interview_jobs` | do session and Jobs agree, is the report whole? | 2 Jobs, 2 handlers, 2 attempts, 2 segments; a new session, or a completed one | holds, 279 thousand states |
| `account_deletion` | is a verdict true, is the Workspace owned, are the steps those of `AccountErasure`, does a deletion end? | 2 members who may both leave, 2 executors, 2 claims, 2 tries per item | holds, 458 thousand states |
| `deletion_orphan` | does every erasure leave the Workspace an owner? | the same | violated |
| `mail_and_tokens` | is a lease respected, is a mark true, does the outbox implement `MailDelivery`, is all mail settled? Are interleaved requests for tokens answered as if served one by one, and is a claim of the account complete? | 2 messages (one unreadable), 2 workers, 2 attempts, batch 2, 2 faults; or 3 requests, 2 codes of 2 sessions, one with `offline_access` | holds, 248 thousand states |

The bounds are the smallest at which everything can happen. Two workers give a
stale holder and a new one; two attempts separate the first, the last and the
reclaim at the cap; batch 2 lets a later claim lapse while the first is handled.

- *Outbox*: four tokens are two held and two fresh ones. Notification rows, which no
  worker touches, are in the model and the proof, not in the run.
- *Agent*: two faults let a crash be followed by a stall, at the first and at the last
  attempt; one edit is enough for the single revision of slack the code allows. The
  workers are not symmetric, as `RunSettles` is in the same run.
- *Receipts*: two requests at a time (each caller serves any number) are what the locks
  and the fingerprints distinguish; the shared lock key makes the two executors meet;
  with retention 2 and a clock up to 2 a command of time 0 is settled, expires, is
  purged and its key used again.
- *Jobs*: two Jobs of any kind are a Job and the one that follows or competes with it;
  two versions are an outdated and a newer one. `interview_jobs` starts either at the
  beginning or with a completed session, so that two report Jobs are possible besides
  an end Job; `resume_jobs` with an upload or a Resume, whose Jobs share only handlers.
- *Operations*: `MCResumeJobs` extends `ResumeJobs` and `ResumeOperations`. A behaviour is
  either of Jobs or of operations, since the two meet only in the restore, which is an
  action of both. The batches have every kind of operation, on the same and on different
  entities; four revisions put two others between a batch and its base; two ids are
  enough for an operation sent again alone or in a batch of two.
- *Deletion*: two members give the last one and the successor. `MCAccountDeletion`
  starts from two states the program reaches, one member who has withdrawn a deletion,
  or an owner claimed once whose executor has crashed after the items, because the
  search from `Init` does not end in reasonable time; the two are what a second claim and
  a second deletion can meet.
- *Mail*: one readable and one unreadable message in a batch, two faults for a stall and
  a crash.
- *Tokens*: an exchange, a rotation and the same token once more; or an exchange, a rotation
  and a revocation or a claim at any point of it. Each request is used once. With a fourth
  one the requests would have to be symmetric, which is not sound beside the liveness
  property of the mail.

`MCIdentity` extends `IdentityMail` and `RefreshTokens`. A behaviour is of mail or of tokens,
as no step of one touches a row of the other; where tokens move, no fair step of the mail is
enabled, so the fairness rules out nothing.

Deadlock is checked for the receipts: a request can always end and another begin. In
the other passing runs it is not, because the systems may rest: with every row settled,
every Run or Job over, users that owe nothing, and no request left to bring.

**Fairness.** Weak fairness of each worker's own steps (the loops of `composition.py`
never end and a handler is ordinary code under timeouts), of claiming (each poll takes
what is due) and of time (leases expire, retries become due). No fairness for requests,
faults or retention. `agent_run` needs no fairness of users: waiting for a person counts
as having got somewhere. `account_deletion` needs none of the store, the vault or the
mail outbox: tries and claims run out. SMTP may refuse for ever. `WorkSettles`,
`RunSettles` and `MailSettles` are for finitely many faults, as the fault bounds say;
`DeletionEnds` holds for any number of crashes, since each costs a claim.

Every property of a passing run has a mutant: a plausible bug in one mapped
definition (`TokenUnlocked`, `UncheckedSwap`, `CancellableAnyTime`, ...)
under which TLC finds it violated. The mutated forms stand in the modules, right
before the definitions they replace.

## 7. What is proved

`OutboxDispatchProofs` proves, for any sets of rows, workers and tokens, any
attempt limit, batch size and number of faults: `TypeOK`, `ClosedBeforeTerminal`,
`ClaimIsCurrent`, `OneOwner`, `LeaseRespected`, `TerminalIsFinal` and the refinement
of `WorkDelivery`. The assumptions are those of the module: rows are numbered,
work and poison rows are rows, `NoToken` is not a token, and the limits are
positive numbers.

None of these is inductive by itself. `ClosedBeforeTerminal`, for example, needs
that a worker about to complete, or to retry at the cap, has closed the effect; for
that, that its attempt number is the row's as long as it owns the row; for that,
that no two workers hold one token and a fresh token is nobody's. The inductive
invariant states these facts together: types; a token is held by one worker and by
rows of its batch only; the attempts a worker remembers are the row's while it owns
it; a worker in the phases after the effect, and every terminal row, has its effect.
The proof has one step per action and cites the parts an action can disturb. The
action properties and the refinement follow from the same invariant.

`AgentRunProofs` proves, for any set of workers, any attempt limit, any number of
faults and edits and any set of provider outcomes: `TypeOK`, `Aligned`,
`ApprovalFollowsRun`, `StepIsOwned`, `OneAnswer`, `TerminalIsFinal` and the
refinement of `AgentRunLifecycle`. Its invariant `IInv` has four parts besides types
(TLC agreed with it first, on an instance with three faults):

- `Path`: the status of a Run determines its revision and the phase of its Job. This
  is what makes a comparison of revisions a comparison of states.
- `Consent`: which questions have been asked where, and that a called tool was
  approved. `Written`: each Message and each edit is one Conversation revision.
- `WorkerInv`: a worker after its first transaction holds the revisions of the
  model call or of the continuation, and the Run is still there or has a later
  revision. So a worker that passes the revision check finds the Run where it left
  it, whoever else handled the event meanwhile: this is why a stale commit is
  harmless. A worker about to settle an event knows that no Run needs it any more.
- `EventInv`: `StepIsOwned`, and no event precedes its Run.

The proof separates what a step does to the Run (`CoreStep`: the invariant about Run,
Job, approval, Proposal, Conversation and output is kept and they only move
`Forward`), to the workers (`WorkerStep`: what the others know survives a forward
move, one step per action for the worker itself) and to the events (`EventStep`).

`IdempotentCommandProofs` proves, for any sets of callers, scopes and bodies, any way
lock keys collide, any retention and any bound on the clock: `TypeOK`,
`OncePerWindow`, `ReceiptIsKept`, `AnswerIsSettled`, `OneInScope`, `PendingIsKept` and
the refinement of `CommandReceipts`. Assumed are that every scope has a lock key, that
the retention is positive and that the two null values are not callers or responses.
`OncePerWindow` rests on three facts of its invariant: `Locked` (who works in a scope
holds its lock), `Claimed` (what a transaction found free when it claimed it is still
free: its clock may be stale, but never ahead, so a receipt it saw expired is expired),
and `RowInv` (a row tells the last command of its scope and when it expires, so a free
row means that all of them have outlived their retention: lemma `FreeIsSpent`). A
caller whose session is lost has nothing of this, and need not: it cannot commit.

`JobWorkProofs` has the lemmas the Job domains share, and no theorem of its own. A step
is described by the one Job it moves: `Advances` (no status changes without a later
revision), `Delivers`, `Works`, `Reads`. `WorkInvKept` gets from this what the revision
comparison of `cancel_job` needs: a cancellation whose swap succeeds finds the Job in
the status it read (`SwapIsLive`). `UnifiedStep` says which moves of status, event and
effect (`Allowed`) are steps of `UnifiedJob`.

On these, for any numbers of Jobs, handlers, attempts, versions, edits and segments:

- `KnowledgeJobsProofs`: `TypeOK`, `RemovalIsKept`, `InCharge`, `RemovedIsFinal`,
  `SettledIsFinal` (a settled Job publishes nothing) and the refinement. Each handler
  step is shown to be of one form (`Moves`): what it does to its Job, and which of six
  things it does to the target (`StateMoves`). The invariant adds `Handlers` (a handler
  whose revision is the target's sees the target as it left it, and a started removal is
  never withdrawn), `OneRemoval` (a live removal is the only one, and its target is
  disabled and waits for it) and `TouchedIsOut` (once a removal was started, nothing
  still to be cancelled remembers the target in use). The last is why a cancelled second
  removal cannot revive what the first one, failed after it revoked the credentials, has
  destroyed.
- `ResumeProofs`: `TypeOK`, `ConsumedOnce`, `RestoreKeepsEdits`, `VerdictIsFinal` and the
  refinement, for the Jobs. The invariant adds `Imports` (a live or successful import is
  the consumer of its upload, which is verified), `PerformedSucceeded` (only a Job that
  succeeded published) and `RestoresBase` (a handler of a restore has read the very
  revision its Job was asked for, so its comparison is with that one).
- `InterviewJobsProofs`: `TypeOK`, `EndingHasJob`, `ReportIsWhole` and the refinement. The
  invariant adds `Handlers` (a handler of a report that still sees the revision it
  prepared has read the whole transcript; an end that was started is never withdrawn)
  and `NoReport` (a report Job that succeeded attached its Report). The theorem is about `Spec`; the run has a second
  initial state besides.

`ResumeProofs` also proves `AppliedOnce` and `ProposalIsExact`, for any operation ids,
first document, batches, drafts, titles and number of revisions: nothing in them depends
on what an edit does. The invariant adds types only, but two of them matter: every
revision has its batch (`Len(made) = Revision`), and the operations of a Proposal can be
told apart by their ids (`Unambiguous`), without which "the operation accepted" would not
name one. `SavedOnce` is the heart of the first theorem, `ExactKept` of the second: no
handler but a decision changes what a Proposal was accepted with, and no handler at all
changes a ledger entry that is there.

`IdentityProofs` has the three components of the identity domain.

For account deletion it proves `TypeOK`, `VerdictHolds` and `OwnedUnlessDeleting`, for any
number of users, executors, claims and tries, and any roles that invitations grant. The
theorems are about `Spec`, from `Init`, which the run cannot start from (section 6). The
invariant `DeletionInv` adds

- for each user (`UserOK`): a request that no executor has claimed has done nothing, and
  the account says what it says (`Untouched`); an item recorded as completed is gone, no
  item is missing after a claim while its object is there (`ItemsTrue`); what a completed
  request says (`Erased`). This is what lets a second claim over data erased long ago
  come to the same verdict: it finds the items as the first one left them.
- for each executor (`ExecOK`): it has a user while it works, items only in the step that
  erases them, and when it has erased the rows under a live claim, `Erased` holds already.
- `Owned`: whoever excuses a Workspace without an owner has still to choose a successor,
  found no Workspace to hand on, or was erased by a transaction that was overtaken.
  `OwnedUnlessDeleting` alone does not say that the executor has not passed the choice yet.
- for each open transaction (`TransactionOK`): its locks keep the claim and the items as it
  has read them, and somebody it has found, an owner, a collaborator or a candidate, is
  still there, or it is `overtaken`. So it ends with an owner, or is among the exceptions.

`overtaken` is a history variable: `Next` is `Moves /\ Overtaking`, no action reads it,
and it names the users of whose erasure the last one found has gone while the transaction
was open. The theorem `WorkspacesOwned` is about every interleaving of the statements of
an erasure with what members do: that overtaking one is, besides a user who had no
Workspace to hand on at the first claim, the only way to an ownerless Workspace. That it
is a way is finding `deletion_orphan`. The invariant is proved in two halves, of the rows
(`RowsInv`) and of the open transactions (`TransactionsInv`): what members do to each
other moves no executor, but may take candidates from it (`GoesOn`), and the executors do
not disturb each other's transactions (`OthersKept`).

The proof describes what a step does to the members (`MembersStep`, with `LastOwner` for the
last-owner rule), to the users (`UserKept`, `UserStep`: requests only move on, and what is
gone stays gone) and to the executors (`ExecKept`, `ExecutorStep`), and each action cites
what it needs of the three.

`DeletionKeepsPromise` and `DeletionImplements` say that it implements `AccountErasure`. The
steps that change nothing it sees (item rows, leases, reads) are stutters (`HiddenStep`),
every other is one of its steps, one lemma per action. Besides `DeletionInv` this needs
`ErasureInv`: a request under way, or failed, belongs to a suspended or erased account
(`Suspends`), so that nothing returns to life; an item of the files belongs to a Workspace
disposed of as its user's own, which is out of use (`FilesAreOwn`); an executor works for
a request that has begun, on items that are listed, even if its claim has meanwhile
lapsed (`Assigned`).

The attempt corrected the model twice. `OwnedUnlessDeleting` was too strong: with three
members, a user is erased by a claim that found no membership, the lease lapses before the
verdict, another member reactivates the erased user, and the second claim freezes the
Workspace as shared, so that the exception for the first no longer covered it, though no
successor had been chosen. The run with two members cannot reach this; the property now
says that the exception lasts while that deletion is under way. And two `CASE`s
(`Disposition`, `SetField`) had arms that overlap, of which TLC takes the first and a proof may
not; they, `Verdict` and `RetryItem` are now written without overlap.

For the mail outbox it proves `MailTypeOK`, `LeaseHolds` and `SentWasAccepted` for any mail,
workers, limits and faults. Its invariant is the three with `AcceptedFirst`: a worker
that is about to acknowledge success acts under a claim SMTP accepted. The refinement of
`MailDelivery` (`MailImplements`) adds `TriesCounted`: a claim, and a lease that is over, are of
an attempt the row has counted. So a message in a batch was handed out, whatever became
of its row, and a row claimed just now is held, since its lease cannot have ended before.

For codes and refresh tokens it proves `CutIsComplete` and `Serializes`, for any requests,
codes, scopes and sessions. The only assumptions are that no request is a code, that `None`
is neither, and that each code was issued in a session. The invariant `GrantInv` (which TLC agreed with on the instance of the run
first) has

- what a lock is worth: no two transactions hold one row (`LocksExclude`), so what one has
  read of a row it holds is how that row still is (`ReadsHold`), whatever was written
  elsewhere meanwhile;
- what the rows are (`Rows`): a family was begun with a consumed code and is the only one of
  it (`CodesAreSpent`); its tokens are one chain, each rotated one pointing to the next
  (`Linked`), with exactly one that may be rotated, the last of its sequence (`OneOpen`), and no
  two with one number (`SequencesDiffer`);
- what a revocation has found is there, and once a claim holds its codes it has found every
  family begun with one of them (`FindsHold`). Before it holds them this is false: an
  exchange under way begins a family it cannot see. That is why the order of the two
  UPDATEs matters, and why `CutIsComplete` is not inductive alone;
- requests that have not been answered have made no row (`RowsAreMade`), and what was
  answered stays true (`AnswersTrue`).

From it follow `FamiliesAreChains` (the unique constraint on family and sequence is never what
stops a rotation), `EndedFamiliesStay`, an action property: revocation is final, also for the
rotation that read the family before it, `TokensRotateOnce`, and `TokensSerialize`, the
refinement: everything before a commit is a stutter (`UnseenChains`), and the commit is the
instant at which the request is served, one lemma per answer. That the locks are
sufficient is what is proved; that they are needed the mutants show, which drop one each.

## 8. What is only model-checked, and what is not modelled

Liveness (`WorkSettles`, `RunSettles`, `MailSettles`, `DeletionEnds`) and `ENABLED` are
outside the prover and stay with TLC, and so do the properties the violation runs
refute. `RebaseCommutes` stays with TLC too: it compares what two orders of the same edits
make of a document, so it is about what folds over sequences compute, which takes induction
over data. `OneOwner`, `TerminalIsFinal`, `OneInScope`, `SettledIsFinal`, `EndedStays` and `OneRotation`
are proved and are in no run, and neither are the type invariants, each of which a
theorem states.

Not modelled: what section 2 leaves, and the components marked not modelled in
`PROJECT.json` with their reason. Most of the source is not protocol at all: schemas,
serialisation, configuration, SQL models, prompts, rendering, parsing and the V1 API.

Limits of the abstraction worth naming. A transaction is one step, but for the erasure of
a shared Workspace and the requests for tokens, whose statements are steps. So a lock order that
deadlocks would show only as an aborted transaction: no order that does was found, since
`cancel_job` locks the domain row before the Job, as the workers do. Composition goes
through the interfaces: the Job domains use the outbox as `delivery`, the deletion uses
the mail outbox as a free choice to wait. `Claim` of a deletion is one step, though
`claim_due_account_deletions` lists the active memberships of the user (migration 0025,
700-705) before it locks their Workspaces: a user removed just then is frozen in a Workspace
it has left, as the model has it only for a user removed after the claim. The in-memory adapters of the tests are not
modelled, though they differ (they keep the whole Run, and require a revision to grow by
exactly one).

## 9. Findings

Each is a violation run with its trace; sources and quotations are in `PROJECT.json`.

- `outbox_poison_row`: an exception of an exhaustion hook leaves `run_once`. Its row,
  first among lapsed leases, aborts every later batch and starves the rows behind it.
- `agent_proposal_stuck`: the hook of `agent.proposal_decision.recorded` rejects its
  own event's subject, so a decided Run whose continuation keeps failing waits for
  ever, and feeds the previous finding.
- `knowledge_outdated`: a running ingest whose event is delivered again takes over the
  source a newer Job has queued, publishes the version pinned before the newer upload,
  and lets the newer Job succeed as superseded.

- `deletion_orphan`: the erasure of the last owner checks for a collaborator, demotes the
  owner and chooses the successor in separate statements, with no lock on the Workspace
  (migration 0025, 1286-1327). A collaborator removed or suspended in between leaves
  nobody to choose, and the deletion completes with an ownerless live Workspace, though
  `docs/API_V2_IMPLEMENTATION.md` (line 115) and `infrastructure/access.py` (line 697) say
  that a lock protects the last active owner. `OwnedUnlessDeleting` states what holds
  all the same, with this exception named.

Met while modelling, without a run of their own:

- a row reclaimed at the attempt cap goes to the ordinary handler and can be published,
  though migration 0027 (line 354) says it is reclaimed only to be compensated;
- a redelivered `agent.run.queued` fails a Run whose continuation is under way
  (`application/agent_v2.py`, line 1738);
- the superseded path after the model call of a continuation uses an unassigned variable
  (`application/agent_v2.py`, line 1409), so the failure it chose is not recorded;
- `save_run` never stores the refreshed grant (`infrastructure/agent_v2.py`, line 2507),
  so a Run started after a Conversation edit is refused when delivered again;
- a rename between an ingest request and its claim supersedes the Job and leaves the
  source queued, or deleting, with no Job (`domain/knowledge_sources.py`, line 570);
- an attempt that prepared external work and died before its commit leaves no trace in
  the receipts, so the same key with another body prepares a second time
  (`infrastructure/v2_idempotency.py`, line 994); only one of them can be committed;
- change targets name an entity or the order of a collection, not what an entity holds
  (`domain/resumes.py`, line 1451). So a stale batch with `rebase_if_safe` is let through
  and can undo a later edit, though `tests/test_v2_resume_core.py` (line 417) says "rebase
  only for causally disjoint targets", in four cases: a whole section put in its place
  against its items, an item put somewhere against the same item moved, a template
  against its settings, and anything but the Resume's own fields against a restore
  (`Missed`);
- the rows of the operation ledger are unique by operation id over all Resumes, and
  `add_batch_receipt` skips those that exist (`infrastructure/resumes.py`, line 1621): an id
  another Resume has used is applied but not remembered. Not modelled: the model has one
  Resume, and clients are expected to draw ids at random;
- a user who becomes an active member after a deletion claim that found no membership,
  and is promoted, is erased with no successor chosen: the Workspace has no owner
  (migration 0025, line 695). If that claim is lost before its verdict and a manager
  reactivates the erased user, the next claim freezes a disposition again.
  `OwnedUnlessDeleting` names the exception.
