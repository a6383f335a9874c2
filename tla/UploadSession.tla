----------------------------- MODULE UploadSession -----------------------------
(***************************************************************************)
(* One upload session: the signed PUT of its object, the completion        *)
(* requests that verify it outside any transaction, and the one consumer   *)
(* its content may have (domain/upload_sessions.py, application/           *)
(* knowledge.py, infrastructure/knowledge_uploads.py).                     *)
(*                                                                         *)
(* An operation is the preparation ID of a completion request, derived     *)
(* from its idempotency key and body.  Attempts of one operation may       *)
(* overlap: the lock of the first is lost with its database session.       *)
(***************************************************************************)
EXTENDS Naturals

CONSTANTS Attempt,     \* completion requests in progress at a time
          Operation, NoOperation,
          Consumer,    \* Jobs and Knowledge versions that may claim the content
          NoConsumer

ASSUME NullAssumption == NoOperation \notin Operation /\ NoConsumer \notin Consumer

VARIABLES upload,   \* the session row; genuine: the object is of the declared type
          stored,   \* the declared bytes are in the object store
          lapsed,   \* expires_at has passed
          attempt   \* attempt[a]: the locals of a completion request

uVars == <<upload, stored, lapsed, attempt>>

UploadTypeOK ==
  /\ upload \in [status : {"absent", "created", "verifying", "completed", "failed"},
                 op : Operation \cup {NoOperation}, by : Consumer \cup {NoConsumer},
                 genuine : BOOLEAN]
  /\ stored \in BOOLEAN /\ lapsed \in BOOLEAN
  /\ attempt \in [Attempt -> [op : Operation \cup {NoOperation},
                              at : {"idle", "scanning", "rejected", "verified"}]]

NoAttempt == [op |-> NoOperation, at |-> "idle"]
Created(state, type) == [status |-> state, op |-> NoOperation, by |-> NoConsumer, genuine |-> type]

UploadInit == /\ \/ \E type \in BOOLEAN : upload = Created("created", type)
                 \/ upload = Created("absent", TRUE)
              /\ stored = FALSE /\ lapsed = FALSE
              /\ attempt = [a \in Attempt |-> NoAttempt]

\* The grant signs the size and digest, and is good until the session expires,
\* also after its completion.
Put == /\ upload.status # "absent" /\ ~lapsed /\ ~stored
       /\ stored' = TRUE
       /\ UNCHANGED <<upload, lapsed, attempt>>

Lapse == /\ upload.status # "absent" /\ ~lapsed
         /\ lapsed' = TRUE
         /\ UNCHANGED <<upload, stored, attempt>>

Goto(a, where) == attempt' = [attempt EXCEPT ![a].at = where]
Leave(a) == attempt' = [attempt EXCEPT ![a] = NoAttempt]

\* prepare_upload_completion: begins, or resumes its own operation.
Begin(a, op) ==
  /\ attempt[a] = NoAttempt
  /\ \/ /\ upload.status = "created" /\ ~lapsed
        /\ upload' = [upload EXCEPT !.status = "verifying", !.op = op]
     \/ /\ upload.status = "verifying" /\ upload.op = op
        /\ UNCHANGED upload
  /\ attempt' = [attempt EXCEPT ![a] = [op |-> op, at |-> "scanning"]]
  /\ UNCHANGED <<stored, lapsed>>

\* verify_uploaded_object: a missing object, malware, an unavailable scanner or an
\* exhausted quota are rejections; any other error is raised.
Scan(a) ==
  /\ attempt[a].at = "scanning"
  /\ \/ Goto(a, "rejected")
     \/ stored /\ Goto(a, "verified")
  /\ UNCHANGED <<upload, stored, lapsed>>

OwnsInAnyState(a) == upload.op = attempt[a].op
Owns(a) == upload.status = "verifying" /\ upload.op = attempt[a].op

RecordFailure(a) ==
  /\ attempt[a].at = "rejected"
  /\ upload' = IF Owns(a) THEN [upload EXCEPT !.status = "failed"] ELSE upload
  /\ Leave(a)
  /\ UNCHANGED <<stored, lapsed>>

\* commit_upload_completion: mismatching or late evidence fails the session.
CommitCompletion(a) ==
  /\ attempt[a].at = "verified"
  /\ upload' = IF Owns(a)
               THEN [upload EXCEPT !.status = IF upload.genuine /\ ~lapsed
                                              THEN "completed" ELSE "failed"]
               ELSE upload
  /\ Leave(a)
  /\ UNCHANGED <<stored, lapsed>>

\* An error, or the death of the process: the session stays as it is.
Abandon(a) == /\ attempt[a] # NoAttempt
              /\ Leave(a)
              /\ UNCHANGED <<upload, stored, lapsed>>

\* claim_content, save_upload
Claimable == upload.status = "completed" /\ upload.by = NoConsumer
ClaimContent(c) == /\ Claimable
                   /\ upload' = [upload EXCEPT !.by = c]
                   /\ UNCHANGED <<stored, lapsed, attempt>>
ReleaseContent == /\ upload' = [upload EXCEPT !.by = NoConsumer]
                  /\ UNCHANGED <<stored, lapsed, attempt>>

UploadNext == \/ Put \/ Lapse
              \/ \E a \in Attempt : \/ \E op \in Operation : Begin(a, op)
                                    \/ Scan(a) \/ RecordFailure(a)
                                    \/ CommitCompletion(a) \/ Abandon(a)

-----------------------------------------------------------------------------
(* PROPERTIES                                                              *)

\* What was decided about an object stays decided, although attempts of the same
\* or another operation may still be scanning it and report something else.
VerdictStep == upload.status \in {"completed", "failed"} => upload'.status = upload.status
VerdictIsFinal == [][VerdictStep]_uVars
=============================================================================
