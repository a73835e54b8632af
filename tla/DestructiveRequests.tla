------------------------- MODULE DestructiveRequests -------------------------
(***************************************************************************)
(* Two-party approval and replay protection of the destructive endpoints   *)
(* (api/approvals.py, api/idempotency.py, the erasure handler of           *)
(* api/subjects.py and destroy of api/keys.py).  A target is a subject and *)
(* its subject key: an erasure names the subject, a destroy names the key, *)
(* and both end the same key; only an erasure issues a certificate.        *)
(*                                                                         *)
(* A handler reads rows without a lock, and its first write takes SQLite's *)
(* write lock; an UPDATE carries the columns whose value differs from the  *)
(* copy the handler read.  run_idempotent commits twice: the handler's own *)
(* commit, then the record of its answer.  A request may end after any     *)
(* step: it is refused, raises, waits too long for the lock, or dies.      *)
(*                                                                         *)
(* Only operators with the scopes approve, request_approval and destroy    *)
(* get this far.  What happens to the key is KeyHierarchy's; here a target *)
(* is live or destroyed.                                                   *)
(***************************************************************************)
EXTENDS Naturals

CONSTANTS
  Admins,     \* operators with the three scopes
  Targets,    \* subjects that may be erased
  Approvals,  \* identities available to approvals
  Requests,   \* threads of the server
  NumKeys     \* values of the Idempotency-Key header

None == "none"

ASSUME AdminsAssumption == None \notin Admins
ASSUME TargetsAssumption == None \notin Targets
ASSUME ApprovalsAssumption == None \notin Approvals
ASSUME NumKeysAssumption == NumKeys \in Nat

\* The operation of an approval, and the scope of an Idempotency-Key.
Operation == {"erasure", "destroy"}

\* composite_key: the scope and the header, whatever the target.
Key == Operation \X (1 .. NumKeys)

VARIABLES
  approval,      \* approvals
  destroyed,     \* pairs <<target, operation>>: the key was destroyed by it, as
                 \* the audit entries say
  certificates,  \* erasure_certificates
  records,       \* idempotency_records: the target of the recorded answer
  request        \* what each thread is doing, with its copy of the approval

vars == <<approval, destroyed, certificates, records, request>>

Approval == [status : {"none", "pending", "approved", "consumed"},
             operation : Operation \cup {None}, target : Targets \cup {None},
             requestedBy : Admins \cup {None}, approvedBy : Admins \cup {None}]

NoApproval == [status |-> "none", operation |-> None, target |-> None,
               requestedBy |-> None, approvedBy |-> None]

\* id and key tell certificates apart; they are not in the payload.
Certificate == [id : Requests, key : Key, subject : Targets, operator : Admins,
                requester : Admins, approver : Admins]

Request ==
  [pc : {"idle", "approving", "missed", "loaded", "executed"},
   actor : Admins \cup {None}, id : Approvals \cup {None},
   key : Key \cup {<< >>}, target : Targets \cup {None}, copy : Approval]

Idle == [pc |-> "idle", actor |-> None, id |-> None, key |-> << >>,
         target |-> None, copy |-> NoApproval]

TypeOK ==
  /\ approval \in [Approvals -> Approval]
  /\ destroyed \subseteq Targets \X Operation
  /\ certificates \subseteq Certificate
  /\ records \in [Key -> Targets \cup {None}]
  /\ request \in [Requests -> Request]

Init ==
  /\ approval = [a \in Approvals |-> NoApproval]
  /\ destroyed = {}
  /\ certificates = {}
  /\ records = [key \in Key |-> None]
  /\ request = [r \in Requests |-> Idle]

-----------------------------------------------------------------------------
(* Approvals.                                                              *)

CreateApproval(a, admin, op, t) ==
  /\ approval[a].status = "none"
  /\ approval' = [approval EXCEPT ![a] =
       [status |-> "pending", operation |-> op, target |-> t,
        requestedBy |-> admin, approvedBy |-> None]]
  /\ UNCHANGED <<destroyed, certificates, records, request>>

\* approve: the row is read and the requester turned away; the status is not
\* looked at.
LoadAnyApproval(r, admin, a) ==
  /\ request[r].pc = "idle"
  /\ approval[a].status # "none"
  /\ request' = [request EXCEPT ![r] =
       [Idle EXCEPT !.pc = "approving", !.actor = admin, !.id = a,
                    !.copy = approval[a]]]
  /\ UNCHANGED <<approval, destroyed, certificates, records>>

LoadApproval(r, admin, a) ==
  /\ request[r].pc = "idle"
  /\ approval[a].status # "none"
  /\ approval[a].requestedBy # admin
  /\ request' = [request EXCEPT ![r] =
       [Idle EXCEPT !.pc = "approving", !.actor = admin, !.id = a,
                    !.copy = approval[a]]]
  /\ UNCHANGED <<approval, destroyed, certificates, records>>

\* What a column holds after the flush of a copy in which it was set to new.
Flushed(new, copied, stored) == IF new = copied THEN stored ELSE new

\* approve: status and approved_by are set, and committed.
WriteApproval(r) ==
  LET a == request[r].id
      copy == request[r].copy
  IN
  /\ request[r].pc = "approving"
  /\ approval' = [approval EXCEPT
       ![a].status = Flushed("approved", copy.status, @),
       ![a].approvedBy = Flushed(request[r].actor, copy.approvedBy, @)]
  /\ request' = [request EXCEPT ![r] = Idle]
  /\ UNCHANGED <<destroyed, certificates, records>>

-----------------------------------------------------------------------------
(* Erasure and destroy under run_idempotent.                               *)

\* The lookup of the Idempotency-Key.  A request that finds a record answers
\* with it, whatever its own target is, and changes nothing.
BeginRequest(r, admin, a, key, t) ==
  /\ request[r].pc = "idle"
  /\ records[key] = None
  /\ request' = [request EXCEPT ![r] =
       [Idle EXCEPT !.pc = "missed", !.actor = admin, !.id = a, !.key = key,
                    !.target = t]]
  /\ UNCHANGED <<approval, destroyed, certificates, records>>

Undecided(a, op, t) ==
  /\ approval[a].status # "consumed"
  /\ approval[a].operation = op
  /\ approval[a].target = t

Approved(a, op, t) ==
  /\ approval[a].status = "approved"
  /\ approval[a].operation = op
  /\ approval[a].target = t

\* The handler checks the approval, and destroy_key the state of the key.
LoadTarget(r) ==
  LET op == request[r].key[1]
      t == request[r].target
  IN
  /\ request[r].pc = "missed"
  /\ Approved(request[r].id, op, t)
  /\ \A by \in Operation : <<t, by>> \notin destroyed
  /\ request' = [request EXCEPT ![r].pc = "loaded",
                                ![r].copy = approval[request[r].id]]
  /\ UNCHANGED <<approval, destroyed, certificates, records>>

CertificateOf(r) ==
  [id |-> r, key |-> request[r].key, subject |-> request[r].target,
   operator |-> request[r].actor, requester |-> request[r].copy.requestedBy,
   approver |-> request[r].copy.approvedBy]

\* destroy_key and the end of the approval, on what the handler has loaded.
Destroys(r, op) ==
  /\ request[r].pc = "loaded"
  /\ request[r].key[1] = op
  /\ destroyed' = destroyed \cup {<<request[r].target, op>>}
  /\ approval' = [approval EXCEPT ![request[r].id].status = "consumed"]
  /\ request' = [request EXCEPT ![r].pc = "executed"]

\* The erasure committed on its own, its certificate with the record.
ExecuteUncertified(r) ==
  /\ Destroys(r, "erasure")
  /\ UNCHANGED <<certificates, records>>

\* The writes of the erasure handler and its commit: key, approval, certificate.
ExecuteErasure(r) ==
  /\ Destroys(r, "erasure")
  /\ certificates' = certificates \cup {CertificateOf(r)}
  /\ UNCHANGED records

\* Those of destroy: key and approval.
ExecuteDestroy(r) ==
  /\ Destroys(r, "destroy")
  /\ UNCHANGED <<certificates, records>>

RecordBeforeExecution(r) ==
  /\ request[r].pc \in {"loaded", "executed"}
  /\ records[request[r].key] = None
  /\ records' = [records EXCEPT ![request[r].key] = request[r].target]
  /\ request' = [request EXCEPT ![r] = Idle]
  /\ UNCHANGED <<approval, destroyed, certificates>>

\* run_idempotent's own commit.  The INSERT of a second record for the same
\* key raises: the request ends with an error, what it executed stays.
RecordAnswer(r) ==
  /\ request[r].pc = "executed"
  /\ records[request[r].key] = None
  /\ records' = [records EXCEPT ![request[r].key] = request[r].target]
  /\ request' = [request EXCEPT ![r] = Idle]
  /\ UNCHANGED <<approval, destroyed, certificates>>

\* Refused, failed or dead: what was not committed is rolled back.
EndRequest(r) ==
  /\ request[r].pc # "idle"
  /\ request' = [request EXCEPT ![r] = Idle]
  /\ UNCHANGED <<approval, destroyed, certificates, records>>

-----------------------------------------------------------------------------
Next ==
  \/ \E a \in Approvals, admin \in Admins, op \in Operation, t \in Targets :
       CreateApproval(a, admin, op, t)
  \/ \E r \in Requests :
       \/ \E admin \in Admins, a \in Approvals : LoadApproval(r, admin, a)
       \/ WriteApproval(r)
       \/ \E admin \in Admins, a \in Approvals, key \in Key, t \in Targets :
            BeginRequest(r, admin, a, key, t)
       \/ LoadTarget(r)
       \/ ExecuteErasure(r)
       \/ ExecuteDestroy(r)
       \/ RecordAnswer(r)
       \/ EndRequest(r)

Spec == Init /\ [][Next]_vars

-----------------------------------------------------------------------------
(* Properties.                                                             *)

\* FR-9.3: whatever approvals are approved again, raced or reused, a key is
\* destroyed only on the word of two different operators who approved that
\* operation on that target, and every certificate names two.
TwoPartyRule ==
  /\ \A c \in certificates : c.requester # c.approver
  /\ \A d \in destroyed :
       \E a \in Approvals : /\ approval[a].target = d[1]
                            /\ approval[a].operation = d[2]
                            /\ approval[a].approvedBy # None
                            /\ approval[a].approvedBy # approval[a].requestedBy

\* However requests end, and whatever destructions of the key run beside them,
\* a subject was erased exactly if a certificate says so.  A destroy erases
\* nothing in this sense: it issues no certificate.
ErasureIsCertified ==
  {t \in Targets : <<t, "erasure">> \in destroyed} = {c.subject : c \in certificates}

\* A replay never reports a success that did not happen: the target of a
\* recorded answer was destroyed by the operation of its key, and an answer in
\* the scope of erasures has a certificate of that very key and subject.
RecordedAnswerIsTrue ==
  \A key \in Key : records[key] # None =>
    /\ <<records[key], key[1]>> \in destroyed
    /\ key[1] = "erasure" =>
         \E c \in certificates : c.key = key /\ c.subject = records[key]

\* api/idempotency.py: "Replaying the same key returns the original result
\* without re-executing"; THREAT_MODEL.md names the double-submit.  Each
\* certificate stands for one execution.
NoReexecution ==
  \A c, d \in certificates : c.key = d.key => c = d
=============================================================================
