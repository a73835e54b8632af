---------------------- MODULE DestructiveRequestsProofs ----------------------
(***************************************************************************)
(* Safety of DestructiveRequests for any number of operators, targets,     *)
(* approvals, server threads and Idempotency-Keys.                         *)
(***************************************************************************)
EXTENDS DestructiveRequests, TLAPS

\* An approval that exists has a requester, and no approver but another one;
\* once approved it has an approver for good.
ApprovalsAreTwoParty ==
  \A a \in Approvals :
    /\ approval[a].status = "none" => approval[a].approvedBy = None
    /\ approval[a].status # "none" =>
         /\ approval[a].requestedBy \in Admins
         /\ approval[a].approvedBy # approval[a].requestedBy
    /\ approval[a].status \notin {"none", "pending"} => approval[a].approvedBy # None

\* A request inside approve is not the requester's, and the approver it has
\* read is still there, or has been replaced by another.
ApproversAreOthers ==
  \A r \in Requests :
    request[r].pc = "approving" =>
      /\ request[r].actor \in Admins
      /\ request[r].id \in Approvals
      /\ approval[request[r].id].status # "none"
      /\ approval[request[r].id].requestedBy # request[r].actor
      /\ request[r].copy.approvedBy # None =>
           approval[request[r].id].approvedBy # None

\* What a request holds of its approval when it is about to write.
RequestIsApproved(r) ==
  LET a == request[r].id
      copy == request[r].copy
  IN /\ a \in Approvals
     /\ request[r].actor \in Admins
     /\ approval[a].status # "none"
     /\ approval[a].operation = request[r].key[1]
     /\ approval[a].target = request[r].target
     /\ approval[a].approvedBy # None
     /\ copy.requestedBy \in Admins
     /\ copy.approvedBy \in Admins
     /\ copy.requestedBy # copy.approvedBy

RequestsAreApproved ==
  \A r \in Requests : request[r].pc = "loaded" => RequestIsApproved(r)

\* A request under way has its key, its operator, its target and the name of an
\* approval.
RequestsAreNamed ==
  \A r \in Requests :
    request[r].pc \in {"missed", "loaded", "executed"} =>
      /\ request[r].key \in Key
      /\ request[r].target \in Targets
      /\ request[r].actor \in Admins
      /\ request[r].id \in Approvals

\* What a record under key would say of target t is true.
IsTrue(key, t) ==
  /\ <<t, key[1]>> \in destroyed
  /\ key[1] = "erasure" => \E c \in certificates : c.key = key /\ c.subject = t

\* A request that has been committed did what its key says.
ExecutedIsTrue ==
  \A r \in Requests :
    request[r].pc = "executed" => IsTrue(request[r].key, request[r].target)

IInv ==
  /\ TypeOK
  /\ ApprovalsAreTwoParty
  /\ ApproversAreOthers
  /\ RequestsAreApproved
  /\ RequestsAreNamed
  /\ ExecutedIsTrue
  /\ TwoPartyRule
  /\ ErasureIsCertified
  /\ RecordedAnswerIsTrue

LEMMA InitIInv == Init => IInv
BY TargetsAssumption, AdminsAssumption, ApprovalsAssumption
   DEF Init, IInv, TypeOK, ApprovalsAreTwoParty, ApproversAreOthers,
       RequestsAreApproved, RequestsAreNamed, ExecutedIsTrue, TwoPartyRule,
       ErasureIsCertified, RecordedAnswerIsTrue, Approval, NoApproval, Request,
       Idle

(***************************************************************************)
(* A step that leaves approvals, targets, certificates and records alone   *)
(* keeps what is said of them alone.                                       *)
(***************************************************************************)

LEMMA CommittedStateKept ==
  ASSUME IInv, UNCHANGED <<approval, destroyed, certificates, records>>
  PROVE  /\ ApprovalsAreTwoParty'
         /\ TwoPartyRule'
         /\ ErasureIsCertified'
         /\ RecordedAnswerIsTrue'
BY DEF IInv, ApprovalsAreTwoParty, TwoPartyRule, ErasureIsCertified,
       RecordedAnswerIsTrue

\* So does a step that ends a request.
LEMMA EndKeepsIInv ==
  ASSUME IInv, NEW r \in Requests, request' = [request EXCEPT ![r] = Idle],
         UNCHANGED <<approval, destroyed, certificates, records>>
  PROVE  IInv'
<1>1. TypeOK'
  BY DEF IInv, TypeOK, Request, Idle, NoApproval, Approval
<1>2. \A q \in Requests : request'[q] = request[q] \/ request'[q] = Idle
  BY DEF IInv, TypeOK
<1>3. ApproversAreOthers' /\ RequestsAreNamed' /\ ExecutedIsTrue'
  BY <1>2 DEF IInv, ApproversAreOthers, RequestsAreNamed, ExecutedIsTrue, IsTrue, Idle
<1>4. RequestsAreApproved'
  BY <1>2 DEF IInv, RequestsAreApproved, RequestIsApproved, Idle
<1>5. QED
  BY <1>1, <1>3, <1>4, CommittedStateKept DEF IInv

(***************************************************************************)
(* Approvals.                                                              *)
(***************************************************************************)

LEMMA CreateApprovalKeepsIInv ==
  ASSUME IInv, NEW a \in Approvals, NEW admin \in Admins, NEW op \in Operation,
         NEW t \in Targets, CreateApproval(a, admin, op, t)
  PROVE  IInv'
<1>1. TypeOK'
  BY DEF IInv, TypeOK, CreateApproval, Approval
<1>2. \A b \in Approvals : approval[b].status # "none" => approval'[b] = approval[b]
  BY DEF IInv, TypeOK, CreateApproval
<1>3. ApprovalsAreTwoParty'
  BY AdminsAssumption DEF IInv, TypeOK, CreateApproval, ApprovalsAreTwoParty, Approval
<1>4. ApproversAreOthers'
  BY <1>2 DEF IInv, ApproversAreOthers, CreateApproval
<1>5. RequestsAreApproved'
  BY <1>2 DEF IInv, RequestsAreApproved, RequestIsApproved, CreateApproval
<1>6. TwoPartyRule'
  <2>1. approval[a].approvedBy = None
    BY DEF IInv, ApprovalsAreTwoParty, CreateApproval
  <2>2. \A b \in Approvals : approval[b].approvedBy # None => approval'[b] = approval[b]
    BY <2>1 DEF IInv, TypeOK, CreateApproval
  <2>3. QED
    BY <2>2 DEF IInv, TwoPartyRule, CreateApproval
<1>7. QED
  BY <1>1, <1>3, <1>4, <1>5, <1>6
     DEF IInv, RequestsAreNamed, ExecutedIsTrue, IsTrue, ErasureIsCertified,
         RecordedAnswerIsTrue, CreateApproval

LEMMA LoadApprovalKeepsIInv ==
  ASSUME IInv, NEW r \in Requests, NEW admin \in Admins, NEW a \in Approvals,
         LoadApproval(r, admin, a)
  PROVE  IInv'
<1> DEFINE loaded == [Idle EXCEPT !.pc = "approving", !.actor = admin, !.id = a,
                                  !.copy = approval[a]]
<1>1. request' = [request EXCEPT ![r] = loaded]
  BY DEF LoadApproval
<1>2. /\ loaded.pc = "approving"
      /\ loaded.actor = admin
      /\ loaded.id = a
      /\ loaded.copy = approval[a]
  BY DEF Idle
<1>3. approval[a] \in Approval
  BY DEF IInv, TypeOK
<1>4. TypeOK'
  <2>1. loaded \in Request
    BY <1>3 DEF Idle, Request
  <2>2. QED
    BY <1>1, <2>1 DEF IInv, TypeOK, LoadApproval
<1> HIDE DEF loaded
<1>5. \A q \in Requests : request'[q] = IF q = r THEN loaded ELSE request[q]
  BY <1>1 DEF IInv, TypeOK
<1>6. ApproversAreOthers'
  BY <1>2, <1>5 DEF IInv, ApproversAreOthers, LoadApproval
<1>7. RequestsAreNamed' /\ ExecutedIsTrue'
  BY <1>2, <1>5 DEF IInv, RequestsAreNamed, ExecutedIsTrue, IsTrue, LoadApproval
<1>8. RequestsAreApproved'
  BY <1>2, <1>5 DEF IInv, RequestsAreApproved, RequestIsApproved, LoadApproval
<1>9. QED
  BY <1>4, <1>6, <1>7, <1>8, CommittedStateKept DEF IInv, LoadApproval

\* Whatever approve flushes over the row by then, the row is the one it was but
\* for its status and an approver, who is not the requester.
LEMMA WriteApprovalKeepsIInv ==
  ASSUME IInv, NEW r \in Requests, WriteApproval(r)
  PROVE  IInv'
<1> DEFINE a == request[r].id
           actor == request[r].actor
           by == Flushed(actor, request[r].copy.approvedBy, approval[a].approvedBy)
           status == Flushed("approved", request[r].copy.status, approval[a].status)
<1>1. /\ a \in Approvals
      /\ approval[a].status # "none"
      /\ actor \in Admins
      /\ actor # approval[a].requestedBy
      /\ request[r].copy.approvedBy # None => approval[a].approvedBy # None
  BY DEF IInv, ApproversAreOthers, WriteApproval
<1>2. approval' = [approval EXCEPT ![a].status = status, ![a].approvedBy = by]
  BY DEF WriteApproval
<1>3. /\ by \in Admins
      /\ by # approval[a].requestedBy
      /\ by # None
  <2>1. approval[a].approvedBy \in Admins \cup {None}
    BY <1>1 DEF IInv, TypeOK, Approval
  <2>2. approval[a].approvedBy # approval[a].requestedBy
    BY <1>1 DEF IInv, ApprovalsAreTwoParty
  <2>3. QED
    BY <1>1, <2>1, <2>2, AdminsAssumption DEF Flushed
<1>4. status \in {"pending", "approved", "consumed"}
  <2>1. approval[a].status \in {"pending", "approved", "consumed"}
    BY <1>1 DEF IInv, TypeOK, Approval
  <2>2. QED
    BY <2>1 DEF Flushed
<1> HIDE DEF a, actor, by, status
<1>5. approval \in [Approvals -> Approval]
  BY DEF IInv, TypeOK
<1>6. /\ approval'[a].status = status
      /\ approval'[a].approvedBy = by
      /\ approval'[a].operation = approval[a].operation
      /\ approval'[a].target = approval[a].target
      /\ approval'[a].requestedBy = approval[a].requestedBy
      /\ approval'[a] \in Approval
  BY <1>1, <1>2, <1>3, <1>4, <1>5 DEF Approval
<1>7. \A b \in Approvals : b # a => approval'[b] = approval[b]
  BY <1>1, <1>2, <1>5
<1>8. \A q \in Requests : request'[q] = request[q] \/ request'[q] = Idle
  BY DEF IInv, TypeOK, WriteApproval
<1>9. TypeOK'
  BY <1>2, <1>5, <1>6, <1>7
     DEF IInv, TypeOK, WriteApproval, Request, Idle, NoApproval, Approval
<1>10. ApprovalsAreTwoParty'
  BY <1>1, <1>3, <1>4, <1>6, <1>7 DEF IInv, ApprovalsAreTwoParty
<1>11. \A b \in Approvals :
         /\ approval[b].status # "none" => approval'[b].status # "none"
         /\ approval[b].approvedBy # None => approval'[b].approvedBy # None
         /\ approval'[b].operation = approval[b].operation
         /\ approval'[b].target = approval[b].target
         /\ approval'[b].requestedBy = approval[b].requestedBy
  BY <1>3, <1>4, <1>6, <1>7
<1>12. ApproversAreOthers'
  BY <1>8, <1>11 DEF IInv, ApproversAreOthers, Idle
<1>13. RequestsAreApproved'
  BY <1>8, <1>11 DEF IInv, RequestsAreApproved, RequestIsApproved, Idle
<1>14. RequestsAreNamed' /\ ExecutedIsTrue'
  BY <1>8 DEF IInv, RequestsAreNamed, ExecutedIsTrue, IsTrue, Idle, WriteApproval
<1>15. TwoPartyRule'
  <2>1. certificates' = certificates /\ destroyed' = destroyed
    BY DEF WriteApproval
  <2>2. \A b \in Approvals :
          approval[b].approvedBy # None /\ approval[b].approvedBy # approval[b].requestedBy
            => approval'[b].approvedBy # approval[b].requestedBy
    BY <1>3, <1>6, <1>7
  <2>3. QED
    BY <1>11, <2>1, <2>2 DEF IInv, TwoPartyRule
<1>16. QED
  BY <1>9, <1>10, <1>12, <1>13, <1>14, <1>15
     DEF IInv, ErasureIsCertified, RecordedAnswerIsTrue, WriteApproval

(***************************************************************************)
(* Erasures and destructions.                                              *)
(***************************************************************************)

LEMMA BeginRequestKeepsIInv ==
  ASSUME IInv, NEW r \in Requests, NEW admin \in Admins, NEW a \in Approvals,
         NEW key \in Key, NEW t \in Targets, BeginRequest(r, admin, a, key, t)
  PROVE  IInv'
<1> DEFINE missed == [Idle EXCEPT !.pc = "missed", !.actor = admin, !.id = a,
                                  !.key = key, !.target = t]
<1>1. request' = [request EXCEPT ![r] = missed]
  BY DEF BeginRequest
<1>2. /\ missed.pc = "missed"
      /\ missed.actor = admin
      /\ missed.id = a
      /\ missed.key = key
      /\ missed.target = t
  BY DEF Idle
<1>3. TypeOK'
  <2>1. missed \in Request
    BY DEF Idle, Request, NoApproval, Approval
  <2>2. QED
    BY <1>1, <2>1 DEF IInv, TypeOK, BeginRequest
<1> HIDE DEF missed
<1>4. \A q \in Requests : request'[q] = IF q = r THEN missed ELSE request[q]
  BY <1>1 DEF IInv, TypeOK
<1>5. ApproversAreOthers' /\ RequestsAreNamed'
  BY <1>2, <1>4 DEF IInv, ApproversAreOthers, RequestsAreNamed, BeginRequest
<1>6. ExecutedIsTrue'
  BY <1>2, <1>4 DEF IInv, ExecutedIsTrue, IsTrue, BeginRequest
<1>7. RequestsAreApproved'
  BY <1>2, <1>4 DEF IInv, RequestsAreApproved, RequestIsApproved, BeginRequest
<1>8. QED
  BY <1>3, <1>5, <1>6, <1>7, CommittedStateKept DEF IInv, BeginRequest

LEMMA LoadTargetKeepsIInv ==
  ASSUME IInv, NEW r \in Requests, LoadTarget(r)
  PROVE  IInv'
<1> DEFINE a == request[r].id
<1>1. /\ request[r].key \in Key
      /\ request[r].target \in Targets
      /\ request[r].actor \in Admins
      /\ a \in Approvals
  BY DEF IInv, RequestsAreNamed, LoadTarget
<1>2. request' = [request EXCEPT ![r].pc = "loaded", ![r].copy = approval[a]]
  BY DEF LoadTarget
<1>3. approval[a] \in Approval /\ request[r] \in Request
  BY <1>1 DEF IInv, TypeOK
<1>4. TypeOK'
  <2>1. [request[r] EXCEPT !.pc = "loaded", !.copy = approval[a]] \in Request
    BY <1>3 DEF Request
  <2>2. request' \in [Requests -> Request]
    BY <1>2, <2>1 DEF IInv, TypeOK
  <2>3. QED
    BY <2>2 DEF IInv, TypeOK, LoadTarget
<1>5. /\ request'[r].pc = "loaded"
      /\ request'[r].key = request[r].key
      /\ request'[r].target = request[r].target
      /\ request'[r].actor = request[r].actor
      /\ request'[r].id = a
      /\ request'[r].copy = approval[a]
  BY <1>2, <1>3 DEF IInv, TypeOK, Request
<1>6. \A q \in Requests : q # r => request'[q] = request[q]
  BY <1>2 DEF IInv, TypeOK
<1>7. /\ approval' = approval
      /\ certificates' = certificates
      /\ destroyed' = destroyed
  BY DEF LoadTarget
<1> HIDE DEF a
<1>8. ApproversAreOthers'
  BY <1>5, <1>6, <1>7 DEF IInv, ApproversAreOthers
<1>9. RequestsAreNamed'
  BY <1>1, <1>5, <1>6 DEF IInv, RequestsAreNamed
<1>10. ExecutedIsTrue'
  BY <1>5, <1>6, <1>7 DEF IInv, ExecutedIsTrue, IsTrue
<1>11. RequestIsApproved(r)'
  <2>1. /\ approval[a].status = "approved"
        /\ approval[a].operation = request[r].key[1]
        /\ approval[a].target = request[r].target
    BY DEF LoadTarget, Approved, a
  <2>2. /\ approval[a].requestedBy \in Admins
        /\ approval[a].approvedBy # approval[a].requestedBy
        /\ approval[a].approvedBy # None
    BY <1>1, <2>1 DEF IInv, ApprovalsAreTwoParty
  <2>3. approval[a].approvedBy \in Admins
    BY <1>3, <2>2 DEF Approval
  <2>4. QED
    BY <1>1, <1>5, <1>7, <2>1, <2>2, <2>3 DEF RequestIsApproved
<1>12. RequestsAreApproved'
  <2>1. ASSUME NEW q \in Requests, q # r, request'[q].pc = "loaded"
        PROVE  RequestIsApproved(q)'
    <3>1. request'[q] = request[q] /\ RequestIsApproved(q)
      BY <1>6, <2>1 DEF IInv, RequestsAreApproved
    <3>2. QED
      BY <1>7, <3>1 DEF RequestIsApproved
  <2>2. QED
    BY <1>11, <2>1 DEF RequestsAreApproved
<1>13. QED
  BY <1>4, <1>8, <1>9, <1>10, <1>12, CommittedStateKept DEF IInv, LoadTarget

\* What erasure and destroy have in common: the key is destroyed on an approval
\* that has an approver of its own, and the approval is used up.
LEMMA DestroysOnApproval ==
  ASSUME IInv, NEW r \in Requests, NEW op \in Operation, Destroys(r, op)
  PROVE  /\ RequestIsApproved(r)
         /\ request[r].key \in Key
         /\ request[r].target \in Targets
         /\ approval' \in [Approvals -> Approval]
         /\ destroyed' \subseteq Targets \X Operation
         /\ request' \in [Requests -> Request]
         /\ ApprovalsAreTwoParty'
         /\ ApproversAreOthers'
         /\ RequestsAreApproved'
         /\ RequestsAreNamed'
         /\ request'[r].pc = "executed"
         /\ request'[r].key = request[r].key
         /\ request'[r].target = request[r].target
         /\ \A q \in Requests : q # r => request'[q] = request[q]
         /\ \A d \in destroyed' :
              \E a \in Approvals :
                /\ approval'[a].target = d[1]
                /\ approval'[a].operation = d[2]
                /\ approval'[a].approvedBy # None
                /\ approval'[a].approvedBy # approval'[a].requestedBy
<1> DEFINE a == request[r].id
           t == request[r].target
<1>1. RequestIsApproved(r)
  BY DEF IInv, RequestsAreApproved, Destroys
<1>2. request[r].key \in Key /\ request[r].key[1] = op /\ t \in Targets
  BY DEF IInv, RequestsAreNamed, Destroys
<1>3. \A b \in Approvals :
        /\ approval'[b].operation = approval[b].operation
        /\ approval'[b].target = approval[b].target
        /\ approval'[b].requestedBy = approval[b].requestedBy
        /\ approval'[b].approvedBy = approval[b].approvedBy
        /\ approval'[b].status = IF b = a THEN "consumed" ELSE approval[b].status
  BY <1>1 DEF IInv, TypeOK, Approval, Destroys, RequestIsApproved
<1>4. /\ request'[r].pc = "executed"
      /\ request'[r].key = request[r].key
      /\ request'[r].target = t
      /\ request'[r].actor = request[r].actor
      /\ request'[r].id = a
      /\ \A q \in Requests : q # r => request'[q] = request[q]
  BY DEF IInv, TypeOK, Request, Destroys
<1>5. approval' \in [Approvals -> Approval]
  BY <1>1 DEF IInv, TypeOK, Approval, Destroys, RequestIsApproved
<1>6. request' \in [Requests -> Request]
  BY DEF IInv, TypeOK, Request, Destroys
<1>7. destroyed' = destroyed \cup {<<t, op>>}
  BY DEF Destroys
<1>8. a \in Approvals /\ request[r].actor \in Admins
  BY <1>1 DEF RequestIsApproved
<1>9. /\ approval[a].status # "none"
      /\ approval[a].operation = op
      /\ approval[a].target = t
      /\ approval[a].approvedBy # None
      /\ approval[a].approvedBy # approval[a].requestedBy
  BY <1>1, <1>2 DEF IInv, ApprovalsAreTwoParty, RequestIsApproved
<1> HIDE DEF a, t
<1>10. destroyed' \subseteq Targets \X Operation
  BY <1>2, <1>7 DEF IInv, TypeOK
<1>11. ApprovalsAreTwoParty'
  BY <1>3, <1>8, <1>9 DEF IInv, ApprovalsAreTwoParty
<1>12. ApproversAreOthers'
  BY <1>3, <1>4 DEF IInv, ApproversAreOthers
<1>13. RequestsAreApproved'
  BY <1>3, <1>4 DEF IInv, RequestsAreApproved, RequestIsApproved
<1>14. RequestsAreNamed'
  BY <1>2, <1>4, <1>8 DEF IInv, RequestsAreNamed
<1>15. ASSUME NEW d \in destroyed'
       PROVE  \E b \in Approvals : /\ approval'[b].target = d[1]
                                   /\ approval'[b].operation = d[2]
                                   /\ approval'[b].approvedBy # None
                                   /\ approval'[b].approvedBy # approval'[b].requestedBy
  <2>1. CASE d = <<t, op>>
    BY <1>3, <1>8, <1>9, <2>1
  <2>2. CASE d \in destroyed
    <3>1. PICK b \in Approvals : /\ approval[b].target = d[1]
                                 /\ approval[b].operation = d[2]
                                 /\ approval[b].approvedBy # None
                                 /\ approval[b].approvedBy # approval[b].requestedBy
      BY <2>2 DEF IInv, TwoPartyRule
    <3>2. QED
      BY <1>3, <3>1
  <2>3. QED
    BY <1>7, <2>1, <2>2
<1>16. QED
  BY <1>1, <1>2, <1>4, <1>5, <1>6, <1>10, <1>11, <1>12, <1>13, <1>14, <1>15 DEF t

\* The certificate names who requested and who approved, as the handler read
\* them.
LEMMA ExecuteErasureKeepsIInv ==
  ASSUME IInv, NEW r \in Requests, ExecuteErasure(r)
  PROVE  IInv'
<1> DEFINE t == request[r].target
           key == request[r].key
           c == CertificateOf(r)
<1>1. Destroys(r, "erasure") /\ "erasure" \in Operation
  BY DEF ExecuteErasure, Operation
<1>2. /\ RequestIsApproved(r)
      /\ key \in Key
      /\ t \in Targets
      /\ request'[r].pc = "executed"
      /\ request'[r].key = key
      /\ request'[r].target = t
      /\ \A q \in Requests : q # r => request'[q] = request[q]
  BY <1>1, DestroysOnApproval
<1>3. /\ destroyed' = destroyed \cup {<<t, "erasure">>}
      /\ certificates' = certificates \cup {c}
      /\ records' = records
  BY <1>1 DEF ExecuteErasure, Destroys
<1>4. /\ c.subject = t
      /\ c.key = key
      /\ c.requester # c.approver
  BY <1>2 DEF CertificateOf, RequestIsApproved
<1>5. c \in Certificate
  BY <1>2 DEF CertificateOf, Certificate, RequestIsApproved
<1> HIDE DEF c, t, key
<1>6. TypeOK'
  <2>1. /\ approval' \in [Approvals -> Approval]
        /\ destroyed' \subseteq Targets \X Operation
        /\ request' \in [Requests -> Request]
    BY <1>1, DestroysOnApproval
  <2>2. QED
    BY <1>3, <1>5, <2>1 DEF IInv, TypeOK
<1>7. /\ ApprovalsAreTwoParty'
      /\ ApproversAreOthers'
      /\ RequestsAreApproved'
      /\ RequestsAreNamed'
  BY <1>1, DestroysOnApproval
<1>8. TwoPartyRule'
  <2>1. \A d \in certificates' : d.requester # d.approver
    BY <1>3, <1>4 DEF IInv, TwoPartyRule
  <2>2. QED
    BY <1>1, <2>1, DestroysOnApproval DEF TwoPartyRule
<1>9. ErasureIsCertified'
  <2>1. \A u \in Targets : <<u, "erasure">> \in destroyed'
                             <=> (<<u, "erasure">> \in destroyed \/ u = t)
    BY <1>3
  <2>2. QED
    BY <1>2, <1>3, <1>4, <2>1 DEF IInv, ErasureIsCertified
<1>10. ExecutedIsTrue'
  <2>1. /\ <<t, key[1]>> \in destroyed'
        /\ \E d \in certificates' : d.key = key /\ d.subject = t
    BY <1>1, <1>3, <1>4 DEF Destroys, key
  <2>2. ASSUME NEW q \in Requests, q # r, request'[q].pc = "executed"
        PROVE  IsTrue(request[q].key, request[q].target)'
    <3>1. /\ IsTrue(request[q].key, request[q].target)
          /\ request'[q] = request[q]
      BY <1>2, <2>2 DEF IInv, ExecutedIsTrue
    <3>2. QED
      BY <1>3, <3>1 DEF IsTrue
  <2>3. IsTrue(request[r].key, request[r].target)'
    BY <1>2, <2>1 DEF IsTrue
  <2>4. QED
    BY <2>2, <2>3 DEF ExecutedIsTrue
<1>11. RecordedAnswerIsTrue'
  BY <1>3 DEF IInv, RecordedAnswerIsTrue
<1>12. QED
  BY <1>6, <1>7, <1>8, <1>9, <1>10, <1>11 DEF IInv

\* A destroy issues no certificate, and erases no subject.
LEMMA ExecuteDestroyKeepsIInv ==
  ASSUME IInv, NEW r \in Requests, ExecuteDestroy(r)
  PROVE  IInv'
<1> DEFINE t == request[r].target
           key == request[r].key
<1>1. Destroys(r, "destroy") /\ "destroy" \in Operation
  BY DEF ExecuteDestroy, Operation
<1>2. /\ key \in Key
      /\ key[1] = "destroy"
      /\ t \in Targets
      /\ request'[r].pc = "executed"
      /\ request'[r].key = key
      /\ request'[r].target = t
      /\ \A q \in Requests : q # r => request'[q] = request[q]
  BY <1>1, DestroysOnApproval DEF Destroys
<1>3. /\ destroyed' = destroyed \cup {<<t, "destroy">>}
      /\ certificates' = certificates
      /\ records' = records
  BY <1>1 DEF ExecuteDestroy, Destroys
<1> HIDE DEF t, key
<1>4. TypeOK'
  <2>1. /\ approval' \in [Approvals -> Approval]
        /\ destroyed' \subseteq Targets \X Operation
        /\ request' \in [Requests -> Request]
    BY <1>1, DestroysOnApproval
  <2>2. QED
    BY <1>3, <2>1 DEF IInv, TypeOK
<1>5. /\ ApprovalsAreTwoParty'
      /\ ApproversAreOthers'
      /\ RequestsAreApproved'
      /\ RequestsAreNamed'
  BY <1>1, DestroysOnApproval
<1>6. TwoPartyRule'
  <2>1. \A d \in certificates' : d.requester # d.approver
    BY <1>3 DEF IInv, TwoPartyRule
  <2>2. QED
    BY <1>1, <2>1, DestroysOnApproval DEF TwoPartyRule
<1>7. ErasureIsCertified'
  <2>1. \A u \in Targets :
          <<u, "erasure">> \in destroyed' <=> <<u, "erasure">> \in destroyed
    BY <1>3
  <2>2. QED
    BY <1>3, <2>1 DEF IInv, ErasureIsCertified
<1>8. ExecutedIsTrue'
  <2>1. <<t, key[1]>> \in destroyed' /\ key[1] # "erasure"
    BY <1>2, <1>3
  <2>2. ASSUME NEW q \in Requests, q # r, request'[q].pc = "executed"
        PROVE  IsTrue(request[q].key, request[q].target)'
    <3>1. /\ IsTrue(request[q].key, request[q].target)
          /\ request'[q] = request[q]
      BY <1>2, <2>2 DEF IInv, ExecutedIsTrue
    <3>2. QED
      BY <1>3, <3>1 DEF IsTrue
  <2>3. IsTrue(request[r].key, request[r].target)'
    BY <1>2, <2>1 DEF IsTrue
  <2>4. QED
    BY <2>2, <2>3 DEF ExecutedIsTrue
<1>9. RecordedAnswerIsTrue'
  BY <1>3 DEF IInv, RecordedAnswerIsTrue
<1>10. QED
  BY <1>4, <1>5, <1>6, <1>7, <1>8, <1>9 DEF IInv

LEMMA RecordAnswerKeepsIInv ==
  ASSUME IInv, NEW r \in Requests, RecordAnswer(r)
  PROVE  IInv'
<1> DEFINE t == request[r].target
           key == request[r].key
<1>1. key \in Key /\ t \in Targets /\ IsTrue(key, t)
  BY DEF IInv, RequestsAreNamed, ExecutedIsTrue, RecordAnswer
<1>2. TypeOK'
  BY <1>1 DEF IInv, TypeOK, RecordAnswer, Request, Idle, NoApproval, Approval
<1>3. \A q \in Requests : request'[q] = request[q] \/ request'[q] = Idle
  BY DEF IInv, TypeOK, RecordAnswer
<1>4. ApproversAreOthers' /\ RequestsAreNamed' /\ ExecutedIsTrue'
  BY <1>3 DEF IInv, ApproversAreOthers, RequestsAreNamed, ExecutedIsTrue, IsTrue, Idle,
              RecordAnswer
<1>5. RequestsAreApproved'
  BY <1>3 DEF IInv, RequestsAreApproved, RequestIsApproved, Idle, RecordAnswer
<1>6. RecordedAnswerIsTrue'
  <2>1. \A k \in Key : records'[k] = IF k = key THEN t ELSE records[k]
    BY <1>1 DEF IInv, TypeOK, RecordAnswer
  <2>2. destroyed' = destroyed /\ certificates' = certificates
    BY DEF RecordAnswer
  <2> HIDE DEF t, key
  <2>3. QED
    BY <1>1, <2>1, <2>2 DEF IInv, RecordedAnswerIsTrue, IsTrue
<1>7. QED
  BY <1>2, <1>4, <1>5, <1>6
     DEF IInv, ApprovalsAreTwoParty, TwoPartyRule, ErasureIsCertified, RecordAnswer

(***************************************************************************)
(* The invariant, and what follows from it.                                *)
(***************************************************************************)

LEMMA NextIInv == IInv /\ [Next]_vars => IInv'
<1> SUFFICES ASSUME IInv, [Next]_vars PROVE IInv'
  OBVIOUS
<1>1. ASSUME NEW r \in Requests, EndRequest(r) PROVE IInv'
  BY <1>1, EndKeepsIInv DEF EndRequest
<1>2. CASE UNCHANGED vars
  BY <1>2 DEF vars, IInv, TypeOK, ApprovalsAreTwoParty, ApproversAreOthers,
              RequestsAreApproved, RequestIsApproved, RequestsAreNamed,
              ExecutedIsTrue, IsTrue, TwoPartyRule, ErasureIsCertified,
              RecordedAnswerIsTrue
<1>3. QED
  BY <1>1, <1>2, CreateApprovalKeepsIInv, LoadApprovalKeepsIInv,
     WriteApprovalKeepsIInv, BeginRequestKeepsIInv, LoadTargetKeepsIInv,
     ExecuteErasureKeepsIInv, ExecuteDestroyKeepsIInv, RecordAnswerKeepsIInv DEF Next

LEMMA InductiveInvariant == Spec => []IInv
BY InitIInv, NextIInv, PTL DEF Spec

\* Every variable keeps its type.
THEOREM RequestsTypeCorrect == Spec => []TypeOK
<1>1. IInv => TypeOK
  BY DEF IInv
<1>2. QED
  BY <1>1, InductiveInvariant, PTL

\* FR-9.3 for any number of people: nothing is destroyed, and nothing certified,
\* on the word of fewer than two of them, however approvals and requests race.
THEOREM TwoPartyRuleHolds == Spec => []TwoPartyRule
<1>1. IInv => TwoPartyRule
  BY DEF IInv
<1>2. QED
  BY <1>1, InductiveInvariant, PTL

\* A subject was erased exactly if a certificate says so, wherever requests end
\* and whatever destroys of the same keys, which certify nothing, run beside them.
THEOREM ErasuresAreCertified == Spec => []ErasureIsCertified
<1>1. IInv => ErasureIsCertified
  BY DEF IInv
<1>2. QED
  BY <1>1, InductiveInvariant, PTL

\* A recorded answer names a target that the operation of its key destroyed, and
\* for an erasure there is the certificate of that key and subject, though the
\* key does not name the target and may come with several.
THEOREM RecordedAnswersAreTrue == Spec => []RecordedAnswerIsTrue
<1>1. IInv => RecordedAnswerIsTrue
  BY DEF IInv
<1>2. QED
  BY <1>1, InductiveInvariant, PTL
=============================================================================
