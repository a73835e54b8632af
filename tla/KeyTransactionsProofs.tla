------------------------ MODULE KeyTransactionsProofs ------------------------
(***************************************************************************)
(* Safety of KeyTransactions for any number of server threads, subjects    *)
(* and envelopes and any batch size.                                       *)
(***************************************************************************)
EXTENDS KeyTransactions, FiniteSetTheorems, TLAPS

\* What a row holds that has once held the tombstone.
ShreddedOrRewrapped(s) ==
  /\ row[s].state # "none"
  /\ \/ row[s].wrapped = Tombstone
     \/ row[s].kek = "new" /\ row[s].wrapped = "new" /\ s <= job.cursor

\* A request under way works on a copy that was true when it was read: rows
\* have not been counted down since, and what it was accepted for still shows
\* in the copy.
CopiesWereTrue ==
  \A r \in Requests :
    request[r].op \in SubjectOperation =>
      /\ request[r].subject \in Subjects
      /\ request[r].copy.count <= envelopes[request[r].subject]
      /\ request[r].copy.state = "none" =>
           /\ request[r].copy.certified = 0
           /\ request[r].copy.wrapped = request[r].copy.kek
      /\ request[r].copy.wrapped = Tombstone => ShreddedOrRewrapped(request[r].subject)
      /\ request[r].op = "revoke" => request[r].copy.state \notin {"none", "destroyed"}

CountsNeverOverclaim ==
  \A s \in Subjects : row[s].count <= envelopes[s]

\* The batch the worker holds lies beyond the cursor, which only the worker
\* moves.
BatchIsAhead ==
  worker.pc = "loaded" =>
    /\ worker.sending \subseteq worker.batch
    /\ \A s \in worker.batch : s > job.cursor

\* The active KEK is held, and nobody is about to destroy it.
ActiveKekIsSafe ==
  old.state = "active" =>
    old.held /\ \A r \in Requests : request[r].op \notin KekDestruction

BeingDestroyed ==
  ~old.held \/ \E r \in Requests : request[r].op \in KekDestruction

\* Once the dependents of the old KEK have been counted, keys in service under
\* it are latecomers.
OnlyLatecomersLeft ==
  BeingDestroyed =>
    \A s \in Subjects : row[s].state = "active" /\ row[s].kek = "old" => s \in late

IInv ==
  /\ TypeOK
  /\ CopiesWereTrue
  /\ CountsNeverOverclaim
  /\ BatchIsAhead
  /\ ActiveKekIsSafe
  /\ OnlyLatecomersLeft
  /\ KeysInServiceIntact
  /\ CertificateNeverOverclaims
  /\ ResurrectedOnlyByRewrap

LEMMA InitIInv == Init => IInv
<1> SUFFICES ASSUME Init PROVE IInv
  OBVIOUS
<1>1. TypeOK
  BY NumSubjectsAssumption, MaxEnvelopesAssumption
     DEF Init, TypeOK, Row, NoRow, Kek, Request, Idle, WorkerState, WorkerIdle, Operation
<1>2. \A r \in Requests : request[r].op = "none"
  BY DEF Init, Idle
<1>3. CopiesWereTrue /\ ActiveKekIsSafe /\ OnlyLatecomersLeft
  BY <1>2 DEF Init, CopiesWereTrue, ActiveKekIsSafe, OnlyLatecomersLeft, BeingDestroyed,
              SubjectOperation, KekDestruction
<1>4. QED
  BY <1>1, <1>3 DEF Init, IInv, CountsNeverOverclaim, BatchIsAhead, KeysInServiceIntact,
     CertificateNeverOverclaims, ResurrectedOnlyByRewrap, NoRow, WorkerIdle

(***************************************************************************)
(* What the requests on subject keys share.                                *)
(***************************************************************************)

\* A request that ends says nothing any more, and the copies of the others stay
\* true as long as envelopes only grow and the rows that once held the tombstone
\* change only by the rewrap.
LEMMA OthersCopiesStayTrue ==
  ASSUME IInv, NEW r \in Requests, Done(r),
         envelopes' \in [Subjects -> Nat],
         \A s \in Subjects : envelopes[s] <= envelopes'[s],
         \A s \in Subjects : ShreddedOrRewrapped(s) => ShreddedOrRewrapped(s)'
  PROVE  /\ request' \in [Requests -> Request]
         /\ CopiesWereTrue'
         /\ \A q \in Requests :
              request'[q].op \in KekDestruction => request[q].op \in KekDestruction
<1>1. Idle \in Request
  BY DEF Idle, Request, Operation, NoRow, Row, Kek
<1>2. request' \in [Requests -> Request]
  BY <1>1 DEF IInv, TypeOK, Done
<1>3. \A q \in Requests : request'[q] = request[q] \/ request'[q].op = "none"
  BY DEF IInv, TypeOK, Done, Idle
<1>4. ASSUME NEW q \in Requests, request[q].op \in SubjectOperation
      PROVE  request[q].copy.count <= envelopes'[request[q].subject]
  <2>1. request[q].copy.count \in Nat
    BY DEF IInv, TypeOK, Request, Row
  <2>2. /\ request[q].subject \in Subjects
        /\ request[q].copy.count <= envelopes[request[q].subject]
    BY <1>4 DEF IInv, CopiesWereTrue
  <2>3. envelopes[request[q].subject] \in Nat /\ envelopes'[request[q].subject] \in Nat
    BY <2>2 DEF IInv, TypeOK
  <2>4. QED
    BY <2>1, <2>2, <2>3
<1>5. CopiesWereTrue'
  <2> SUFFICES ASSUME NEW q \in Requests, request'[q].op \in SubjectOperation
               PROVE  /\ request'[q].subject \in Subjects
                      /\ request'[q].copy.count <= envelopes'[request'[q].subject]
                      /\ request'[q].copy.state = "none" =>
                           /\ request'[q].copy.certified = 0
                           /\ request'[q].copy.wrapped = request'[q].copy.kek
                      /\ request'[q].copy.wrapped = Tombstone =>
                           ShreddedOrRewrapped(request[q].subject)'
                      /\ request'[q].op = "revoke" =>
                           request'[q].copy.state \notin {"none", "destroyed"}
    BY DEF CopiesWereTrue
  <2>1. request'[q] = request[q]
    BY <1>3 DEF SubjectOperation
  <2>2. QED
    BY <1>4, <2>1 DEF IInv, CopiesWereTrue
<1>6. QED
  BY <1>2, <1>3, <1>5 DEF KekDestruction

(***************************************************************************)
(* Requests on subject keys.                                               *)
(***************************************************************************)

LEMMA LoadKeepsIInv ==
  ASSUME IInv, NEW r \in Requests, NEW op \in SubjectOperation,
         NEW s \in Subjects, Load(r, op, s)
  PROVE  IInv'
<1> DEFINE copy == IF row[s].state = "none" THEN NoRow(Active) ELSE row[s]
           loaded == [op |-> op, subject |-> s, copy |-> copy]
<1>1. request' = [request EXCEPT ![r] = loaded]
  BY DEF Load
<1>2. row[s] \in Row /\ Active \in Kek /\ envelopes[s] \in Nat
  BY DEF IInv, TypeOK, Active, Kek
<1>3. copy \in Row
  BY <1>2 DEF NoRow, Row
<1>4. TypeOK'
  BY <1>1, <1>3 DEF IInv, TypeOK, Load, Request, Operation
<1>5. /\ copy.count <= envelopes[s]
      /\ copy.state = "none" => copy.certified = 0 /\ copy.wrapped = copy.kek
  BY <1>2 DEF IInv, CountsNeverOverclaim, NoRow
<1>6. op = "revoke" => copy.state \notin {"none", "destroyed"}
  BY DEF Load, Accepts, SubjectKeyMayBecome, SubjectKeyTransitions
<1>7. copy.wrapped = Tombstone => ShreddedOrRewrapped(s)
  BY <1>2 DEF NoRow, Tombstone, Kek, ShreddedOrRewrapped
<1> HIDE DEF copy
<1>8. \A q \in Requests : request'[q] = IF q = r THEN loaded ELSE request[q]
  BY <1>1 DEF IInv, TypeOK
<1>9. CopiesWereTrue'
  BY <1>5, <1>6, <1>7, <1>8 DEF IInv, CopiesWereTrue, ShreddedOrRewrapped, Load
<1>10. \A q \in Requests :
         request'[q].op \in KekDestruction => request[q].op \in KekDestruction
  BY <1>8 DEF SubjectOperation, KekDestruction
<1>11. ActiveKekIsSafe' /\ OnlyLatecomersLeft'
  BY <1>10 DEF IInv, ActiveKekIsSafe, OnlyLatecomersLeft, BeingDestroyed, Load
<1>12. QED
  BY <1>4, <1>9, <1>11
     DEF IInv, CountsNeverOverclaim, BatchIsAhead, KeysInServiceIntact, Holds,
         CertificateNeverOverclaims, ResurrectedOnlyByRewrap, Load

\* The key is born under the KEK its copy names; when that is not the active one
\* any more, it is a latecomer.
LEMMA InsertSubjectKeyKeepsIInv ==
  ASSUME IInv, NEW r \in Requests, InsertSubjectKey(r)
  PROVE  IInv'
<1> DEFINE s == request[r].subject
           copy == request[r].copy
           new == [copy EXCEPT !.state = "active", !.count = 1]
<1>1. /\ s \in Subjects
      /\ copy \in Row
      /\ copy.certified = 0
      /\ copy.wrapped = copy.kek
  BY DEF IInv, TypeOK, CopiesWereTrue, InsertSubjectKey, Request, SubjectOperation
<1>2. /\ row' = [row EXCEPT ![s] = new]
      /\ envelopes' = [envelopes EXCEPT ![s] = @ + 1]
      /\ envelopes[s] < MaxEnvelopes
      /\ row[s].state = "none"
      /\ late' = IF copy.kek # Active THEN late \cup {s} ELSE late
      /\ Done(r)
      /\ UNCHANGED <<old, job, worker>>
  BY DEF InsertSubjectKey
<1>3. /\ new \in Row
      /\ new.state = "active"
      /\ new.count = 1
      /\ new.certified = 0
      /\ new.wrapped = new.kek
      /\ new.kek = copy.kek
  BY <1>1 DEF Row, KeyState
<1> HIDE DEF s, copy, new
<1>4. /\ envelopes' \in [Subjects -> 0 .. MaxEnvelopes]
      /\ envelopes' \in [Subjects -> Nat]
      /\ \A u \in Subjects : envelopes[u] <= envelopes'[u]
      /\ envelopes'[s] >= 1
  BY <1>1, <1>2, MaxEnvelopesAssumption DEF IInv, TypeOK
<1>5. \A u \in Subjects : row'[u] = IF u = s THEN new ELSE row[u]
  BY <1>2 DEF IInv, TypeOK
<1>6. \A u \in Subjects : ShreddedOrRewrapped(u) => ShreddedOrRewrapped(u)'
  BY <1>2, <1>5 DEF ShreddedOrRewrapped
<1>7. /\ request' \in [Requests -> Request]
      /\ CopiesWereTrue'
      /\ \A q \in Requests :
           request'[q].op \in KekDestruction => request[q].op \in KekDestruction
  BY <1>2, <1>4, <1>6, OthersCopiesStayTrue
<1>8. TypeOK'
  BY <1>1, <1>2, <1>3, <1>4, <1>7 DEF IInv, TypeOK
<1>9. CountsNeverOverclaim' /\ CertificateNeverOverclaims'
  <2>1. \A u \in Subjects : /\ row[u].count \in Nat
                            /\ row[u].certified \in Nat
                            /\ envelopes[u] \in Nat
                            /\ envelopes'[u] \in Nat
    BY <1>4 DEF IInv, TypeOK, Row
  <2>2. QED
    BY <1>3, <1>4, <1>5, <2>1 DEF IInv, CountsNeverOverclaim, CertificateNeverOverclaims
<1>10. ActiveKekIsSafe'
  BY <1>2, <1>7 DEF IInv, ActiveKekIsSafe
<1>11. OnlyLatecomersLeft'
  <2> SUFFICES ASSUME BeingDestroyed', NEW u \in Subjects,
                      row'[u].state = "active", row'[u].kek = "old"
               PROVE  u \in late'
    BY DEF OnlyLatecomersLeft
  <2>1. BeingDestroyed /\ old.state # "active"
    BY <1>2, <1>7 DEF BeingDestroyed, IInv, ActiveKekIsSafe
  <2>2. CASE u = s
    BY <1>2, <1>3, <1>5, <2>1, <2>2 DEF Active
  <2>3. CASE u # s
    BY <1>2, <1>5, <2>1, <2>3 DEF IInv, OnlyLatecomersLeft
  <2>4. QED
    BY <2>2, <2>3
<1>12. KeysInServiceIntact' /\ ResurrectedOnlyByRewrap'
  <2>1. ResurrectedOnlyByRewrap'
    BY <1>2, <1>3, <1>5 DEF IInv, ResurrectedOnlyByRewrap
  <2>2. \A u \in Subjects : row'[u].state = "active" => row'[u].wrapped = row'[u].kek
    BY <1>3, <1>5 DEF IInv, KeysInServiceIntact
  <2>3. QED
    BY <1>11, <2>1, <2>2
       DEF OnlyLatecomersLeft, BeingDestroyed, KeysInServiceIntact, Holds
<1>13. QED
  BY <1>2, <1>7, <1>8, <1>9, <1>10, <1>11, <1>12 DEF IInv, BatchIsAhead

\* record_count may be set back by a stale copy; it never runs ahead.
LEMMA WriteEnvelopeKeepsIInv ==
  ASSUME IInv, NEW r \in Requests, WriteEnvelope(r)
  PROVE  IInv'
<1> DEFINE s == request[r].subject
           n == request[r].copy.count
<1>1. /\ s \in Subjects
      /\ n \in Nat
      /\ n <= envelopes[s]
  BY DEF IInv, TypeOK, CopiesWereTrue, WriteEnvelope, Request, Row, SubjectOperation
<1>2. /\ row' = [row EXCEPT ![s].count = n + 1]
      /\ envelopes' = [envelopes EXCEPT ![s] = @ + 1]
      /\ envelopes[s] < MaxEnvelopes
      /\ Done(r)
      /\ UNCHANGED <<old, job, worker, late>>
  BY DEF WriteEnvelope
<1> HIDE DEF s, n
<1>3. /\ envelopes' \in [Subjects -> 0 .. MaxEnvelopes]
      /\ envelopes' \in [Subjects -> Nat]
      /\ \A u \in Subjects : envelopes[u] <= envelopes'[u]
      /\ envelopes'[s] = envelopes[s] + 1
  BY <1>1, <1>2, MaxEnvelopesAssumption DEF IInv, TypeOK
<1>4. \A u \in Subjects :
        /\ row'[u].state = row[u].state
        /\ row'[u].kek = row[u].kek
        /\ row'[u].wrapped = row[u].wrapped
        /\ row'[u].certified = row[u].certified
        /\ row'[u].count = IF u = s THEN n + 1 ELSE row[u].count
  BY <1>2 DEF IInv, TypeOK, Row
<1>5. \A u \in Subjects : ShreddedOrRewrapped(u) => ShreddedOrRewrapped(u)'
  BY <1>2, <1>4 DEF ShreddedOrRewrapped
<1>6. /\ request' \in [Requests -> Request]
      /\ CopiesWereTrue'
      /\ \A q \in Requests :
           request'[q].op \in KekDestruction => request[q].op \in KekDestruction
  BY <1>2, <1>3, <1>5, OthersCopiesStayTrue
<1>7. TypeOK'
  <2>1. row' \in [Subjects -> Row]
    BY <1>1, <1>2 DEF IInv, TypeOK, Row
  <2>2. QED
    BY <1>2, <1>3, <1>6, <2>1 DEF IInv, TypeOK
<1>8. CountsNeverOverclaim' /\ CertificateNeverOverclaims'
  <2>1. \A u \in Subjects : /\ row[u].count \in Nat
                            /\ row[u].certified \in Nat
                            /\ envelopes[u] \in Nat
                            /\ envelopes'[u] \in Nat
    BY <1>3 DEF IInv, TypeOK, Row
  <2>2. QED
    BY <1>1, <1>3, <1>4, <2>1 DEF IInv, CountsNeverOverclaim, CertificateNeverOverclaims
<1>9. ActiveKekIsSafe' /\ OnlyLatecomersLeft'
  BY <1>2, <1>4, <1>6 DEF IInv, ActiveKekIsSafe, OnlyLatecomersLeft, BeingDestroyed
<1>10. KeysInServiceIntact' /\ ResurrectedOnlyByRewrap'
  BY <1>2, <1>4 DEF IInv, KeysInServiceIntact, Holds, ResurrectedOnlyByRewrap
<1>11. QED
  BY <1>2, <1>6, <1>7, <1>8, <1>9, <1>10 DEF IInv, BatchIsAhead

LEMMA WriteRevokedKeepsIInv ==
  ASSUME IInv, NEW r \in Requests, WriteRevoked(r)
  PROVE  IInv'
<1> DEFINE s == request[r].subject
<1>1. s \in Subjects
  BY DEF IInv, CopiesWereTrue, WriteRevoked, SubjectOperation
<1>2. /\ row' = [row EXCEPT ![s].state = "revoked"]
      /\ Done(r)
      /\ UNCHANGED <<old, envelopes, job, worker, late>>
  BY DEF WriteRevoked
<1> HIDE DEF s
<1>3. /\ envelopes' \in [Subjects -> Nat]
      /\ \A u \in Subjects : envelopes[u] <= envelopes'[u]
  BY <1>2 DEF IInv, TypeOK
<1>4. \A u \in Subjects :
        /\ row'[u].state = IF u = s THEN "revoked" ELSE row[u].state
        /\ row'[u].kek = row[u].kek
        /\ row'[u].wrapped = row[u].wrapped
        /\ row'[u].certified = row[u].certified
        /\ row'[u].count = row[u].count
  BY <1>2 DEF IInv, TypeOK, Row
<1>5. \A u \in Subjects : ShreddedOrRewrapped(u) => ShreddedOrRewrapped(u)'
  BY <1>2, <1>4 DEF ShreddedOrRewrapped
<1>6. /\ request' \in [Requests -> Request]
      /\ CopiesWereTrue'
      /\ \A q \in Requests :
           request'[q].op \in KekDestruction => request[q].op \in KekDestruction
  BY <1>2, <1>3, <1>5, OthersCopiesStayTrue
<1>7. TypeOK'
  <2>1. row' \in [Subjects -> Row]
    BY <1>1, <1>2 DEF IInv, TypeOK, Row, KeyState
  <2>2. QED
    BY <1>2, <1>6, <2>1 DEF IInv, TypeOK
<1>8. ActiveKekIsSafe' /\ OnlyLatecomersLeft'
  BY <1>2, <1>4, <1>6 DEF IInv, ActiveKekIsSafe, OnlyLatecomersLeft, BeingDestroyed
<1>9. QED
  BY <1>2, <1>4, <1>6, <1>7, <1>8
     DEF IInv, BatchIsAhead, CountsNeverOverclaim, CertificateNeverOverclaims,
         KeysInServiceIntact, Holds, ResurrectedOnlyByRewrap

\* A tombstone that the UPDATE leaves out, since the copy had it already, is
\* still in the row, or the rewrap has replaced it.
LEMMA WriteDestroyedKeepsIInv ==
  ASSUME IInv, NEW r \in Requests, WriteDestroyed(r)
  PROVE  IInv'
<1> DEFINE s == request[r].subject
           copy == request[r].copy
           w == Flushed(Tombstone, copy.wrapped, row[s].wrapped)
           n == Flushed(copy.count, copy.certified, row[s].certified)
<1>1. /\ s \in Subjects
      /\ copy.count \in Nat
      /\ copy.count <= envelopes[s]
      /\ row[s].wrapped = w \/ w = Tombstone
      /\ copy.wrapped = Tombstone => ShreddedOrRewrapped(s)
  BY DEF IInv, TypeOK, CopiesWereTrue, WriteDestroyed, Request, Row, SubjectOperation,
         Flushed
<1>2. row[s] \in Row /\ envelopes[s] \in Nat /\ row[s].certified <= envelopes[s]
  BY <1>1 DEF IInv, TypeOK, CertificateNeverOverclaims
<1>3. n \in Nat /\ n <= envelopes[s]
  BY <1>1, <1>2 DEF Flushed, Row
<1>4. w # Tombstone => w = row[s].wrapped /\ ShreddedOrRewrapped(s)
  BY <1>1 DEF Flushed
<1>5. /\ row' = [row EXCEPT ![s].state = "destroyed", ![s].wrapped = w,
                            ![s].certified = n]
      /\ Done(r)
      /\ UNCHANGED <<old, envelopes, job, worker, late>>
  BY DEF WriteDestroyed
<1> HIDE DEF s, copy, w, n
<1>6. /\ envelopes' \in [Subjects -> Nat]
      /\ \A u \in Subjects : envelopes[u] <= envelopes'[u]
  BY <1>5 DEF IInv, TypeOK
<1>7. \A u \in Subjects :
        /\ row'[u].count = row[u].count
        /\ row'[u].kek = row[u].kek
        /\ u # s => row'[u] = row[u]
  BY <1>5 DEF IInv, TypeOK, Row
<1>8. /\ row'[s].state = "destroyed"
      /\ row'[s].wrapped = w
      /\ row'[s].certified = n
  BY <1>1, <1>5 DEF IInv, TypeOK, Row
<1>9. \A u \in Subjects : ShreddedOrRewrapped(u) => ShreddedOrRewrapped(u)'
  BY <1>1, <1>5, <1>7, <1>8 DEF ShreddedOrRewrapped
<1>10. /\ request' \in [Requests -> Request]
       /\ CopiesWereTrue'
       /\ \A q \in Requests :
            request'[q].op \in KekDestruction => request[q].op \in KekDestruction
  BY <1>5, <1>6, <1>9, OthersCopiesStayTrue
<1>11. TypeOK'
  <2> DEFINE tombstone == [row[s] EXCEPT !.state = "destroyed", !.wrapped = w,
                                         !.certified = n]
  <2>1. w \in Kek \cup {Tombstone}
    BY <1>1, <1>2 DEF Row
  <2>2. tombstone \in Row
    BY <1>2, <1>3, <2>1 DEF Row, KeyState
  <2>3. row' = [row EXCEPT ![s] = tombstone]
    BY <1>1, <1>5 DEF IInv, TypeOK
  <2>4. row' \in [Subjects -> Row]
    BY <2>2, <2>3 DEF IInv, TypeOK
  <2>5. QED
    BY <1>5, <1>10, <2>4 DEF IInv, TypeOK
<1>12. CountsNeverOverclaim' /\ CertificateNeverOverclaims'
  BY <1>3, <1>5, <1>7, <1>8 DEF IInv, CountsNeverOverclaim, CertificateNeverOverclaims
<1>13. ActiveKekIsSafe' /\ OnlyLatecomersLeft'
  BY <1>5, <1>7, <1>8, <1>10
     DEF IInv, ActiveKekIsSafe, OnlyLatecomersLeft, BeingDestroyed
<1>14. KeysInServiceIntact'
  BY <1>5, <1>7, <1>8 DEF IInv, KeysInServiceIntact, Holds
<1>15. ResurrectedOnlyByRewrap'
  <2> SUFFICES ASSUME NEW u \in Subjects, row'[u].state = "destroyed",
                      row'[u].wrapped # Tombstone
               PROVE  /\ row'[u].kek = "new" /\ row'[u].wrapped = "new"
                      /\ u <= job'.cursor
    BY DEF ResurrectedOnlyByRewrap
  <2>1. CASE u = s
    BY <1>4, <1>5, <1>7, <1>8, <2>1 DEF ShreddedOrRewrapped
  <2>2. CASE u # s
    BY <1>5, <1>7, <2>2 DEF IInv, ResurrectedOnlyByRewrap
  <2>3. QED
    BY <2>1, <2>2
<1>16. QED
  BY <1>5, <1>10, <1>11, <1>12, <1>13, <1>14, <1>15 DEF IInv, BatchIsAhead

LEMMA AbandonKeepsIInv ==
  ASSUME IInv, NEW r \in Requests, Abandon(r)
  PROVE  IInv'
<1>1. Done(r) /\ UNCHANGED <<old, row, envelopes, job, worker, late>>
  BY DEF Abandon
<1>2. /\ envelopes' \in [Subjects -> Nat]
      /\ \A u \in Subjects : envelopes[u] <= envelopes'[u]
      /\ \A u \in Subjects : ShreddedOrRewrapped(u) => ShreddedOrRewrapped(u)'
  BY <1>1 DEF IInv, TypeOK, ShreddedOrRewrapped
<1>3. /\ request' \in [Requests -> Request]
      /\ CopiesWereTrue'
      /\ \A q \in Requests :
           request'[q].op \in KekDestruction => request[q].op \in KekDestruction
  BY <1>1, <1>2, OthersCopiesStayTrue
<1>4. ActiveKekIsSafe' /\ OnlyLatecomersLeft'
  BY <1>1, <1>3 DEF IInv, ActiveKekIsSafe, OnlyLatecomersLeft, BeingDestroyed
<1>5. QED
  BY <1>1, <1>3, <1>4
     DEF IInv, TypeOK, BatchIsAhead, CountsNeverOverclaim, CertificateNeverOverclaims,
         KeysInServiceIntact, Holds, ResurrectedOnlyByRewrap

(***************************************************************************)
(* The rotation and the destruction of the old KEK.                        *)
(***************************************************************************)

LEMMA SomeSubjectsAreCounted ==
  ASSUME NEW S \in SUBSET Subjects
  PROVE  IsFiniteSet(S) /\ Cardinality(S) \in Nat
<1>1. IsFiniteSet(Subjects)
  BY NumSubjectsAssumption, FS_Interval DEF Subjects
<1>2. IsFiniteSet(S)
  BY <1>1, FS_Subset
<1>3. QED
  BY <1>2, FS_CardinalityType

LEMMA RotateKeepsIInv ==
  ASSUME IInv, Rotate
  PROVE  IInv'
<1>1. LiveUnderOld \in Nat
  BY SomeSubjectsAreCounted DEF LiveUnderOld
<1>2. /\ job' = [job EXCEPT !.state = "running", !.total = LiveUnderOld]
      /\ old' = [old EXCEPT !.state = "deprecated"]
      /\ UNCHANGED <<row, envelopes, request, worker, late>>
  BY DEF Rotate
<1>3. /\ TypeOK'
      /\ job'.cursor = job.cursor
      /\ old'.state = "deprecated"
      /\ old'.held = old.held
  BY <1>1, <1>2 DEF IInv, TypeOK
<1>4. CopiesWereTrue' /\ ResurrectedOnlyByRewrap'
  BY <1>2, <1>3 DEF IInv, CopiesWereTrue, ShreddedOrRewrapped, ResurrectedOnlyByRewrap
<1>5. ActiveKekIsSafe' /\ OnlyLatecomersLeft' /\ KeysInServiceIntact'
  BY <1>2, <1>3 DEF IInv, ActiveKekIsSafe, OnlyLatecomersLeft, BeingDestroyed,
                    KeysInServiceIntact, Holds
<1>6. QED
  BY <1>2, <1>3, <1>4, <1>5
     DEF IInv, BatchIsAhead, CountsNeverOverclaim, CertificateNeverOverclaims

\* With no dependents counted nothing in service is under the old KEK.
LEMMA CountForKekKeepsIInv ==
  ASSUME IInv, NEW r \in Requests, CountForKek(r)
  PROVE  IInv'
<1> DEFINE counted == [Idle EXCEPT !.op = "counted"]
           live == {s \in Subjects : row[s].kek = "old" /\
                      row[s].state \notin {"none", "destroyed"}}
<1>1. /\ request' = [request EXCEPT ![r] = counted]
      /\ UNCHANGED <<old, row, envelopes, job, worker, late>>
  BY DEF CountForKek
<1>2. counted \in Request /\ counted.op = "counted"
  BY DEF Idle, Request, Operation, KekDestruction, NoRow, Row, Kek
<1> HIDE DEF counted
<1>3. \A q \in Requests : request'[q] = IF q = r THEN counted ELSE request[q]
  BY <1>1 DEF IInv, TypeOK
<1>4. TypeOK'
  BY <1>1, <1>2 DEF IInv, TypeOK
<1>5. CopiesWereTrue'
  BY <1>1, <1>2, <1>3
     DEF IInv, CopiesWereTrue, ShreddedOrRewrapped, SubjectOperation
<1>6. ActiveKekIsSafe'
  <2>1. old.state # "active"
    BY DEF CountForKek, KekMayBecome, KekTransitions
  <2>2. QED
    BY <1>1, <2>1 DEF ActiveKekIsSafe
<1>7. OnlyLatecomersLeft'
  <2>1. live = {}
    <3>1. Cardinality(live) = 0
      BY DEF CountForKek, LiveUnderOld
    <3>2. IsFiniteSet(live)
      BY SomeSubjectsAreCounted
    <3>3. QED
      BY <3>1, <3>2, FS_EmptySet
  <2>2. \A s \in Subjects : ~(row[s].state = "active" /\ row[s].kek = "old")
    BY <2>1
  <2>3. QED
    BY <1>1, <2>2 DEF OnlyLatecomersLeft
<1>8. QED
  BY <1>1, <1>4, <1>5, <1>6, <1>7
     DEF IInv, BatchIsAhead, CountsNeverOverclaim, CertificateNeverOverclaims,
         KeysInServiceIntact, Holds, ResurrectedOnlyByRewrap

LEMMA ShredKekKeepsIInv ==
  ASSUME IInv, NEW r \in Requests, ShredKek(r)
  PROVE  IInv'
<1>1. /\ request[r].op = "counted"
      /\ old' = [old EXCEPT !.held = FALSE]
      /\ request' = [request EXCEPT ![r].op = "shredded"]
      /\ UNCHANGED <<row, envelopes, job, worker, late>>
  BY DEF ShredKek
<1>2. TypeOK'
  BY <1>1 DEF IInv, TypeOK, Request, Operation, KekDestruction
<1>3. /\ \A q \in Requests : q # r => request'[q] = request[q]
      /\ request'[r].op = "shredded"
      /\ old'.state = old.state
  BY <1>1 DEF IInv, TypeOK, Request
<1>4. CopiesWereTrue'
  BY <1>1, <1>3 DEF IInv, CopiesWereTrue, ShreddedOrRewrapped, SubjectOperation
<1>5. BeingDestroyed /\ old.state # "active"
  BY <1>1 DEF BeingDestroyed, KekDestruction, IInv, ActiveKekIsSafe
<1>6. ActiveKekIsSafe' /\ OnlyLatecomersLeft'
  BY <1>1, <1>3, <1>5 DEF IInv, ActiveKekIsSafe, OnlyLatecomersLeft
<1>7. KeysInServiceIntact'
  BY <1>1, <1>5 DEF IInv, OnlyLatecomersLeft, KeysInServiceIntact, Holds
<1>8. QED
  BY <1>1, <1>2, <1>4, <1>6, <1>7
     DEF IInv, BatchIsAhead, CountsNeverOverclaim, CertificateNeverOverclaims,
         ResurrectedOnlyByRewrap

LEMMA WriteKekDestroyedKeepsIInv ==
  ASSUME IInv, NEW r \in Requests, WriteKekDestroyed(r)
  PROVE  IInv'
<1>1. /\ old' = [old EXCEPT !.state = "destroyed"]
      /\ Done(r)
      /\ UNCHANGED <<row, envelopes, job, worker, late>>
  BY DEF WriteKekDestroyed
<1>2. /\ envelopes' \in [Subjects -> Nat]
      /\ \A u \in Subjects : envelopes[u] <= envelopes'[u]
      /\ \A u \in Subjects : ShreddedOrRewrapped(u) => ShreddedOrRewrapped(u)'
  BY <1>1 DEF IInv, TypeOK, ShreddedOrRewrapped
<1>3. /\ request' \in [Requests -> Request]
      /\ CopiesWereTrue'
      /\ \A q \in Requests :
           request'[q].op \in KekDestruction => request[q].op \in KekDestruction
  BY <1>1, <1>2, OthersCopiesStayTrue
<1>4. TypeOK' /\ old'.state = "destroyed" /\ old'.held = old.held
  BY <1>1, <1>3 DEF IInv, TypeOK
<1>5. ActiveKekIsSafe' /\ OnlyLatecomersLeft' /\ KeysInServiceIntact'
  BY <1>1, <1>3, <1>4
     DEF IInv, ActiveKekIsSafe, OnlyLatecomersLeft, BeingDestroyed, KeysInServiceIntact,
         Holds
<1>6. QED
  BY <1>1, <1>3, <1>4, <1>5
     DEF IInv, BatchIsAhead, CountsNeverOverclaim, CertificateNeverOverclaims,
         ResurrectedOnlyByRewrap

(***************************************************************************)
(* The worker.                                                             *)
(***************************************************************************)

LEMMA WorkerLoadKeepsIInv ==
  ASSUME IInv, WorkerLoad
  PROVE  IInv'
<1>1. PICK batch \in SUBSET {s \in Subjects : s > job.cursor} :
        \E sending \in SUBSET batch :
          worker' = [pc |-> "loaded", batch |-> batch, sending |-> sending]
  BY DEF WorkerLoad
<1>2. UNCHANGED <<old, row, envelopes, job, request, late>>
  BY DEF WorkerLoad
<1>3. TypeOK' /\ BatchIsAhead'
  BY <1>1, <1>2 DEF IInv, TypeOK, WorkerState, BatchIsAhead
<1>4. QED
  BY <1>2, <1>3
     DEF IInv, CopiesWereTrue, ShreddedOrRewrapped, ActiveKekIsSafe, OnlyLatecomersLeft,
         BeingDestroyed, CountsNeverOverclaim, CertificateNeverOverclaims,
         KeysInServiceIntact, Holds, ResurrectedOnlyByRewrap

\* What the worker writes is wrapped under the KEK it names, and lies at or
\* behind the cursor it leaves, which never moves back.
LEMMA WorkerWriteKeepsIInv ==
  ASSUME IInv, WorkerWrite
  PROVE  IInv'
<1>1. /\ worker.batch \in SUBSET Subjects
      /\ worker.sending \subseteq worker.batch
      /\ \A s \in worker.batch : s > job.cursor
      /\ job.cursor \in 0 .. NumSubjects
      /\ job.done \in Nat
  BY DEF IInv, TypeOK, WorkerState, BatchIsAhead, WorkerWrite
<1>2. PICK last \in 0 .. NumSubjects :
        /\ IF worker.batch = {} THEN last = job.cursor
             ELSE last \in worker.batch /\ \A s \in worker.batch : s <= last
        /\ job' = [job EXCEPT
             !.done = job.done + Cardinality(worker.batch), !.cursor = last,
             !.state = IF \/ worker.batch = {}
                          \/ job.done + Cardinality(worker.batch) >= job.total
                         THEN "completed" ELSE "running"]
  BY DEF WorkerWrite
<1>3. /\ worker' = WorkerIdle
      /\ UNCHANGED <<old, envelopes, request, late>>
  BY DEF WorkerWrite
<1>4. PICK moved \in SUBSET worker.sending :
        row' = [s \in Subjects |-> IF s \in moved THEN RewrapRow(s) ELSE row[s]]
  BY DEF WorkerWrite
<1>5. job.cursor <= last /\ \A s \in moved : s <= last
  BY <1>1, <1>2, NumSubjectsAssumption DEF Subjects
<1>6. Cardinality(worker.batch) \in Nat
  BY <1>1, SomeSubjectsAreCounted
<1>7. job'.cursor = last
  BY <1>2 DEF IInv, TypeOK
<1>8. \A s \in Subjects :
        /\ row'[s] \in Row
        /\ row'[s].state = row[s].state
        /\ row'[s].count = row[s].count
        /\ row'[s].certified = row[s].certified
        /\ row'[s].kek = IF s \in moved THEN "new" ELSE row[s].kek
        /\ row'[s].wrapped = IF s \in moved THEN "new" ELSE row[s].wrapped
  <2> TAKE s \in Subjects
  <2>1. row[s] \in Row
    BY DEF IInv, TypeOK
  <2>2. row'[s] = IF s \in moved THEN RewrapRow(s) ELSE row[s]
    BY <1>4
  <2>3. CASE s \in moved
    BY <2>1, <2>2, <2>3 DEF RewrapRow, Row, Kek
  <2>4. CASE s \notin moved
    BY <2>1, <2>2, <2>4
  <2>5. QED
    BY <2>3, <2>4
<1>9. TypeOK'
  <2>1. row' \in [Subjects -> Row]
    BY <1>4, <1>8
  <2>2. job' \in [state : {"none", "running", "completed"}, total : Nat, done : Nat,
                  cursor : 0 .. NumSubjects]
    <3>1. job.done + Cardinality(worker.batch) \in Nat
      BY <1>1, <1>6
    <3>2. PICK state \in {"running", "completed"} :
            job' = [job EXCEPT !.done = job.done + Cardinality(worker.batch),
                               !.cursor = last, !.state = state]
      BY <1>2
    <3>3. QED
      BY <3>1, <3>2 DEF IInv, TypeOK
  <2>3. worker' \in WorkerState
    BY <1>3 DEF WorkerIdle, WorkerState
  <2>4. QED
    BY <1>3, <2>1, <2>2, <2>3 DEF IInv, TypeOK
<1>10. \A s \in Subjects : s <= job.cursor => s <= last
  BY <1>1, <1>5, NumSubjectsAssumption DEF Subjects
<1>11. ResurrectedOnlyByRewrap'
  BY <1>5, <1>7, <1>8, <1>10 DEF IInv, ResurrectedOnlyByRewrap
<1>12. CopiesWereTrue'
  <2>1. \A s \in Subjects : ShreddedOrRewrapped(s) => ShreddedOrRewrapped(s)'
    BY <1>5, <1>7, <1>8, <1>10 DEF ShreddedOrRewrapped
  <2>2. QED
    BY <1>3, <2>1 DEF IInv, CopiesWereTrue
<1>13. ActiveKekIsSafe' /\ OnlyLatecomersLeft' /\ KeysInServiceIntact'
  BY <1>3, <1>8 DEF IInv, ActiveKekIsSafe, OnlyLatecomersLeft, BeingDestroyed,
                    KeysInServiceIntact, Holds
<1>14. QED
  BY <1>3, <1>8, <1>9, <1>11, <1>12, <1>13
     DEF IInv, BatchIsAhead, WorkerIdle, CountsNeverOverclaim, CertificateNeverOverclaims

LEMMA WorkerAbandonKeepsIInv ==
  ASSUME IInv, WorkerAbandon
  PROVE  IInv'
BY DEF WorkerAbandon, IInv, TypeOK, WorkerState, WorkerIdle, CopiesWereTrue,
       ShreddedOrRewrapped, BatchIsAhead, ActiveKekIsSafe, OnlyLatecomersLeft,
       BeingDestroyed, CountsNeverOverclaim, CertificateNeverOverclaims,
       KeysInServiceIntact, Holds, ResurrectedOnlyByRewrap

(***************************************************************************)
(* The invariant, and what follows from it.                                *)
(***************************************************************************)

LEMMA NextIInv == IInv /\ [Next]_vars => IInv'
<1> SUFFICES ASSUME IInv, [Next]_vars PROVE IInv'
  OBVIOUS
<1>1. CASE UNCHANGED vars
  BY <1>1 DEF vars, IInv, TypeOK, CopiesWereTrue, ShreddedOrRewrapped, BatchIsAhead,
              ActiveKekIsSafe, OnlyLatecomersLeft, BeingDestroyed, CountsNeverOverclaim,
              CertificateNeverOverclaims, KeysInServiceIntact, Holds,
              ResurrectedOnlyByRewrap
<1>2. ASSUME NEW r \in Requests, NEW op \in SubjectOperation, NEW s \in Subjects,
             Load(r, op, s)
      PROVE  IInv'
  BY <1>2, LoadKeepsIInv
<1>3. QED
  BY <1>1, <1>2, InsertSubjectKeyKeepsIInv, WriteEnvelopeKeepsIInv,
     WriteRevokedKeepsIInv, WriteDestroyedKeepsIInv, CountForKekKeepsIInv,
     ShredKekKeepsIInv, WriteKekDestroyedKeepsIInv, AbandonKeepsIInv, RotateKeepsIInv,
     WorkerLoadKeepsIInv, WorkerWriteKeepsIInv, WorkerAbandonKeepsIInv DEF Next

LEMMA InductiveInvariant == Spec => []IInv
BY InitIInv, NextIInv, PTL DEF Spec

\* Every variable keeps its type.
THEOREM TransactionsTypeCorrect == Spec => []TypeOK
<1>1. IInv => TypeOK
  BY DEF IInv
<1>2. QED
  BY <1>1, InductiveInvariant, PTL

\* FR-5.4 and FR-4.4 under overlapping transactions: a key in service is wrapped
\* under the KEK its row names, and only a latecomer can lose that KEK.
THEOREM ServiceKeysIntact == Spec => []KeysInServiceIntact
<1>1. IInv => KeysInServiceIntact
  BY DEF IInv
<1>2. QED
  BY <1>1, InductiveInvariant, PTL

\* However many increments are lost, no certificate claims more records than
\* were written.
THEOREM CertificatesNeverOverclaim == Spec => []CertificateNeverOverclaims
<1>1. IInv => CertificateNeverOverclaims
  BY DEF IInv
<1>2. QED
  BY <1>1, InductiveInvariant, PTL

\* Only the rewrap brings the wrapped key of a destroyed key back, and only
\* behind its cursor.
THEOREM ResurrectionIsTheRewraps == Spec => []ResurrectedOnlyByRewrap
<1>1. IInv => ResurrectedOnlyByRewrap
  BY DEF IInv
<1>2. QED
  BY <1>1, InductiveInvariant, PTL

\* Only a revocation that had read the row before turns a destroyed key into
\* anything else.
THEOREM DestructionUndoneByOverlap == Spec => DestroyedUndoneOnlyByOverlap
<1> DEFINE Undone(s) == row[s].state = "destroyed" /\ row'[s].state # "destroyed"
           Excused(s) ==
             /\ row'[s].state = "revoked"
             /\ \E r \in Requests : /\ request[r].op = "revoke"
                                    /\ request[r].subject = s
                                    /\ request[r].copy.state \notin {"none", "destroyed"}
<1>1. IInv /\ [Next]_vars => [\A s \in Subjects : Undone(s) => Excused(s)]_vars
  <2> SUFFICES ASSUME IInv, Next, NEW s \in Subjects, Undone(s)
               PROVE  Excused(s)
    OBVIOUS
  <2>1. row \in [Subjects -> Row]
    BY DEF IInv, TypeOK
  <2>2. ASSUME row' = row PROVE FALSE
    BY <2>2
  <2>3. ASSUME NEW r \in Requests, InsertSubjectKey(r) PROVE FALSE
    BY <2>1, <2>3 DEF InsertSubjectKey
  <2>4. ASSUME NEW r \in Requests, WriteEnvelope(r) PROVE FALSE
    BY <2>1, <2>4 DEF WriteEnvelope, Row
  <2>5. ASSUME NEW r \in Requests, WriteDestroyed(r) PROVE FALSE
    BY <2>1, <2>5 DEF WriteDestroyed, Row
  <2>6. ASSUME WorkerWrite PROVE FALSE
    <3>1. RewrapRow(s).state = row[s].state
      BY <2>1 DEF RewrapRow, Row
    <3>2. row'[s] = RewrapRow(s) \/ row'[s] = row[s]
      BY <2>6 DEF WorkerWrite
    <3>3. QED
      BY <3>1, <3>2
  <2>7. ASSUME NEW r \in Requests, WriteRevoked(r) PROVE Excused(s)
    <3>1. request[r].subject = s /\ row'[s].state = "revoked"
      BY <2>1, <2>7 DEF WriteRevoked, Row
    <3>2. request[r].op = "revoke" /\ request[r].copy.state \notin {"none", "destroyed"}
      BY <2>7 DEF WriteRevoked, IInv, CopiesWereTrue, SubjectOperation
    <3>3. QED
      BY <3>1, <3>2
  <2>8. QED
    BY <2>2, <2>3, <2>4, <2>5, <2>6, <2>7
       DEF Next, Load, CountForKek, ShredKek, WriteKekDestroyed, Abandon, Rotate,
           WorkerLoad, WorkerAbandon
<1>2. QED
  BY <1>1, InductiveInvariant, PTL DEF Spec, DestroyedUndoneOnlyByOverlap
=============================================================================
