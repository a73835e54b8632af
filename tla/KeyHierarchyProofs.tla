------------------------- MODULE KeyHierarchyProofs -------------------------
(***************************************************************************)
(* Type correctness and safety of KeyHierarchy, for any number of KEKs and *)
(* subjects and any batch size, and the proof that it implements           *)
(* CryptoShredding.                                                        *)
(***************************************************************************)
EXTENDS KeyHierarchy, FiniteSetTheorems, TLAPS

(***************************************************************************)
(* Cardinalities the jobs are started and advanced with.                   *)
(***************************************************************************)

\* A set of subject keys has a natural number of elements.
LEMMA SubjectKeySetsFinite ==
  ASSUME NEW S \in SUBSET SubjectKeys
  PROVE  IsFiniteSet(S) /\ Cardinality(S) \in Nat
<1>1. IsFiniteSet(SubjectKeys)
  BY FS_Interval, NumSubjectsAssumption DEF SubjectKeys
<1>2. IsFiniteSet(S)
  BY <1>1, FS_Subset
<1>3. QED
  BY <1>2, FS_CardinalityType

\* The total of a new rewrap job is a natural number.
LEMMA DependentCountType ==
  ASSUME NEW k \in Keks
  PROVE  DependentCount(k) \in Nat
BY SubjectKeySetsFinite DEF DependentCount, Dependents

\* A batch consists of subject keys of the job's KEK, and has a size.
LEMMA BatchType ==
  ASSUME NEW k \in Keks
  PROVE  /\ Batch(k) \subseteq {s \in SubjectKeys : skKek[s] = k}
         /\ Cardinality(Batch(k)) \in Nat
<1>1. Batch(k) \subseteq {s \in SubjectKeys : skKek[s] = k}
  BY DEF Batch
<1>2. Batch(k) \in SUBSET SubjectKeys
  BY <1>1
<1>3. QED
  BY <1>1, <1>2, SubjectKeySetsFinite

\* A KEK without dependents is the kek_id of no live subject key.
LEMMA NoDependents ==
  ASSUME NEW k \in Keks, DependentCount(k) = 0, NEW s \in SubjectKeys, Live(s)
  PROVE  skKek[s] # k
<1>1. IsFiniteSet(Dependents(k))
  BY SubjectKeySetsFinite DEF Dependents
<1>2. Dependents(k) = {}
  BY <1>1, FS_EmptySet DEF DependentCount
<1>3. QED
  BY <1>2 DEF Dependents, Live

(***************************************************************************)
(* Type correctness.                                                       *)
(***************************************************************************)

LEMMA InitTypeOK == Init => TypeOK
BY MaxOverridesAssumption, NumSubjectsAssumption
   DEF Init, TypeOK, KeyState, RewrapJob, NoJob, JobState, RewrapFailure

LEMMA NextTypeOK == TypeOK /\ [Next]_vars => TypeOK'
<1> SUFFICES ASSUME TypeOK, [Next]_vars PROVE TypeOK'
  OBVIOUS
<1> USE DEF TypeOK, kekVars, skVars, jobVars
<1>1. ASSUME NEW k \in Keks, CreateKek(k) PROVE TypeOK'
  BY <1>1 DEF CreateKek, KeyState
<1>2. ASSUME NEW k \in Keks, ProviderCreateLost(k) PROVE TypeOK'
  BY <1>2 DEF ProviderCreateLost
<1>3. ASSUME NEW k \in Keks, ActivateKek(k) PROVE TypeOK'
  BY <1>3 DEF ActivateKek, KeyState
<1>4. ASSUME NEW k \in Keks, NEW new \in Keks, RotateKek(k, new) PROVE TypeOK'
  <2>1. job' \in [Keks -> RewrapJob]
    <3>1. [to |-> new, total |-> DependentCount(k), done |-> 0, cursor |-> 0,
           state |-> "running"] \in RewrapJob
      BY DependentCountType, NumSubjectsAssumption DEF RewrapJob, JobState
    <3>2. QED
      BY <1>4, <3>1 DEF RotateKek
  <2>2. QED
    BY <1>4, <2>1 DEF RotateKek, KeyState
<1>5. ASSUME NEW k \in Keks, RevokeKek(k) PROVE TypeOK'
  BY <1>5 DEF RevokeKek, KeyState
<1>6. ASSUME NEW k \in Keks, DestroyKek(k) PROVE TypeOK'
  BY <1>6 DEF DestroyKek, KeyState
<1>7. ASSUME NEW k \in Keks, DestroyKekCommitLost(k) PROVE TypeOK'
  BY <1>7 DEF DestroyKekCommitLost
<1>8. ASSUME NEW s \in SubjectKeys, EncryptNewSubject(s) PROVE TypeOK'
  BY <1>8 DEF EncryptNewSubject, ActiveKeks, KeyState
<1>9. ASSUME NEW s \in SubjectKeys, EncryptExistingSubject(s) PROVE TypeOK'
  BY <1>9 DEF EncryptExistingSubject, CanUnwrap
<1>10. ASSUME NEW s \in SubjectKeys, NEW st \in SeedStates, SeedSubjectKey(s, st)
       PROVE TypeOK'
  BY <1>10, SeedStatesAssumption DEF SeedSubjectKey, ActiveKeks, KeyState
<1>11. ASSUME NEW s \in SubjectKeys, RevokeSubjectKey(s) PROVE TypeOK'
  BY <1>11 DEF RevokeSubjectKey, KeyState
<1>12. ASSUME NEW s \in SubjectKeys, DestroySubjectKey(s) PROVE TypeOK'
  BY <1>12 DEF DestroySubjectKey, KeyState
<1>13. ASSUME NEW k \in Keks, PauseJob(k) PROVE TypeOK'
  BY <1>13, MaxOverridesAssumption DEF PauseJob, RewrapJob, JobState
<1>14. ASSUME NEW k \in Keks, ResumeJob(k) PROVE TypeOK'
  BY <1>14, MaxOverridesAssumption DEF ResumeJob, RewrapJob, JobState
<1>15. ASSUME NEW f \in failures, RetryFailure(f) PROVE TypeOK'
  BY <1>15 DEF RetryFailure, CanWrap, RewrapFailure
<1>16. ASSUME NEW k \in Keks, RewrapStep(k) PROVE TypeOK'
  <2> DEFINE batch == Batch(k)
             live == {s \in batch : skState[s] # "destroyed"}
             done == job[k].done + Cardinality(batch)
  <2>1. PICK failed \in SUBSET live, last \in 0 .. NumSubjects :
          /\ \A s \in live \ failed : CanUnwrap(k, wrapped[s]) /\ CanWrap(job[k].to)
          /\ skKek' = [s \in SubjectKeys |->
                         IF s \in live \ failed THEN job[k].to ELSE skKek[s]]
          /\ wrapped' = [s \in SubjectKeys |->
                           IF s \in live \ failed THEN job[k].to ELSE wrapped[s]]
          /\ failures' = failures \cup
               {[job |-> k, item |-> s, resolved |-> FALSE] : s \in failed}
          /\ job' = [job EXCEPT
               ![k].done = done,
               ![k].cursor = last,
               ![k].state = IF JobFinished(batch, done, job[k].total)
                              THEN "completed" ELSE "running"]
    BY <1>16 DEF RewrapStep
  <2>2. batch \subseteq SubjectKeys /\ Cardinality(batch) \in Nat
    BY BatchType
  <2>3. done \in Nat
    BY <2>2 DEF RewrapJob
  <2>4. skKek' \in [SubjectKeys -> Keks \cup {None}]
    BY <2>1 DEF CanWrap
  <2>5. wrapped' \in [SubjectKeys -> Keks \cup {None, Tombstone}]
    BY <2>1 DEF CanWrap
  <2>6. failures' \subseteq RewrapFailure
    <3>1. failed \subseteq SubjectKeys
      BY <2>2
    <3>2. {[job |-> k, item |-> s, resolved |-> FALSE] : s \in failed}
            \subseteq RewrapFailure
      <4>1. ASSUME NEW s \in failed
            PROVE  [job |-> k, item |-> s, resolved |-> FALSE] \in RewrapFailure
        <5>1. s \in SubjectKeys
          BY <3>1
        <5>2. QED
          BY <5>1 DEF RewrapFailure
      <4>2. QED
        BY <4>1
    <3>3. QED
      BY <2>1, <3>2
  <2>7. job' \in [Keks -> RewrapJob]
    <3> DEFINE next == IF JobFinished(batch, done, job[k].total)
                         THEN "completed" ELSE "running"
               moved == [job[k] EXCEPT !.done = done, !.cursor = last, !.state = next]
    <3>1. next \in JobState
      BY DEF JobState
    <3>2. job[k] \in RewrapJob
      OBVIOUS
    <3>3. moved \in RewrapJob
      <4> HIDE DEF next, done
      <4>1. QED
        BY <2>3, <3>1, <3>2 DEF RewrapJob
    <3>4. job' = [job EXCEPT ![k] = moved]
      BY <2>1
    <3>5. QED
      BY <3>3, <3>4
  <2>8. QED
    BY <1>16, <2>4, <2>5, <2>6, <2>7 DEF RewrapStep
<1>17. CASE UNCHANGED vars
  BY <1>17 DEF vars
<1>18. QED
  BY <1>1, <1>2, <1>3, <1>4, <1>5, <1>6, <1>7, <1>8, <1>9, <1>10, <1>11, <1>12,
     <1>13, <1>14, <1>15, <1>16, <1>17
     DEF Next, KekRequest, SubjectRequest, JobRequest, Worker

\* Every reachable state is well typed: in particular a rewrap job's total and
\* done never leave the naturals and its cursor names a subject key.
THEOREM TypeCorrect == Spec => []TypeOK
<1>1. Init => TypeOK
  BY InitTypeOK
<1>2. TypeOK /\ [Next]_vars => TypeOK'
  BY NextTypeOK
<1>3. QED
  BY <1>1, <1>2, PTL DEF Spec

(***************************************************************************)
(* The inductive invariant.  NoLiveKeyStranded alone is not inductive: a   *)
(* retry could move a destroyed key, or a key that was never created, if   *)
(* their wrapped_key could be unwrapped, and a destroyed KEK could be      *)
(* wrapped under if its material could outlive it.                         *)
(***************************************************************************)

\* Rows of subject keys: what wrapped_key holds in each state.
SubjectKeyRows ==
  \A s \in SubjectKeys :
    /\ skState[s] = "none" => skKek[s] = None /\ wrapped[s] = None
    /\ skState[s] = "destroyed" => wrapped[s] = Tombstone
    /\ Live(s) => wrapped[s] = skKek[s] /\ skKek[s] \in material

\* A destroyed KEK has no material left.
DestroyedKekRows ==
  \A k \in Keks : kekState[k] = "destroyed" => k \notin material

IInv == TypeOK /\ SubjectKeyRows /\ DestroyedKekRows /\ AtMostOneActiveKek

LEMMA InitIInv == Init => IInv
BY InitTypeOK
   DEF Init, IInv, SubjectKeyRows, DestroyedKekRows, AtMostOneActiveKek,
       ActiveKeks, Live

\* Each kind of request preserves the rows of the subject keys.
LEMMA NextSubjectKeyRows == IInv /\ [Next]_vars => SubjectKeyRows'
<1> SUFFICES ASSUME IInv, [Next]_vars PROVE SubjectKeyRows'
  OBVIOUS
<1> USE KeksAssumption
    DEF IInv, TypeOK, SubjectKeyRows, Live, kekVars, skVars, jobVars
<1>1. ASSUME NEW k \in Keks, CreateKek(k) PROVE SubjectKeyRows'
  BY <1>1 DEF CreateKek
<1>2. ASSUME NEW k \in Keks, ProviderCreateLost(k) PROVE SubjectKeyRows'
  BY <1>2 DEF ProviderCreateLost
<1>3. ASSUME NEW k \in Keks, ActivateKek(k) PROVE SubjectKeyRows'
  BY <1>3 DEF ActivateKek
<1>4. ASSUME NEW k \in Keks, NEW new \in Keks, RotateKek(k, new)
      PROVE  SubjectKeyRows'
  BY <1>4 DEF RotateKek
<1>5. ASSUME NEW k \in Keks, RevokeKek(k) PROVE SubjectKeyRows'
  BY <1>5 DEF RevokeKek
<1>6. ASSUME NEW k \in Keks, DestroyKek(k) \/ DestroyKekCommitLost(k)
      PROVE  SubjectKeyRows'
  <2>1. \A s \in SubjectKeys : Live(s) => skKek[s] # k
    BY <1>6, NoDependents DEF DestroyKek, DestroyKekCommitLost
  <2>2. material' = material \ {k} /\ UNCHANGED skVars
    BY <1>6 DEF DestroyKek, DestroyKekCommitLost
  <2>3. QED
    BY <2>1, <2>2
<1>7. ASSUME NEW s \in SubjectKeys, EncryptNewSubject(s) PROVE SubjectKeyRows'
  BY <1>7 DEF EncryptNewSubject, CanUnwrap
<1>8. ASSUME NEW s \in SubjectKeys, EncryptExistingSubject(s)
      PROVE  SubjectKeyRows'
  BY <1>8 DEF EncryptExistingSubject
<1>9. ASSUME NEW s \in SubjectKeys, NEW st \in SeedStates, SeedSubjectKey(s, st)
      PROVE  SubjectKeyRows'
  BY <1>9, SeedStatesAssumption DEF SeedSubjectKey, ActiveKeks, CanWrap
<1>10. ASSUME NEW s \in SubjectKeys, RevokeSubjectKey(s) PROVE SubjectKeyRows'
  BY <1>10 DEF RevokeSubjectKey, SubjectKeyMayBecome, SubjectKeyTransitions
<1>11. ASSUME NEW s \in SubjectKeys, DestroySubjectKey(s) PROVE SubjectKeyRows'
  BY <1>11 DEF DestroySubjectKey
<1>12. ASSUME NEW k \in Keks, PauseJob(k) \/ ResumeJob(k) PROVE SubjectKeyRows'
  BY <1>12 DEF PauseJob, ResumeJob
<1>13. ASSUME NEW f \in failures, RetryFailure(f) PROVE SubjectKeyRows'
  <2>1. f.item \in SubjectKeys /\ f.job \in Keks
    BY DEF RewrapFailure
  <2>2. wrapped[f.item] \in material /\ job[f.job].to \in material
    BY <1>13 DEF RetryFailure, CanUnwrap, CanWrap
  <2>3. Live(f.item)
    BY <2>1, <2>2
  <2>4. QED
    BY <1>13, <2>1, <2>2, <2>3 DEF RetryFailure
<1>14. ASSUME NEW k \in Keks, RewrapStep(k) PROVE SubjectKeyRows'
  <2>1. PICK moved \in SUBSET {s \in Batch(k) : skState[s] # "destroyed"} :
          /\ \A s \in moved : job[k].to \in material
          /\ skKek' = [s \in SubjectKeys |-> IF s \in moved THEN job[k].to ELSE skKek[s]]
          /\ wrapped' = [s \in SubjectKeys |-> IF s \in moved THEN job[k].to ELSE wrapped[s]]
    <3>1. PICK failed \in SUBSET {s \in Batch(k) : skState[s] # "destroyed"} :
            LET moved == {s \in Batch(k) : skState[s] # "destroyed"} \ failed
            IN  /\ \A s \in moved : CanWrap(job[k].to)
                /\ skKek' = [s \in SubjectKeys |->
                               IF s \in moved THEN job[k].to ELSE skKek[s]]
                /\ wrapped' = [s \in SubjectKeys |->
                                 IF s \in moved THEN job[k].to ELSE wrapped[s]]
      BY <1>14 DEF RewrapStep
    <3>2. QED
      BY <3>1 DEF CanWrap
  <2>2. \A s \in moved : s \in SubjectKeys /\ skKek[s] = k
    BY <2>1, BatchType
  <2>3. \A s \in moved : Live(s)
    BY <2>1, <2>2
  <2>4. UNCHANGED <<material, skState>>
    BY <1>14 DEF RewrapStep
  <2>5. QED
    BY <2>1, <2>3, <2>4
<1>15. CASE UNCHANGED vars
  BY <1>15 DEF vars
<1>16. QED
  BY <1>1, <1>2, <1>3, <1>4, <1>5, <1>6, <1>7, <1>8, <1>9, <1>10, <1>11, <1>12,
     <1>13, <1>14, <1>15
     DEF Next, KekRequest, SubjectRequest, JobRequest, Worker

\* Only requests on KEKs touch KEK rows and material.
LEMMA OtherStepsKeepKeks ==
  ASSUME TypeOK, [Next]_vars, ~(\E k \in Keks : KekRequest(k))
  PROVE  UNCHANGED kekVars
<1> USE DEF kekVars
<1>1. ASSUME NEW s \in SubjectKeys, SubjectRequest(s) PROVE UNCHANGED kekVars
  BY <1>1 DEF SubjectRequest, EncryptNewSubject, EncryptExistingSubject,
              SeedSubjectKey, RevokeSubjectKey, DestroySubjectKey
<1>2. CASE JobRequest
  BY <1>2 DEF JobRequest, PauseJob, ResumeJob, RetryFailure
<1>3. CASE Worker
  BY <1>3 DEF Worker, RewrapStep
<1>4. CASE UNCHANGED vars
  BY <1>4 DEF vars
<1>5. QED
  BY <1>1, <1>2, <1>3, <1>4 DEF Next

LEMMA NextDestroyedKekRows == IInv /\ [Next]_vars => DestroyedKekRows'
<1> SUFFICES ASSUME IInv, [Next]_vars PROVE DestroyedKekRows'
  OBVIOUS
<1> USE DEF IInv, TypeOK, DestroyedKekRows, kekVars
<1>1. CASE \E k \in Keks : KekRequest(k)
  <2>1. PICK k \in Keks : KekRequest(k)
    BY <1>1
  <2>2. CASE CreateKek(k) \/ ProviderCreateLost(k)
    BY <2>2 DEF CreateKek, ProviderCreateLost, Fresh
  <2>3. CASE ActivateKek(k) \/ RevokeKek(k)
    BY <2>3 DEF ActivateKek, RevokeKek
  <2>4. ASSUME NEW new \in Keks, RotateKek(k, new) PROVE DestroyedKekRows'
    BY <2>4 DEF RotateKek, Fresh
  <2>5. CASE DestroyKek(k) \/ DestroyKekCommitLost(k)
    BY <2>5 DEF DestroyKek, DestroyKekCommitLost
  <2>6. QED
    BY <2>1, <2>2, <2>3, <2>4, <2>5 DEF KekRequest
<1>2. CASE ~(\E k \in Keks : KekRequest(k))
  BY <1>2, OtherStepsKeepKeks
<1>3. QED
  BY <1>1, <1>2

LEMMA NextAtMostOneActiveKek == IInv /\ [Next]_vars => AtMostOneActiveKek'
<1> SUFFICES ASSUME IInv, [Next]_vars PROVE AtMostOneActiveKek'
  OBVIOUS
<1> USE DEF IInv, TypeOK, AtMostOneActiveKek, ActiveKeks, kekVars
<1>1. CASE \E k \in Keks : KekRequest(k)
  <2>1. PICK k \in Keks : KekRequest(k)
    BY <1>1
  <2>2. CASE CreateKek(k) \/ ProviderCreateLost(k)
    BY <2>2 DEF CreateKek, ProviderCreateLost
  <2>3. CASE ActivateKek(k)
    BY <2>3 DEF ActivateKek
  <2>4. CASE RevokeKek(k) \/ DestroyKek(k) \/ DestroyKekCommitLost(k)
    BY <2>4 DEF RevokeKek, DestroyKek, DestroyKekCommitLost
  <2>5. ASSUME NEW new \in Keks, RotateKek(k, new) PROVE AtMostOneActiveKek'
    <3>1. ActiveKeks = {k}
      BY <2>5 DEF RotateKek
    <3>2. ActiveKeks' \subseteq {new}
      BY <2>5, <3>1 DEF RotateKek, Fresh
    <3>3. QED
      BY <3>2
  <2>6. QED
    BY <2>1, <2>2, <2>3, <2>4, <2>5 DEF KekRequest
<1>2. CASE ~(\E k \in Keks : KekRequest(k))
  BY <1>2, OtherStepsKeepKeks
<1>3. QED
  BY <1>1, <1>2

\* The rows and the provider's material agree: the strengthening of the
\* invariants and steps below.
THEOREM IInvInvariant == Spec => []IInv
<1>1. IInv /\ [Next]_vars => IInv'
  BY NextTypeOK, NextSubjectKeyRows, NextDestroyedKekRows, NextAtMostOneActiveKek
     DEF IInv
<1>2. QED
  BY InitIInv, <1>1, PTL DEF Spec

\* There is never a second active KEK (models/keys.py, FR-4.2).
THEOREM SingleActiveKek == Spec => []AtMostOneActiveKek
<1>1. IInv => AtMostOneActiveKek
  BY DEF IInv
<1>2. QED
  BY IInvInvariant, <1>1, PTL

\* No history of rotations, rewraps, retries and destructions strands a
\* subject key that was not destroyed itself.
THEOREM LiveKeysKeepTheirKek == Spec => []NoLiveKeyStranded
<1>1. IInv => NoLiveKeyStranded
  BY DEF IInv, SubjectKeyRows, NoLiveKeyStranded
<1>2. QED
  BY IInvInvariant, <1>1, PTL

(***************************************************************************)
(* What a step may never do.                                               *)
(***************************************************************************)

\* Envelopes are never deleted, and a subject key's row never disappears.
LEMMA NothingIsForgotten ==
  ASSUME TypeOK, [Next]_vars
  PROVE  /\ envelopes \subseteq envelopes'
         /\ \A s \in SubjectKeys : skState[s] # "none" => skState'[s] # "none"
<1> USE DEF TypeOK, kekVars, skVars, jobVars
<1>1. ASSUME NEW k \in Keks, KekRequest(k) PROVE UNCHANGED <<envelopes, skState>>
  BY <1>1 DEF KekRequest, CreateKek, ProviderCreateLost, ActivateKek, RotateKek,
              RevokeKek, DestroyKek, DestroyKekCommitLost
<1>2. ASSUME NEW s \in SubjectKeys, SubjectRequest(s)
      PROVE  /\ envelopes \subseteq envelopes'
             /\ \A t \in SubjectKeys : skState[t] # "none" => skState'[t] # "none"
  <2>1. CASE EncryptNewSubject(s)
    BY <2>1 DEF EncryptNewSubject
  <2>2. CASE EncryptExistingSubject(s)
    BY <2>2 DEF EncryptExistingSubject
  <2>3. ASSUME NEW st \in SeedStates, SeedSubjectKey(s, st)
        PROVE  /\ envelopes \subseteq envelopes'
               /\ \A t \in SubjectKeys : skState[t] # "none" => skState'[t] # "none"
    BY <2>3, SeedStatesAssumption DEF SeedSubjectKey
  <2>4. CASE RevokeSubjectKey(s) \/ DestroySubjectKey(s)
    BY <2>4 DEF RevokeSubjectKey, DestroySubjectKey
  <2>5. QED
    BY <1>2, <2>1, <2>2, <2>3, <2>4 DEF SubjectRequest
<1>3. CASE JobRequest
  BY <1>3 DEF JobRequest, PauseJob, ResumeJob, RetryFailure
<1>4. CASE Worker
  BY <1>4 DEF Worker, RewrapStep
<1>5. CASE UNCHANGED vars
  BY <1>5 DEF vars
<1>6. QED
  BY <1>1, <1>2, <1>3, <1>4, <1>5 DEF Next

\* An envelope becomes unreadable only when its subject key or its KEK is
\* revoked or destroyed, or when its subject key is rewrapped onto another KEK.
THEOREM LossHasCause == Spec => ReadabilityLossHasCause
<1>1. IInv /\ IInv' /\ [Next]_vars =>
        [\A s \in SubjectKeys, k \in Keks :
           Decryptable(s, k) /\ ~Decryptable(s, k)' =>
             \/ skState'[s] \in Unusable
             \/ kekState'[k] \in Unusable
             \/ skKek'[s] # k]_vars
  <2> SUFFICES ASSUME IInv, IInv', [Next]_vars,
                      NEW s \in SubjectKeys, NEW k \in Keks,
                      Decryptable(s, k), ~Decryptable(s, k)',
                      skState'[s] \notin Unusable, kekState'[k] \notin Unusable,
                      skKek'[s] = k
               PROVE  FALSE
    OBVIOUS
  <2>1. skState[s] # "none"
    BY KeksAssumption DEF IInv, SubjectKeyRows, Decryptable, CanUnwrap
  <2>2. skState'[s] # "none" /\ <<s, k>> \in envelopes'
    BY <2>1, NothingIsForgotten DEF IInv, Decryptable
  <2>3. Live(s)'
    BY <2>2 DEF Live, Unusable
  <2>4. wrapped'[s] = k /\ k \in material'
    BY <2>3 DEF IInv, SubjectKeyRows
  <2>5. QED
    BY <2>2, <2>4 DEF Decryptable, CanUnwrap
<1>2. QED
  BY IInvInvariant, <1>1, PTL DEF Spec, ReadabilityLossHasCause

\* What encrypt() accepts decrypt() can read at once, unless the KEK above the
\* subject key is revoked (service.py:341 does not look at its state).
THEOREM AcceptedWritesAreReadable == Spec => AcceptedWriteIsReadable
<1>1. IInv /\ [Next]_vars =>
        \A s \in SubjectKeys, k \in Keks :
          <<s, k>> \in envelopes' \ envelopes =>
            Decryptable(s, k)' \/ kekState[k] = "revoked"
  <2> SUFFICES ASSUME IInv, [Next]_vars, NEW s \in SubjectKeys, NEW k \in Keks,
                      <<s, k>> \in envelopes' \ envelopes,
                      kekState[k] # "revoked"
               PROVE  Decryptable(s, k)'
    OBVIOUS
  <2>1. ASSUME NEW t \in SubjectKeys, EncryptNewSubject(t)
        PROVE  Decryptable(s, k)'
    <3>1. s = t /\ skState'[s] = "active" /\ wrapped'[s] = k /\ k \in material
      BY <2>1 DEF IInv, TypeOK, EncryptNewSubject, CanUnwrap
    <3>2. kekState'[k] = kekState[k] /\ material' = material
      BY <2>1 DEF EncryptNewSubject, kekVars
    <3>3. kekState[k] # "destroyed"
      BY <3>1 DEF IInv, DestroyedKekRows
    <3>4. QED
      BY <3>1, <3>2, <3>3 DEF Decryptable, CanUnwrap, Unusable
  <2>2. ASSUME NEW t \in SubjectKeys, EncryptExistingSubject(t)
        PROVE  Decryptable(s, k)'
    BY <2>2 DEF IInv, TypeOK, DestroyedKekRows, EncryptExistingSubject,
                Decryptable, CanUnwrap, Unusable, kekVars, skVars
  <2>3. ASSUME NEW t \in SubjectKeys, NEW state \in SeedStates,
               SeedSubjectKey(t, state)
        PROVE  Decryptable(s, k)'
    <3>1. state = "deprecated" /\ s = t
      BY <2>3 DEF SeedSubjectKey
    <3>2. QED
      BY <2>3, <3>1 DEF IInv, TypeOK, SeedSubjectKey, ActiveKeks, CanWrap,
                        Decryptable, CanUnwrap, Unusable, kekVars
  <2>4. ASSUME UNCHANGED envelopes
        PROVE  Decryptable(s, k)'
    BY <2>4
  <2>5. QED
    BY <2>1, <2>2, <2>3, <2>4
       DEF Next, vars, KekRequest, SubjectRequest, JobRequest, Worker, CreateKek,
           ProviderCreateLost, ActivateKek, RotateKek, RevokeKek, DestroyKek,
           DestroyKekCommitLost, RevokeSubjectKey, DestroySubjectKey, RewrapStep,
           RetryFailure, PauseJob, ResumeJob
<1>2. QED
  BY IInvInvariant, <1>1, PTL DEF Spec, AcceptedWriteIsReadable

\* While there is an active KEK there will be one after every step, unless the
\* step revokes it: a rotation has no gap.
THEOREM RotationHasNoGap == Spec => ActiveKekLostOnlyByRevocation
<1>1. IInv /\ [Next]_vars =>
        [ActiveKeks # {} /\ ActiveKeks' = {} =>
           \E k \in ActiveKeks : kekState'[k] = "revoked"]_vars
  <2> SUFFICES ASSUME IInv, [Next]_vars, ActiveKeks # {}, ActiveKeks' = {}
               PROVE  \E k \in ActiveKeks : kekState'[k] = "revoked"
    OBVIOUS
  <2> USE DEF IInv, TypeOK, ActiveKeks, kekVars
  <2>1. PICK a \in Keks : kekState[a] = "active" /\ kekState'[a] # "active"
    OBVIOUS
  <2>2. PICK k \in Keks : KekRequest(k)
    BY <2>1, OtherStepsKeepKeks
  <2>3. CASE CreateKek(k) \/ ProviderCreateLost(k) \/ ActivateKek(k)
    BY <2>1, <2>3 DEF CreateKek, ProviderCreateLost, ActivateKek, Fresh
  <2>4. CASE RevokeKek(k)
    BY <2>1, <2>4 DEF RevokeKek
  <2>5. ASSUME NEW new \in Keks, RotateKek(k, new) PROVE FALSE
    <3>1. kekState'[new] = "active"
      BY <2>5 DEF RotateKek
    <3>2. QED
      BY <3>1
  <2>6. CASE DestroyKek(k) \/ DestroyKekCommitLost(k)
    BY <2>1, <2>6 DEF DestroyKek, DestroyKekCommitLost, KekMayBecome, KekTransitions
  <2>7. QED
    BY <2>2, <2>3, <2>4, <2>5, <2>6 DEF KekRequest
<1>2. QED
  BY IInvInvariant, <1>1, PTL DEF Spec, ActiveKekLostOnlyByRevocation

(***************************************************************************)
(* The hierarchy implements crypto-shredding.  By the invariant a key is   *)
(* recoverable exactly while it is live, so every step maps to the step    *)
(* the states of the subject keys take.                                    *)
(***************************************************************************)

LEMMA RecoverableIsLive ==
  ASSUME IInv
  PROVE  {s \in SubjectKeys : Recoverable(s)} = {s \in SubjectKeys : Live(s)}
BY KeksAssumption DEF IInv, TypeOK, SubjectKeyRows, Recoverable, Live

\* One request creates or destroys at most one subject key.
LEMMA SubjectKeySteps ==
  ASSUME IInv, [Next]_vars
  PROVE  \/ UNCHANGED <<{s \in SubjectKeys : Live(s)},
                        {s \in SubjectKeys : skState[s] = "destroyed"}>>
         \/ \E s \in SubjectKeys :
              /\ skState[s] = "none"
              /\ \E state \in {"active", "pending", "deprecated"} :
                   skState' = [skState EXCEPT ![s] = state]
         \/ \E s \in SubjectKeys :
              /\ Live(s)
              /\ skState' = [skState EXCEPT ![s] = "destroyed"]
<1> USE DEF IInv, TypeOK, Live, skVars
<1>1. ASSUME NEW s \in SubjectKeys, EncryptNewSubject(s)
      PROVE  skState[s] = "none" /\ skState' = [skState EXCEPT ![s] = "active"]
  BY <1>1 DEF EncryptNewSubject
<1>2. ASSUME NEW s \in SubjectKeys, NEW st \in SeedStates, SeedSubjectKey(s, st)
      PROVE  /\ skState[s] = "none"
             /\ st \in {"active", "pending", "deprecated"}
             /\ skState' = [skState EXCEPT ![s] = st]
  BY <1>2, SeedStatesAssumption DEF SeedSubjectKey
<1>3. ASSUME NEW s \in SubjectKeys, DestroySubjectKey(s)
      PROVE  Live(s) /\ skState' = [skState EXCEPT ![s] = "destroyed"]
  BY <1>3 DEF DestroySubjectKey, SubjectKeyMayBecome, SubjectKeyTransitions
<1>4. ASSUME NEW s \in SubjectKeys, RevokeSubjectKey(s)
      PROVE  UNCHANGED <<{t \in SubjectKeys : Live(t)},
                         {t \in SubjectKeys : skState[t] = "destroyed"}>>
  BY <1>4 DEF RevokeSubjectKey, SubjectKeyMayBecome, SubjectKeyTransitions
<1>5. ASSUME NEW s \in SubjectKeys, EncryptExistingSubject(s) PROVE UNCHANGED skState
  BY <1>5 DEF EncryptExistingSubject
<1>6. ASSUME NEW k \in Keks, KekRequest(k) PROVE UNCHANGED skState
  BY <1>6 DEF KekRequest, CreateKek, ProviderCreateLost, ActivateKek, RotateKek,
              RevokeKek, DestroyKek, DestroyKekCommitLost
<1>7. CASE JobRequest \/ Worker
  <2>1. UNCHANGED skState
    BY <1>7 DEF JobRequest, PauseJob, ResumeJob, RetryFailure, Worker, RewrapStep
  <2>2. QED
    BY <2>1
<1>8. CASE UNCHANGED vars
  BY <1>8 DEF vars
<1>9. QED
  BY <1>1, <1>2, <1>3, <1>4, <1>5, <1>6, <1>7, <1>8 DEF Next, SubjectRequest

\* From its creation to its erasure a subject's key can be recovered from the
\* database and the provider, and never again afterwards.
THEOREM HierarchyImplementsShredding == Spec => ImplementsShredding
<1>1. Init => Shredding!Init
  BY KeksAssumption DEF Init, Shredding!Init, Recoverable
<1>2. IInv /\ IInv' /\ [Next]_vars => [Shredding!Next]_Shredding!vars
  <2> SUFFICES ASSUME IInv, IInv', [Next]_vars
               PROVE  [Shredding!Next]_Shredding!vars
    OBVIOUS
  <2> DEFINE live == {s \in SubjectKeys : Live(s)}
             gone == {s \in SubjectKeys : skState[s] = "destroyed"}
             rec == {s \in SubjectKeys : Recoverable(s)}
  <2>1. rec = live /\ rec' = live'
    <3>1. rec = live
      BY RecoverableIsLive
    <3>2. rec' = live'
      BY KeksAssumption DEF IInv, TypeOK, SubjectKeyRows, Recoverable, Live
    <3>3. QED
      BY <3>1, <3>2
  <2>2. CASE UNCHANGED <<live, gone>>
    BY <2>1, <2>2 DEF Shredding!vars
  <2>3. ASSUME NEW s \in SubjectKeys, skState[s] = "none",
               NEW state \in {"active", "pending", "deprecated"},
               skState' = [skState EXCEPT ![s] = state]
        PROVE  Shredding!Next
    <3>1. s \notin live \cup gone /\ live' = live \cup {s} /\ gone' = gone
      BY <2>3 DEF IInv, TypeOK, Live
    <3>2. Shredding!Provision(s)
      BY <2>1, <3>1 DEF Shredding!Provision
    <3>3. QED
      BY <3>2 DEF Shredding!Next
  <2>4. ASSUME NEW s \in SubjectKeys, Live(s),
               skState' = [skState EXCEPT ![s] = "destroyed"]
        PROVE  Shredding!Next
    <3>1. s \in live /\ live' = live \ {s} /\ gone' = gone \cup {s}
      BY <2>4 DEF IInv, TypeOK, Live
    <3>2. Shredding!Shred(s)
      BY <2>1, <3>1 DEF Shredding!Shred
    <3>3. QED
      BY <3>2 DEF Shredding!Next
  <2>5. QED
    BY SubjectKeySteps, <2>2, <2>3, <2>4
<1>3. QED
  BY IInvInvariant, <1>1, <1>2, PTL DEF Spec, ImplementsShredding, Shredding!Spec
=============================================================================
