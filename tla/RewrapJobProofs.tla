--------------------------- MODULE RewrapJobProofs ---------------------------
(***************************************************************************)
(* What the rewrap jobs of KeyHierarchy count, pass and miss, for any      *)
(* number of KEKs and subjects, any batch size and any pausing, resuming   *)
(* and retrying.                                                           *)
(***************************************************************************)
EXTENDS KeyHierarchyProofs, NaturalsInduction, WellFoundedInduction

(***************************************************************************)
(* The inductive invariant, next to the one of KeyHierarchyProofs.         *)
(***************************************************************************)

\* The live keys a job has still to come to, and the destroyed ones it has
\* counted.
Unprocessed(k) == {s \in Dependents(k) : s > job[k].cursor}
CountedDestroyed(k) ==
  {s \in SubjectKeys : skKek[s] = k /\ skState[s] = "destroyed" /\ s <= job[k].cursor}

\* Only the rotation of a KEK starts its job, and a KEK is rotated once.
JobsFollowRotations ==
  \A k \in Keks :
    /\ kekState[k] \in {"none", "pending", "active"} => job[k] = NoJob
    /\ job[k].to # k

\* The keys behind the cursor that were not moved are on record, or came late.
\* What a job has counted and what it has still to move is no more than what it
\* was to move when it was started, the destroyed keys it has counted and the
\* keys that came late.  It completes when it has counted its total or finds
\* nothing more; what comes then came late.
Account(k) ==
  /\ \A s \in Dependents(k) :
       s <= job[k].cursor => OpenFailure(k, s) \/ s \in LateUnder(k)
  /\ job[k].done + Cardinality(Unprocessed(k))
       <= job[k].total + Cardinality(CountedDestroyed(k)) + Cardinality(LateUnder(k))
  /\ job[k].state = "completed" =>
       job[k].done >= job[k].total \/ Unprocessed(k) \subseteq LateUnder(k)

JobsKeepAccount == \A k \in Keks : FirstOfChain(k) => Account(k)

\* A key comes late when it is inserted, and then once.
LatecomersExist == \A k \in Keks : \A s \in LateUnder(k) : skState[s] # "none"

JobInv ==
  JobsFollowRotations /\ JobsKeepAccount /\ LatecomersExist /\ NoItemCountedTwice

(***************************************************************************)
(* Sets of subject keys, and batches.                                      *)
(***************************************************************************)

\* Counting sets of subject keys.
LEMMA SubjectKeyCounts ==
  ASSUME NEW S \in SUBSET SubjectKeys, NEW T \in SUBSET SubjectKeys
  PROVE  /\ Cardinality(S) \in Nat /\ Cardinality(T) \in Nat
         /\ S \subseteq T => Cardinality(S) <= Cardinality(T)
         /\ S \cap T = {} => Cardinality(S \cup T) = Cardinality(S) + Cardinality(T)
         /\ Cardinality({}) = 0
<1>1. IsFiniteSet(S) /\ IsFiniteSet(T) /\ Cardinality(S) \in Nat /\ Cardinality(T) \in Nat
  BY SubjectKeySetsFinite
<1>2. S \subseteq T => Cardinality(S) <= Cardinality(T)
  BY <1>1, FS_Subset
<1>3. ASSUME S \cap T = {} PROVE Cardinality(S \cup T) = Cardinality(S) + Cardinality(T)
  <2>1. Cardinality(S \cup T)
          = Cardinality(S) + Cardinality(T) - Cardinality(S \cap T)
    BY <1>1, FS_Union
  <2>2. Cardinality(S \cap T) = 0
    BY <1>3, FS_EmptySet
  <2>3. QED
    BY <1>1, <2>1, <2>2
<1>4. QED
  BY <1>1, <1>2, <1>3, FS_EmptySet

\* A set of natural numbers that is not empty has a least element.
LEMMA LeastElement ==
  ASSUME NEW S, S \subseteq Nat, S # {}
  PROVE  \E i \in S : \A j \in S : ~(j < i)
<1>1. PICK i \in S : \A j \in S : ~ (<<j, i>> \in OpToRel(<, Nat))
  BY NatLessThanWellFounded, WFMin
<1>2. QED
  BY <1>1 DEF OpToRel

\* A batch is what comes next after the cursor, and is empty only if nothing does.
LEMMA BatchIsNext ==
  ASSUME TypeOK, NEW k \in Keks
  PROVE  /\ Batch(k) \in SUBSET SubjectKeys
         /\ \A s \in Batch(k) : skKek[s] = k /\ s > job[k].cursor
         /\ \A s \in SubjectKeys, t \in Batch(k) :
              skKek[s] = k /\ s > job[k].cursor /\ s <= t => s \in Batch(k)
         /\ Batch(k) = {} => \A s \in SubjectKeys : skKek[s] = k => s <= job[k].cursor
<1> DEFINE due == {s \in SubjectKeys : skKek[s] = k /\ s > job[k].cursor}
           before(s) == {t \in due : t < s}
<1>1. Batch(k) = {s \in due : Cardinality(before(s)) < BatchSize}
  BY DEF Batch
<1>2. due \in SUBSET SubjectKeys /\ SubjectKeys \subseteq Nat /\ job[k].cursor \in Nat
      /\ BatchSize \in Nat \ {0}
  BY BatchSizeAssumption, NumSubjectsAssumption DEF SubjectKeys, TypeOK, RewrapJob
<1>3. ASSUME NEW s \in due, NEW t \in Batch(k), s <= t
      PROVE  s \in Batch(k)
  <2>1. t \in due /\ Cardinality(before(t)) < BatchSize
    BY <1>1
  <2>2. before(s) \subseteq before(t) /\ before(s) \in SUBSET SubjectKeys
        /\ before(t) \in SUBSET SubjectKeys
    <3> HIDE DEF due
    <3>1. s \in Nat /\ t \in Nat /\ due \subseteq Nat
      BY <1>2, <2>1
    <3>2. \A u \in due : u < s => u < t
      BY <1>3, <3>1
    <3>3. QED
      BY <1>2, <3>2
  <2> HIDE DEF before, due
  <2>3. Cardinality(before(s)) <= Cardinality(before(t)) /\ Cardinality(before(s)) \in Nat
        /\ Cardinality(before(t)) \in Nat
    BY <2>2, SubjectKeyCounts
  <2>4. Cardinality(before(s)) < BatchSize
    BY <1>2, <2>1, <2>3
  <2>5. QED
    BY <1>1, <2>4
<1>4. ASSUME due # {} PROVE Batch(k) # {}
  <2>1. PICK s \in due : \A t \in due : ~(t < s)
    BY <1>2, <1>4, LeastElement
  <2>2. before(s) = {}
    BY <2>1
  <2>3. Cardinality(before(s)) = 0
    BY <2>2, FS_EmptySet
  <2>4. Cardinality(before(s)) < BatchSize
    BY <1>2, <2>3
  <2>5. QED
    BY <1>1, <2>4
<1>5. Batch(k) \subseteq due
  BY <1>1
<1>6. Batch(k) = {} => \A s \in SubjectKeys : skKek[s] = k => s <= job[k].cursor
  BY <1>2, <1>4
<1>7. QED
  BY <1>2, <1>3, <1>5, <1>6

(***************************************************************************)
(* Steps that do not advance a job.                                        *)
(***************************************************************************)

\* A job keeps its account while the only keys that join those of its KEK come
\* late, destroyed ones stay where they are, and its failures stay open for the keys
\* it has left.
LEMMA KeptAccount ==
  ASSUME TypeOK, TypeOK', NEW k \in Keks, Account(k),
         job'[k].cursor = job[k].cursor, job'[k].done = job[k].done,
         job'[k].total = job[k].total,
         job'[k].state = "completed" => job[k].state = "completed",
         late \subseteq late',
         \A s \in SubjectKeys :
           /\ skKek'[s] = k => skKek[s] = k \/ <<k, s>> \in late' \ late
           /\ skState[s] = "destroyed" => skState'[s] = "destroyed" /\ skKek'[s] = skKek[s]
           /\ skKek'[s] = k /\ OpenFailure(k, s) => OpenFailure(k, s)'
  PROVE  Account(k)'
<1> DEFINE old == LateUnder(k)
           joined == {s \in SubjectKeys : <<k, s>> \in late' \ late}
<1>1. /\ Dependents(k)' \subseteq Dependents(k) \cup joined
      /\ Unprocessed(k)' \subseteq Unprocessed(k) \cup joined
      /\ CountedDestroyed(k) \subseteq CountedDestroyed(k)'
  BY DEF Dependents, Unprocessed, CountedDestroyed
<1>2. /\ Unprocessed(k) \in SUBSET SubjectKeys /\ Unprocessed(k)' \in SUBSET SubjectKeys
      /\ CountedDestroyed(k) \in SUBSET SubjectKeys
      /\ CountedDestroyed(k)' \in SUBSET SubjectKeys
      /\ old \in SUBSET SubjectKeys /\ joined \in SUBSET SubjectKeys
      /\ old \cap joined = {} /\ LateUnder(k)' = old \cup joined
  BY DEF Dependents, Unprocessed, CountedDestroyed, LateUnder
<1> HIDE DEF old, joined
<1>3. /\ Cardinality(CountedDestroyed(k)) <= Cardinality(CountedDestroyed(k)')
      /\ Cardinality(Unprocessed(k)) \in Nat /\ Cardinality(Unprocessed(k)') \in Nat
      /\ Cardinality(CountedDestroyed(k)) \in Nat
      /\ Cardinality(CountedDestroyed(k)') \in Nat
      /\ Cardinality(old) \in Nat /\ Cardinality(joined) \in Nat
  BY <1>1, <1>2, SubjectKeyCounts
<1>4. job[k].done \in Nat /\ job[k].total \in Nat
  BY DEF TypeOK, RewrapJob
<1>5. Cardinality(LateUnder(k)') = Cardinality(old) + Cardinality(joined)
  BY <1>2, SubjectKeyCounts
<1>6. Cardinality(Unprocessed(k)') <= Cardinality(Unprocessed(k)) + Cardinality(joined)
  <2>1. IsFiniteSet(Unprocessed(k)) /\ IsFiniteSet(joined)
    BY <1>2, SubjectKeySetsFinite
  <2>2. Cardinality(Unprocessed(k) \cup joined)
          = Cardinality(Unprocessed(k)) + Cardinality(joined)
              - Cardinality(Unprocessed(k) \cap joined)
    BY <2>1, FS_Union
  <2>3. /\ Unprocessed(k) \cap joined \in SUBSET SubjectKeys
        /\ Unprocessed(k) \cup joined \in SUBSET SubjectKeys
    BY <1>2
  <2>4. /\ Cardinality(Unprocessed(k) \cap joined) \in Nat
        /\ Cardinality(Unprocessed(k)') <= Cardinality(Unprocessed(k) \cup joined)
    BY <1>1, <1>2, <2>3, SubjectKeyCounts
  <2>5. QED
    BY <1>3, <2>2, <2>4
<1>7. job'[k].done + Cardinality(Unprocessed(k)')
        <= job'[k].total + Cardinality(CountedDestroyed(k)') + Cardinality(LateUnder(k)')
  <2>1. job[k].done + Cardinality(Unprocessed(k))
          <= job[k].total + Cardinality(CountedDestroyed(k)) + Cardinality(old)
    BY DEF Account, old
  <2>2. QED
    BY <1>3, <1>4, <1>5, <1>6, <2>1
<1>8. \A s \in Dependents(k)' :
        s <= job'[k].cursor => OpenFailure(k, s)' \/ s \in LateUnder(k)'
  <2> SUFFICES ASSUME NEW s \in Dependents(k)', s <= job'[k].cursor, s \notin LateUnder(k)'
               PROVE  OpenFailure(k, s)'
    OBVIOUS
  <2>1. s \in Dependents(k) /\ s \notin old
    BY <1>1, <1>2
  <2>2. OpenFailure(k, s)
    BY <2>1 DEF Account, old
  <2>3. QED
    BY <2>2 DEF Dependents
<1>9. job'[k].state = "completed" =>
        job'[k].done >= job'[k].total \/ Unprocessed(k)' \subseteq LateUnder(k)'
  BY <1>1, <1>2 DEF Account, old
<1>10. QED
  BY <1>7, <1>8, <1>9 DEF Account

\* A destroyed key is not revoked or destroyed again.
LEMMA DestroyedKeysStay ==
  ASSUME TypeOK, [Next]_vars, NEW s \in SubjectKeys, skState[s] = "destroyed"
  PROVE  skState'[s] = "destroyed"
<1> USE DEF TypeOK, skVars
<1>1. ASSUME NEW k \in Keks, KekRequest(k) PROVE UNCHANGED skState
  BY <1>1 DEF KekRequest, CreateKek, ProviderCreateLost, ActivateKek, RotateKek,
              RevokeKek, DestroyKek, DestroyKekCommitLost
<1>2. ASSUME NEW t \in SubjectKeys, SubjectRequest(t) PROVE skState'[s] = "destroyed"
  BY <1>2
     DEF SubjectRequest, EncryptNewSubject, EncryptExistingSubject, SeedSubjectKey,
         RevokeSubjectKey, DestroySubjectKey, SubjectKeyMayBecome, SubjectKeyTransitions
<1>3. CASE JobRequest \/ Worker
  BY <1>3 DEF JobRequest, PauseJob, ResumeJob, RetryFailure, Worker, RewrapStep
<1>4. CASE UNCHANGED vars
  BY <1>4 DEF vars
<1>5. QED
  BY <1>1, <1>2, <1>3, <1>4 DEF Next

\* Requests on subject keys, and those on KEKs other than rotations, leave the jobs
\* alone; the KEK that new keys join has no job, unless they come late.
LEMMA RequestsKeepAccount ==
  ASSUME IInv, JobsFollowRotations, JobsKeepAccount, [Next]_vars,
         UNCHANGED <<job, failures>>, late \subseteq late',
         \A s \in SubjectKeys : skKek'[s] # skKek[s] =>
           /\ skState[s] = "none"
           /\ skKek'[s] \in ActiveKeks \/ <<skKek'[s], s>> \in late' \ late
  PROVE  JobsKeepAccount'
<1> SUFFICES ASSUME NEW k \in Keks, FirstOfChain(k)' PROVE Account(k)'
  BY DEF JobsKeepAccount
<1>1. FirstOfChain(k) /\ TypeOK /\ TypeOK'
  BY NextTypeOK DEF FirstOfChain, IInv
<1>2. Account(k)
  BY <1>1 DEF JobsKeepAccount
<1>3. k \notin ActiveKeks
  BY <1>1 DEF JobsFollowRotations, ActiveKeks, FirstOfChain, NoJob
<1>4. ASSUME NEW s \in SubjectKeys
      PROVE  /\ skKek'[s] = k => skKek[s] = k \/ <<k, s>> \in late' \ late
             /\ skState[s] = "destroyed" =>
                  skState'[s] = "destroyed" /\ skKek'[s] = skKek[s]
             /\ OpenFailure(k, s) => OpenFailure(k, s)'
  BY <1>1, <1>3, DestroyedKeysStay DEF OpenFailure
<1>5. QED
  BY <1>1, <1>2, <1>4, KeptAccount

\* A rotation starts a job with the number of keys that are due, nothing counted.
LEMMA RotationKeepsAccount ==
  ASSUME IInv, JobsFollowRotations, JobsKeepAccount, [Next]_vars,
         NEW r \in Keks, NEW new \in Keks, RotateKek(r, new)
  PROVE  JobsKeepAccount'
<1> SUFFICES ASSUME NEW k \in Keks, FirstOfChain(k)' PROVE Account(k)'
  BY DEF JobsKeepAccount
<1>1. /\ job' = [job EXCEPT ![r] = [to |-> new, total |-> DependentCount(r),
                                    done |-> 0, cursor |-> 0, state |-> "running"]]
      /\ UNCHANGED <<skState, skKek, late, failures>> /\ job[r] = NoJob
      /\ job \in [Keks -> RewrapJob] /\ TypeOK /\ TypeOK'
  <2>1. /\ UNCHANGED <<skState, skKek, late, failures>> /\ job[r] = NoJob
        /\ job \in [Keks -> RewrapJob] /\ TypeOK
    BY DEF RotateKek, skVars, JobsFollowRotations, IInv, TypeOK
  <2>2. TypeOK'
    BY NextTypeOK DEF IInv
  <2>3. QED
    BY <2>1, <2>2 DEF RotateKek
<1>2. CASE k = r
  <2>1. /\ job'[k].total = DependentCount(k) /\ job'[k].done = 0 /\ job'[k].cursor = 0
        /\ job'[k].state = "running"
    BY <1>1, <1>2
  <2>2. \A s \in SubjectKeys : s > 0
    BY NumSubjectsAssumption DEF SubjectKeys
  <2>3. Unprocessed(k)' = Dependents(k) /\ CountedDestroyed(k)' = {}
    BY <1>1, <2>1, <2>2, NumSubjectsAssumption
       DEF Unprocessed, CountedDestroyed, Dependents, SubjectKeys
  <2>4. DependentCount(k) \in Nat /\ Cardinality({}) = 0
        /\ DependentCount(k) = Cardinality(Dependents(k))
        /\ Cardinality(LateUnder(k)') \in Nat
    <3>1. LateUnder(k)' \in SUBSET SubjectKeys
      BY DEF LateUnder
    <3>2. Cardinality(LateUnder(k)') \in Nat
      BY <3>1, SubjectKeySetsFinite
    <3>3. QED
      BY <3>2, DependentCountType, FS_EmptySet DEF DependentCount
  <2>5. job'[k].done + Cardinality(Unprocessed(k)')
          <= job'[k].total + Cardinality(CountedDestroyed(k)') + Cardinality(LateUnder(k)')
    BY <2>1, <2>3, <2>4
  <2>6. \A s \in SubjectKeys : ~(s <= job'[k].cursor)
    BY <2>1, NumSubjectsAssumption DEF SubjectKeys
  <2>7. QED
    BY <2>1, <2>5, <2>6 DEF Account, Dependents
<1>3. CASE k # r
  <2>1. job'[k] = job[k]
    BY <1>1, <1>3
  <2>2. FirstOfChain(k)
    BY <1>1, <2>1, KeksAssumption DEF FirstOfChain, NoJob
  <2>3. Account(k)
    BY <2>2 DEF JobsKeepAccount
  <2>4. \A s \in SubjectKeys : OpenFailure(k, s) => OpenFailure(k, s)'
    BY <1>1 DEF OpenFailure
  <2>5. QED
    BY <1>1, <2>1, <2>3, <2>4, KeptAccount
<1>4. QED
  BY <1>2, <1>3

\* The operators' overrides change nothing but the state, and none completes a job.
LEMMA OverrideKeepsAccount ==
  ASSUME IInv, JobsKeepAccount, [Next]_vars, NEW p \in Keks, PauseJob(p) \/ ResumeJob(p)
  PROVE  JobsKeepAccount'
<1> SUFFICES ASSUME NEW k \in Keks, FirstOfChain(k)' PROVE Account(k)'
  BY DEF JobsKeepAccount
<1>0. TypeOK'
  BY NextTypeOK DEF IInv
<1>1. /\ UNCHANGED <<skState, skKek, late, failures>> /\ job \in [Keks -> RewrapJob]
      /\ TypeOK /\ job[p].state # "none"
      /\ \E st \in {"paused", "running"} : job' = [job EXCEPT ![p].state = st]
  BY DEF PauseJob, ResumeJob, skVars, IInv, TypeOK
<1>2. ASSUME NEW j \in Keks
      PROVE  /\ job'[j].cursor = job[j].cursor /\ job'[j].done = job[j].done
             /\ job'[j].total = job[j].total /\ job'[j].to = job[j].to
             /\ job'[j].state = "completed" => job[j].state = "completed"
             /\ job'[j].state # "none" => job[j].state # "none"
  BY <1>1 DEF RewrapJob
<1>3. FirstOfChain(k)
  BY <1>2 DEF FirstOfChain
<1>4. Account(k)
  BY <1>3 DEF JobsKeepAccount
<1>5. \A s \in SubjectKeys : OpenFailure(k, s) => OpenFailure(k, s)'
  BY <1>1 DEF OpenFailure
<1>6. QED
  BY <1>0, <1>1, <1>2, <1>4, <1>5, KeptAccount

\* A retry that succeeds takes its key off the KEK whose failure it closes.
LEMMA RetryKeepsAccount ==
  ASSUME IInv, JobsFollowRotations, JobsKeepAccount, [Next]_vars,
         NEW f \in failures, RetryFailure(f)
  PROVE  JobsKeepAccount'
<1> SUFFICES ASSUME NEW k \in Keks, FirstOfChain(k)' PROVE Account(k)'
  BY DEF JobsKeepAccount
<1> DEFINE to == job[f.job].to
<1>0. TypeOK'
  BY NextTypeOK DEF IInv
<1>1. /\ f \in RewrapFailure /\ f.item \in SubjectKeys /\ f.job \in Keks /\ TypeOK
      /\ skKek \in [SubjectKeys -> Keks \cup {None}]
  BY DEF IInv, TypeOK, RewrapFailure
<1>2. /\ skKek' = [skKek EXCEPT ![f.item] = to] /\ to \in material
      /\ wrapped[f.item] \in material
      /\ failures' = (failures \ {f}) \cup {[f EXCEPT !.resolved = TRUE]}
      /\ UNCHANGED <<skState, late, job>>
  BY DEF RetryFailure, CanWrap, CanUnwrap
<1>3. FirstOfChain(k) /\ to # k
  BY <1>1, <1>2 DEF FirstOfChain
<1>4. Account(k)
  BY <1>3 DEF JobsKeepAccount
<1>5. skState[f.item] # "destroyed"
  BY <1>1, <1>2, KeksAssumption DEF IInv, TypeOK, SubjectKeyRows
<1>6. ASSUME NEW s \in SubjectKeys
      PROVE  /\ skKek'[s] = k => skKek[s] = k /\ s # f.item
             /\ skState[s] = "destroyed" =>
                  skState'[s] = "destroyed" /\ skKek'[s] = skKek[s]
  BY <1>1, <1>2, <1>3, <1>5
<1>7. ASSUME NEW s \in SubjectKeys, s # f.item, OpenFailure(k, s) PROVE OpenFailure(k, s)'
  BY <1>2, <1>7 DEF OpenFailure
<1>8. QED
  BY <1>0, <1>1, <1>2, <1>4, <1>6, <1>7, KeptAccount

(***************************************************************************)
(* The step of a job.                                                      *)
(***************************************************************************)

\* A batch splits into moved, failed and destroyed keys, all up to the new cursor.
LEMMA RewrapEffect ==
  ASSUME TypeOK, NEW k \in Keks, RewrapStep(k)
  PROVE  \E moved \in SUBSET Batch(k), failed \in SUBSET Batch(k), last \in 0 .. NumSubjects :
           /\ \A s \in Batch(k) : s \in moved \cup failed <=> skState[s] # "destroyed"
           /\ \A s \in Batch(k) : s <= last
           /\ IF Batch(k) = {} THEN last = job[k].cursor ELSE last \in Batch(k)
           /\ skKek' = [s \in SubjectKeys |-> IF s \in moved THEN job[k].to ELSE skKek[s]]
           /\ failures' = failures \cup
                {[job |-> k, item |-> s, resolved |-> FALSE] : s \in failed}
           /\ job' = [job EXCEPT
                ![k].done = job[k].done + Cardinality(Batch(k)),
                ![k].cursor = last,
                ![k].state = IF JobFinished(Batch(k), job[k].done + Cardinality(Batch(k)),
                                            job[k].total)
                               THEN "completed" ELSE "running"]
           /\ UNCHANGED <<kekState, skState, late>> /\ job[k].state = "running"
<1> DEFINE live == {s \in Batch(k) : skState[s] # "destroyed"}
<1>1. PICK failed \in SUBSET live, last \in 0 .. NumSubjects :
          /\ IF Batch(k) = {} THEN last = job[k].cursor
                           ELSE last \in Batch(k) /\ \A s \in Batch(k) : s <= last
          /\ skKek' = [s \in SubjectKeys |->
                         IF s \in live \ failed THEN job[k].to ELSE skKek[s]]
          /\ failures' = failures \cup
               {[job |-> k, item |-> s, resolved |-> FALSE] : s \in failed}
          /\ job' = [job EXCEPT
               ![k].done = job[k].done + Cardinality(Batch(k)),
               ![k].cursor = last,
               ![k].state = IF JobFinished(Batch(k), job[k].done + Cardinality(Batch(k)),
                                           job[k].total)
                              THEN "completed" ELSE "running"]
  BY DEF RewrapStep
<1> DEFINE moved == live \ failed
<1>2. moved \in SUBSET Batch(k) /\ failed \in SUBSET Batch(k)
  OBVIOUS
<1>3. \A s \in Batch(k) : s \in moved \cup failed <=> skState[s] # "destroyed"
  OBVIOUS
<1>4. UNCHANGED <<kekState, skState, late>> /\ job[k].state = "running"
  BY DEF RewrapStep, kekVars
<1>5. \A s \in Batch(k) : s <= last
  BY <1>1
<1>6. QED
  BY <1>1, <1>2, <1>3, <1>4, <1>5

LEMMA RewrapKeepsAccount ==
  ASSUME IInv, JobsFollowRotations, JobsKeepAccount, [Next]_vars,
         NEW w \in Keks, RewrapStep(w)
  PROVE  JobsKeepAccount'
<1> SUFFICES ASSUME NEW k \in Keks, FirstOfChain(k)' PROVE Account(k)'
  BY DEF JobsKeepAccount
<1> DEFINE batch == Batch(w)
           to == job[w].to
<1>0. /\ TypeOK /\ job \in [Keks -> RewrapJob] /\ skKek \in [SubjectKeys -> Keks \cup {None}]
      /\ TypeOK'
  BY NextTypeOK DEF IInv, TypeOK
<1>1. PICK moved \in SUBSET batch, failed \in SUBSET batch, last \in 0 .. NumSubjects :
        /\ \A s \in batch : s \in moved \cup failed <=> skState[s] # "destroyed"
        /\ \A s \in batch : s <= last
        /\ IF batch = {} THEN last = job[w].cursor ELSE last \in batch
        /\ skKek' = [s \in SubjectKeys |-> IF s \in moved THEN to ELSE skKek[s]]
        /\ failures' = failures \cup
             {[job |-> w, item |-> s, resolved |-> FALSE] : s \in failed}
        /\ job' = [job EXCEPT
             ![w].done = job[w].done + Cardinality(batch),
             ![w].cursor = last,
             ![w].state = IF JobFinished(batch, job[w].done + Cardinality(batch), job[w].total)
                            THEN "completed" ELSE "running"]
        /\ UNCHANGED <<kekState, skState, late>> /\ job[w].state = "running"
  BY <1>0, RewrapEffect
<1>2. /\ batch \in SUBSET SubjectKeys
      /\ \A s \in batch : skKek[s] = w /\ s > job[w].cursor
      /\ \A s \in SubjectKeys, t \in batch :
           skKek[s] = w /\ s > job[w].cursor /\ s <= t => s \in batch
      /\ batch = {} => \A s \in SubjectKeys : skKek[s] = w => s <= job[w].cursor
  BY <1>0, BatchIsNext
<1> HIDE DEF batch
<1>3. /\ job'[w].to = to /\ job'[w].total = job[w].total /\ job'[w].cursor = last
      /\ job'[w].done = job[w].done + Cardinality(batch)
      /\ job'[w].state = IF JobFinished(batch, job[w].done + Cardinality(batch), job[w].total)
                           THEN "completed" ELSE "running"
      /\ \A j \in Keks : j # w => job'[j] = job[j]
      /\ \A j \in Keks : job'[j].to = job[j].to /\ (job'[j].state # "none" => job[j].state # "none")
  BY <1>0, <1>1 DEF RewrapJob
<1>4. FirstOfChain(k) /\ to # k
  BY <1>3 DEF FirstOfChain
<1>5. Account(k)
  BY <1>4 DEF JobsKeepAccount
<1>6. ASSUME NEW s \in SubjectKeys
      PROVE  /\ skKek'[s] = k => skKek[s] = k /\ s \notin moved
             /\ skState[s] = "destroyed" =>
                  skState'[s] = "destroyed" /\ skKek'[s] = skKek[s]
             /\ OpenFailure(k, s) => OpenFailure(k, s)'
  BY <1>1, <1>4 DEF OpenFailure
<1>7. CASE k # w
  BY <1>0, <1>1, <1>3, <1>5, <1>6, <1>7, KeptAccount
<1>8. CASE k = w
  <2> DEFINE live == {s \in batch : skState[s] # "destroyed"}
             gone == {s \in batch : skState[s] = "destroyed"}
  <2>1. /\ job[w].cursor \in Nat /\ last \in Nat /\ SubjectKeys \subseteq Nat
        /\ job[w].done \in Nat /\ job[w].total \in Nat
    BY <1>0, NumSubjectsAssumption DEF RewrapJob, SubjectKeys
  <2>2. job[w].cursor <= last
    BY <1>1, <1>2, <2>1
  <2>3. ASSUME NEW s \in SubjectKeys, skKek[s] = w, s > job[w].cursor, s <= last
        PROVE  s \in batch
    <3>1. s \in Nat
      BY <2>1
    <3>2. last # job[w].cursor
      BY <2>1, <2>3, <3>1
    <3>3. last \in batch
      BY <1>1, <3>2
    <3>4. QED
      BY <1>2, <2>3, <3>3
  <2>4. \A s \in Dependents(w)' : s <= last => OpenFailure(w, s)' \/ s \in LateUnder(w)'
    <3> SUFFICES ASSUME NEW s \in Dependents(w)', s <= last, s \notin LateUnder(w)'
                 PROVE  OpenFailure(w, s)'
      OBVIOUS
    <3>0. s \notin LateUnder(w)
      BY <1>1 DEF LateUnder
    <3>1. /\ s \in SubjectKeys /\ skKek[s] = w /\ s \notin moved /\ skState[s] # "destroyed"
      BY <1>1, <1>6, <1>8 DEF Dependents
    <3>2. CASE s <= job[w].cursor
      BY <1>5, <1>6, <1>8, <3>0, <3>1, <3>2 DEF Account, Dependents
    <3>3. CASE ~(s <= job[w].cursor)
      <4>1. s \in batch
        <5>1. s > job[w].cursor
          BY <2>1, <3>1, <3>3
        <5>2. QED
          BY <2>3, <3>1, <5>1
      <4>2. s \in failed
        BY <1>1, <3>1, <4>1
      <4>3. [job |-> w, item |-> s, resolved |-> FALSE] \in failures'
        BY <1>1, <4>2
      <4>4. QED
        BY <4>3 DEF OpenFailure
    <3>4. QED
      BY <3>2, <3>3
  <2>5. \A s \in SubjectKeys : skState'[s] = skState[s]
    BY <1>1
  <2>6. /\ Unprocessed(w)' \cup live \subseteq Unprocessed(w)
        /\ Unprocessed(w)' \cap live = {}
    <3>1. \A s \in Unprocessed(w)' : s \in Unprocessed(w) /\ s \notin batch
      BY <1>1, <1>3, <1>6, <1>8, <2>1, <2>2, <2>5 DEF Unprocessed, Dependents
    <3>2. \A s \in live : s \in Unprocessed(w)
      BY <1>2 DEF Unprocessed, Dependents
    <3>3. QED
      BY <3>1, <3>2
  <2>7. /\ CountedDestroyed(w) \cup gone \subseteq CountedDestroyed(w)'
        /\ CountedDestroyed(w) \cap gone = {}
    <3>1. \A s \in CountedDestroyed(w) : s \in CountedDestroyed(w)' /\ s \notin batch
      BY <1>2, <1>3, <1>6, <2>1, <2>2, <2>5 DEF CountedDestroyed
    <3>2. \A s \in gone : s \in CountedDestroyed(w)'
      BY <1>1, <1>2, <1>3, <1>6, <2>5 DEF CountedDestroyed
    <3>3. QED
      BY <3>1, <3>2
  <2>8. live \cap gone = {} /\ live \cup gone = batch
    OBVIOUS
  <2>9. /\ Unprocessed(w) \in SUBSET SubjectKeys /\ Unprocessed(w)' \in SUBSET SubjectKeys
        /\ CountedDestroyed(w) \in SUBSET SubjectKeys
        /\ CountedDestroyed(w)' \in SUBSET SubjectKeys
        /\ live \in SUBSET SubjectKeys /\ gone \in SUBSET SubjectKeys
    BY <1>2 DEF Unprocessed, CountedDestroyed, Dependents
  <2> HIDE DEF live, gone
  <2>10. /\ Cardinality(Unprocessed(w)') + Cardinality(live) <= Cardinality(Unprocessed(w))
         /\ Cardinality(Unprocessed(w)') \in Nat /\ Cardinality(live) \in Nat
         /\ Cardinality(Unprocessed(w)) \in Nat
    <3>1. Cardinality(Unprocessed(w)' \cup live)
            = Cardinality(Unprocessed(w)') + Cardinality(live)
      BY <2>6, <2>9, SubjectKeyCounts
    <3>2. Unprocessed(w)' \cup live \in SUBSET SubjectKeys
      BY <2>9
    <3>3. Cardinality(Unprocessed(w)' \cup live) <= Cardinality(Unprocessed(w))
      BY <2>6, <2>9, <3>2, SubjectKeyCounts
    <3>4. QED
      BY <2>9, <3>1, <3>3, SubjectKeyCounts
  <2>11. /\ Cardinality(CountedDestroyed(w)) + Cardinality(gone)
              <= Cardinality(CountedDestroyed(w)')
         /\ Cardinality(CountedDestroyed(w)') \in Nat /\ Cardinality(gone) \in Nat
         /\ Cardinality(CountedDestroyed(w)) \in Nat
    <3>1. Cardinality(CountedDestroyed(w) \cup gone)
            = Cardinality(CountedDestroyed(w)) + Cardinality(gone)
      BY <2>7, <2>9, SubjectKeyCounts
    <3>2. CountedDestroyed(w) \cup gone \in SUBSET SubjectKeys
      BY <2>9
    <3>3. Cardinality(CountedDestroyed(w) \cup gone) <= Cardinality(CountedDestroyed(w)')
      BY <2>7, <2>9, <3>2, SubjectKeyCounts
    <3>4. QED
      BY <2>9, <3>1, <3>3, SubjectKeyCounts
  <2>12. Cardinality(batch) = Cardinality(live) + Cardinality(gone)
    BY <2>8, <2>9, SubjectKeyCounts
  <2>13. job'[w].done + Cardinality(Unprocessed(w)')
           <= job'[w].total + Cardinality(CountedDestroyed(w)') + Cardinality(LateUnder(w)')
    <3>1. job[w].done + Cardinality(Unprocessed(w))
            <= job[w].total + Cardinality(CountedDestroyed(w)) + Cardinality(LateUnder(w))
      BY <1>5, <1>8 DEF Account
    <3>2. LateUnder(w)' = LateUnder(w) /\ LateUnder(w) \in SUBSET SubjectKeys
      BY <1>1 DEF LateUnder
    <3>3. Cardinality(LateUnder(w)') = Cardinality(LateUnder(w))
          /\ Cardinality(LateUnder(w)) \in Nat
      BY <3>2, SubjectKeySetsFinite
    <3>4. QED
      BY <1>3, <2>1, <2>10, <2>11, <2>12, <3>1, <3>3
  <2>14. job'[w].state = "completed" =>
           job'[w].done >= job'[w].total \/ Unprocessed(w)' \subseteq LateUnder(w)'
    <3>1. CASE batch = {}
      <4>1. Unprocessed(w)' = {}
        BY <1>1, <1>2, <1>3, <1>6, <1>8, <2>1, <3>1 DEF Unprocessed, Dependents
      <4>2. QED
        BY <4>1
    <3>2. CASE batch # {}
      BY <1>3, <3>2 DEF JobFinished
    <3>3. QED
      BY <3>1, <3>2
  <2>15. Account(w)'
    BY <1>3, <2>4, <2>13, <2>14 DEF Account
  <2>16. QED
    BY <1>8, <2>15
<1>9. QED
  BY <1>7, <1>8

(***************************************************************************)
(* The invariant, and the theorems.                                        *)
(***************************************************************************)

LEMMA NextJobsKeepAccount ==
  ASSUME IInv, JobsFollowRotations, JobsKeepAccount, LatecomersExist, [Next]_vars
  PROVE  JobsKeepAccount'
<1> USE DEF kekVars, skVars, jobVars
<1>0. skKek \in [SubjectKeys -> Keks \cup {None}]
  BY DEF IInv, TypeOK
<1>1. ASSUME UNCHANGED <<skKek, late, job, failures>> PROVE JobsKeepAccount'
  BY <1>1, RequestsKeepAccount
<1>2. ASSUME NEW k \in Keks, KekRequest(k) PROVE JobsKeepAccount'
  <2>1. ASSUME NEW new \in Keks, RotateKek(k, new) PROVE JobsKeepAccount'
    BY <2>1, RotationKeepsAccount
  <2>2. CASE \/ CreateKek(k) \/ ProviderCreateLost(k) \/ ActivateKek(k) \/ RevokeKek(k)
             \/ DestroyKek(k) \/ DestroyKekCommitLost(k)
    BY <1>1, <2>2
       DEF CreateKek, ProviderCreateLost, ActivateKek, RevokeKek, DestroyKek,
           DestroyKekCommitLost
  <2>3. QED
    BY <1>2, <2>1, <2>2 DEF KekRequest
<1>3. ASSUME NEW s \in SubjectKeys, SubjectRequest(s) PROVE JobsKeepAccount'
  <2>1. ASSUME UNCHANGED <<job, failures>>, skState[s] = "none", late \subseteq late',
               NEW a, a \in ActiveKeks \/ <<a, s>> \in late' \ late,
               skKek' = [skKek EXCEPT ![s] = a]
        PROVE  JobsKeepAccount'
    <3>1. \A u \in SubjectKeys : skKek'[u] # skKek[u] =>
            /\ skState[u] = "none"
            /\ skKek'[u] \in ActiveKeks \/ <<skKek'[u], u>> \in late' \ late
      BY <1>0, <2>1
    <3>2. QED
      BY <2>1, <3>1, RequestsKeepAccount
  <2>2. CASE EncryptNewSubject(s)
    <3>1. PICK a \in activated :
            /\ skKek' = [skKek EXCEPT ![s] = a]
            /\ late' = IF a \in ActiveKeks THEN late ELSE late \cup {<<a, s>>}
      BY <2>2 DEF EncryptNewSubject
    <3>2. UNCHANGED <<job, failures>> /\ skState[s] = "none" /\ a \in Keks
      BY <2>2 DEF EncryptNewSubject, IInv, TypeOK
    <3>3. <<a, s>> \notin late
      BY <3>2 DEF LatecomersExist, LateUnder
    <3>4. late \subseteq late' /\ (a \in ActiveKeks \/ <<a, s>> \in late' \ late)
      BY <3>1, <3>3
    <3>5. QED
      BY <2>1, <3>1, <3>2, <3>4
  <2>3. ASSUME NEW state \in SeedStates, SeedSubjectKey(s, state) PROVE JobsKeepAccount'
    <3>1. PICK a \in ActiveKeks : skKek' = [skKek EXCEPT ![s] = a]
      BY <2>3 DEF SeedSubjectKey
    <3>2. UNCHANGED <<job, failures, late>> /\ skState[s] = "none"
      BY <2>3 DEF SeedSubjectKey
    <3>3. QED
      BY <2>1, <3>1, <3>2
  <2>4. CASE EncryptExistingSubject(s) \/ RevokeSubjectKey(s) \/ DestroySubjectKey(s)
    BY <1>1, <2>4 DEF EncryptExistingSubject, RevokeSubjectKey, DestroySubjectKey
  <2>5. QED
    BY <1>3, <2>2, <2>3, <2>4 DEF SubjectRequest
<1>4. CASE JobRequest
  BY <1>4, OverrideKeepsAccount, RetryKeepsAccount DEF JobRequest
<1>5. CASE Worker
  BY <1>5, RewrapKeepsAccount DEF Worker
<1>6. CASE UNCHANGED vars
  BY <1>1, <1>6 DEF vars
<1>7. QED
  BY <1>2, <1>3, <1>4, <1>5, <1>6 DEF Next

\* Only the INSERT of a key makes it late, and rows do not disappear.
LEMMA NextLatecomersExist ==
  ASSUME IInv, LatecomersExist, [Next]_vars
  PROVE  LatecomersExist'
<1> USE DEF kekVars, skVars, jobVars
<1>0. \A s \in SubjectKeys : skState[s] # "none" => skState'[s] # "none"
  BY NothingIsForgotten DEF IInv
<1>1. ASSUME late' = late PROVE LatecomersExist'
  BY <1>0, <1>1 DEF LatecomersExist, LateUnder
<1>2. ASSUME NEW s \in SubjectKeys, EncryptNewSubject(s) PROVE LatecomersExist'
  <2>1. skState'[s] = "active"
    BY <1>2 DEF EncryptNewSubject, IInv, TypeOK
  <2>2. \A k \in Keks, u \in SubjectKeys : <<k, u>> \in late' => <<k, u>> \in late \/ u = s
    BY <1>2 DEF EncryptNewSubject
  <2>3. QED
    BY <1>0, <2>1, <2>2 DEF LatecomersExist, LateUnder
<1>3. ASSUME NEW k \in Keks, KekRequest(k) PROVE late' = late
  BY <1>3 DEF KekRequest, CreateKek, ProviderCreateLost, ActivateKek, RotateKek,
              RevokeKek, DestroyKek, DestroyKekCommitLost
<1>4. ASSUME NEW s \in SubjectKeys, SubjectRequest(s), ~EncryptNewSubject(s)
      PROVE  late' = late
  BY <1>4 DEF SubjectRequest, EncryptExistingSubject, SeedSubjectKey,
              RevokeSubjectKey, DestroySubjectKey
<1>5. CASE JobRequest \/ Worker \/ UNCHANGED vars
  <2>1. late' = late
    BY <1>5 DEF JobRequest, PauseJob, ResumeJob, RetryFailure, Worker, RewrapStep, vars
  <2>2. QED
    BY <1>1, <2>1
<1>6. QED
  BY <1>1, <1>2, <1>3, <1>4, <1>5 DEF Next

LEMMA NextJobsFollowRotations ==
  ASSUME IInv, JobsFollowRotations, [Next]_vars
  PROVE  JobsFollowRotations'
<1> USE DEF kekVars, skVars, jobVars
<1>0. TypeOK /\ job \in [Keks -> RewrapJob] /\ kekState \in [Keks -> KeyState \cup {"none"}]
  BY DEF IInv, TypeOK
<1>1. ASSUME UNCHANGED job,
             \A k \in Keks : kekState'[k] \in {"none", "pending", "active"} =>
                               kekState[k] \in {"none", "pending", "active"}
      PROVE  JobsFollowRotations'
  BY <1>1 DEF JobsFollowRotations
<1>2. ASSUME NEW k \in Keks, KekRequest(k) PROVE JobsFollowRotations'
  <2>1. ASSUME NEW new \in Keks, RotateKek(k, new) PROVE JobsFollowRotations'
    <3>1. /\ kekState[k] = "active" /\ kekState[new] = "none" /\ k # new
          /\ kekState' = [kekState EXCEPT ![k] = "deprecated", ![new] = "active"]
      BY <2>1 DEF RotateKek, Fresh
    <3>2. /\ \A j \in Keks : j # k => job'[j] = job[j]
          /\ job'[k].to = new
      BY <1>0, <2>1 DEF RotateKek
    <3>3. \A j \in Keks : kekState'[j] \in {"none", "pending", "active"} =>
            j # k /\ kekState[j] \in {"none", "pending", "active"}
      BY <1>0, <3>1
    <3>4. QED
      BY <3>1, <3>2, <3>3 DEF JobsFollowRotations
  <2>2. CASE \/ CreateKek(k) \/ ProviderCreateLost(k) \/ ActivateKek(k) \/ RevokeKek(k)
             \/ DestroyKek(k) \/ DestroyKekCommitLost(k)
    BY <1>0, <1>1, <2>2
       DEF CreateKek, Fresh, ProviderCreateLost, ActivateKek, RevokeKek, DestroyKek,
           DestroyKekCommitLost, KekMayBecome, KekTransitions
  <2>3. QED
    BY <1>2, <2>1, <2>2 DEF KekRequest
<1>3. ASSUME NEW s \in SubjectKeys, SubjectRequest(s) PROVE JobsFollowRotations'
  BY <1>1, <1>3
     DEF SubjectRequest, EncryptNewSubject, EncryptExistingSubject, SeedSubjectKey,
         RevokeSubjectKey, DestroySubjectKey
<1>4. ASSUME UNCHANGED kekState, NEW k \in Keks, job[k].state # "none",
             \A j \in Keks : job'[j].to = job[j].to /\ (j # k => job'[j] = job[j])
      PROVE  JobsFollowRotations'
  BY <1>4 DEF JobsFollowRotations, NoJob
<1>5. ASSUME NEW k \in Keks, PauseJob(k) \/ ResumeJob(k) PROVE JobsFollowRotations'
  <2>1. /\ UNCHANGED kekState /\ job[k].state # "none"
        /\ \E st \in {"paused", "running"} : job' = [job EXCEPT ![k].state = st]
    BY <1>5 DEF PauseJob, ResumeJob
  <2>2. \A j \in Keks : job'[j].to = job[j].to /\ (j # k => job'[j] = job[j])
    BY <1>0, <2>1 DEF RewrapJob
  <2>3. QED
    BY <1>4, <2>1, <2>2
<1>6. ASSUME NEW f \in failures, RetryFailure(f) PROVE JobsFollowRotations'
  BY <1>1, <1>6 DEF RetryFailure
<1>7. ASSUME NEW k \in Keks, RewrapStep(k) PROVE JobsFollowRotations'
  <2>1. /\ UNCHANGED kekState /\ job[k].state = "running"
        /\ \E last \in 0 .. NumSubjects, st \in {"running", "completed"} :
             job' = [job EXCEPT ![k].done = job[k].done + Cardinality(Batch(k)),
                                ![k].cursor = last, ![k].state = st]
    <3>1. \E last \in 0 .. NumSubjects :
            /\ job' = [job EXCEPT
                 ![k].done = job[k].done + Cardinality(Batch(k)),
                 ![k].cursor = last,
                 ![k].state = IF JobFinished(Batch(k), job[k].done + Cardinality(Batch(k)),
                                             job[k].total)
                                THEN "completed" ELSE "running"]
            /\ UNCHANGED kekState /\ job[k].state = "running"
      BY <1>0, <1>7, RewrapEffect
    <3>2. QED
      BY <3>1
  <2>2. \A j \in Keks : job'[j].to = job[j].to /\ (j # k => job'[j] = job[j])
    BY <1>0, <2>1 DEF RewrapJob
  <2>3. QED
    BY <1>4, <2>1, <2>2
<1>8. CASE UNCHANGED vars
  BY <1>1, <1>8 DEF vars
<1>9. QED
  BY <1>2, <1>3, <1>5, <1>6, <1>7, <1>8 DEF Next, JobRequest, Worker

\* What job k may have counted.
Passed(k) == {s \in SubjectKeys : skState[s] # "none" /\ s <= job[k].cursor}

LEMMA NextNoItemCountedTwice ==
  ASSUME IInv, NoItemCountedTwice, [Next]_vars
  PROVE  NoItemCountedTwice'
<1> USE DEF kekVars, skVars, jobVars
<1> SUFFICES ASSUME NEW k \in Keks
             PROVE  job'[k].done <= Cardinality(Passed(k)')
  BY DEF NoItemCountedTwice, Passed
<1>0. /\ TypeOK /\ job \in [Keks -> RewrapJob] /\ job[k].done \in Nat
      /\ Passed(k) \in SUBSET SubjectKeys /\ Passed(k)' \in SUBSET SubjectKeys
      /\ \A s \in SubjectKeys : skState[s] # "none" => skState'[s] # "none"
      /\ job[k].done <= Cardinality(Passed(k))
  BY NothingIsForgotten DEF IInv, TypeOK, RewrapJob, Passed, NoItemCountedTwice
<1>1. /\ Cardinality(Passed(k)) \in Nat /\ Cardinality(Passed(k)') \in Nat
      /\ Passed(k) \subseteq Passed(k)' => Cardinality(Passed(k)) <= Cardinality(Passed(k)')
  BY <1>0, SubjectKeyCounts
<1> DEFINE Goal == job'[k].done <= Cardinality(Passed(k)')
<1>2. ASSUME job'[k].done = job[k].done, job'[k].cursor = job[k].cursor PROVE Goal
  <2>1. Passed(k) \subseteq Passed(k)'
    BY <1>0, <1>2 DEF Passed
  <2>2. QED
    BY <1>0, <1>1, <1>2, <2>1
<1>3. ASSUME NEW r \in Keks, KekRequest(r) PROVE Goal
  <2>1. ASSUME NEW new \in Keks, RotateKek(r, new) PROVE Goal
    <3>1. CASE k = r
      <4>1. job'[k].done = 0
        BY <1>0, <2>1, <3>1 DEF RotateKek
      <4>2. QED
        BY <1>1, <4>1
    <3>2. CASE k # r
      BY <1>0, <1>2, <2>1, <3>2 DEF RotateKek
    <3>3. QED
      BY <3>1, <3>2
  <2>2. CASE \/ CreateKek(r) \/ ProviderCreateLost(r) \/ ActivateKek(r) \/ RevokeKek(r)
             \/ DestroyKek(r) \/ DestroyKekCommitLost(r)
    BY <1>2, <2>2
       DEF CreateKek, ProviderCreateLost, ActivateKek, RevokeKek, DestroyKek,
           DestroyKekCommitLost
  <2>3. QED
    BY <1>3, <2>1, <2>2 DEF KekRequest
<1>4. ASSUME NEW s \in SubjectKeys, SubjectRequest(s) PROVE Goal
  BY <1>2, <1>4
     DEF SubjectRequest, EncryptNewSubject, EncryptExistingSubject, SeedSubjectKey,
         RevokeSubjectKey, DestroySubjectKey
<1>5. ASSUME NEW p \in Keks, PauseJob(p) \/ ResumeJob(p) PROVE Goal
  <2>1. \E st \in {"paused", "running"} : job' = [job EXCEPT ![p].state = st]
    BY <1>5 DEF PauseJob, ResumeJob
  <2>2. job'[k].done = job[k].done /\ job'[k].cursor = job[k].cursor
    BY <1>0, <2>1 DEF RewrapJob
  <2>3. QED
    BY <1>2, <2>2
<1>6. ASSUME NEW f \in failures, RetryFailure(f) PROVE Goal
  BY <1>2, <1>6 DEF RetryFailure
<1>7. ASSUME NEW w \in Keks, RewrapStep(w) PROVE Goal
  <2>1. PICK last \in 0 .. NumSubjects, st \in {"running", "completed"} :
          /\ \A s \in Batch(w) : s <= last
          /\ IF Batch(w) = {} THEN last = job[w].cursor ELSE last \in Batch(w)
          /\ job' = [job EXCEPT ![w].done = job[w].done + Cardinality(Batch(w)),
                                ![w].cursor = last, ![w].state = st]
          /\ UNCHANGED skState
    BY <1>0, <1>7, RewrapEffect
  <2>2. CASE k # w
    BY <1>0, <1>2, <2>1, <2>2
  <2>3. CASE k = w
    <3>1. /\ Batch(k) \in SUBSET SubjectKeys
          /\ \A s \in Batch(k) : skKek[s] = k /\ s > job[k].cursor
      BY <1>0, BatchIsNext
    <3>2. job'[k].done = job[k].done + Cardinality(Batch(k)) /\ job'[k].cursor = last
      BY <1>0, <2>1, <2>3 DEF RewrapJob
    <3>3. /\ job[k].cursor \in Nat /\ last \in Nat /\ SubjectKeys \subseteq Nat
      BY <1>0, NumSubjectsAssumption DEF RewrapJob, SubjectKeys
    <3>4. job[k].cursor <= last
      BY <2>1, <2>3, <3>1, <3>3
    <3>5. \A s \in Batch(k) : skState[s] # "none"
      BY <3>1, KeksAssumption DEF IInv, SubjectKeyRows
    <3>6. Passed(k) \cup Batch(k) \subseteq Passed(k)' /\ Passed(k) \cap Batch(k) = {}
      <4>1. \A s \in Passed(k) : s \in Passed(k)' /\ s \notin Batch(k)
        BY <1>0, <3>1, <3>2, <3>3, <3>4 DEF Passed
      <4>2. \A s \in Batch(k) : s \in Passed(k)'
        BY <1>0, <2>1, <2>3, <3>1, <3>2, <3>5 DEF Passed
      <4>3. QED
        BY <4>1, <4>2
    <3>7. /\ Cardinality(Passed(k) \cup Batch(k)) = Cardinality(Passed(k)) + Cardinality(Batch(k))
          /\ Cardinality(Batch(k)) \in Nat
      BY <1>0, <3>1, <3>6, SubjectKeyCounts
    <3>8. Cardinality(Passed(k) \cup Batch(k)) <= Cardinality(Passed(k)')
      <4>1. Passed(k) \cup Batch(k) \in SUBSET SubjectKeys
        BY <1>0, <3>1
      <4>2. QED
        BY <1>0, <3>6, <4>1, SubjectKeyCounts
    <3>9. QED
      BY <1>0, <1>1, <3>2, <3>7, <3>8
  <2>4. QED
    BY <2>2, <2>3
<1>8. CASE UNCHANGED vars
  BY <1>2, <1>8 DEF vars
<1>9. QED
  BY <1>3, <1>4, <1>5, <1>6, <1>7, <1>8 DEF Next, JobRequest, Worker

LEMMA InitJobInv == Init => JobInv
<1> SUFFICES ASSUME Init PROVE JobInv
  OBVIOUS
<1>1. \A k \in Keks : job[k] = NoJob
  BY DEF Init
<1>2. JobsFollowRotations /\ JobsKeepAccount
  BY <1>1, KeksAssumption DEF JobsFollowRotations, JobsKeepAccount, FirstOfChain, NoJob
<1>3. NoItemCountedTwice
  <2> SUFFICES ASSUME NEW k \in Keks PROVE job[k].done <= Cardinality(Passed(k))
    BY DEF NoItemCountedTwice, Passed
  <2>1. Passed(k) \in SUBSET SubjectKeys
    BY DEF Passed
  <2>2. Cardinality(Passed(k)) \in Nat
    BY <2>1, SubjectKeySetsFinite
  <2>3. QED
    BY <1>1, <2>2 DEF NoJob
<1>4. LatecomersExist
  BY DEF Init, LatecomersExist, LateUnder
<1>5. QED
  BY <1>2, <1>3, <1>4 DEF JobInv

\* The inductive invariant of the rewrap jobs.
THEOREM JobInvariant == Spec => []JobInv
<1>1. IInv /\ JobInv /\ [Next]_vars => JobInv'
  BY NextJobsFollowRotations, NextJobsKeepAccount, NextLatecomersExist,
     NextNoItemCountedTwice DEF JobInv
<1>2. QED
  BY <1>1, InitJobInv, IInvInvariant, PTL DEF Spec

\* A killed, paused and resumed job leaves no gap: every live key behind the cursor
\* was moved, is on record as failed, or came late.
THEOREM CursorLeavesNoGap == Spec => []NoGapBehindCursor
<1>1. JobInv => NoGapBehindCursor
  BY DEF JobInv, JobsKeepAccount, Account, NoGapBehindCursor
<1>2. QED
  BY <1>1, JobInvariant, PTL

\* A completed job has before it no more live keys than it has counted destroyed ones
\* and than encrypts that overlapped its rotation inserted.
THEOREM CompletedJobsMissFew == Spec => []MissedKeysBounded
<1>1. IInv /\ JobInv => MissedKeysBounded
  <2> SUFFICES ASSUME IInv, JobInv, NEW k \in Keks, FirstOfChain(k),
                      job[k].state = "completed"
               PROVE  Cardinality(Unprocessed(k))
                        <= Cardinality(CountedDestroyed(k)) + Cardinality(LateUnder(k))
    BY DEF MissedKeysBounded, Unprocessed, CountedDestroyed
  <2>1. Account(k)
    BY DEF JobInv, JobsKeepAccount
  <2>2. /\ Unprocessed(k) \in SUBSET SubjectKeys /\ CountedDestroyed(k) \in SUBSET SubjectKeys
        /\ LateUnder(k) \in SUBSET SubjectKeys
        /\ job[k].done \in Nat /\ job[k].total \in Nat
    BY DEF Unprocessed, CountedDestroyed, Dependents, LateUnder, IInv, TypeOK, RewrapJob
  <2>3. /\ Cardinality(Unprocessed(k)) \in Nat /\ Cardinality(CountedDestroyed(k)) \in Nat
        /\ Cardinality(LateUnder(k)) \in Nat
        /\ Unprocessed(k) \subseteq LateUnder(k) =>
             Cardinality(Unprocessed(k)) <= Cardinality(LateUnder(k))
    BY <2>2, SubjectKeyCounts
  <2>4. CASE job[k].done >= job[k].total
    BY <2>1, <2>2, <2>3, <2>4 DEF Account
  <2>5. CASE Unprocessed(k) \subseteq LateUnder(k)
    BY <2>3, <2>5
  <2>6. QED
    BY <2>1, <2>4, <2>5 DEF Account
<1>2. QED
  BY <1>1, JobInvariant, IInvInvariant, PTL

\* What a job counts as done are distinct subject keys up to its cursor, however
\* often it is paused, resumed or restarted.
THEOREM ItemsAreCountedOnce == Spec => []NoItemCountedTwice
<1>1. JobInv => NoItemCountedTwice
  BY DEF JobInv
<1>2. QED
  BY <1>1, JobInvariant, PTL

=============================================================================
