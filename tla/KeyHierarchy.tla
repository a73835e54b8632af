---------------------------- MODULE KeyHierarchy ----------------------------
(***************************************************************************)
(* The key hierarchy of keyring/core/service.py, one action per request:   *)
(* KEKs (rows and provider material), subject keys wrapped under them,     *)
(* envelopes, rotation, the rewrap jobs a rotation starts, revocation and  *)
(* destruction.  Requests do not overlap here (KeyTransactions has the     *)
(* interleavings), except that the first encryption of a subject may have  *)
(* read the active KEK before other requests committed.  A request that    *)
(* raises before it commits leaves the database alone, so only what it did *)
(* to the provider is a step.                                              *)
(*                                                                         *)
(* Abstractions.  A subject has at most one subject key (subject_id is     *)
(* unique), so a subject key stands for its subject; its uuid is a number, *)
(* handed out in any order, because rewrap_step orders by id.  A KEK is    *)
(* active at most once, so the RewrapJob its rotation starts is named by   *)
(* the KEK it moves keys from.  wrapped_key is represented by the KEK that *)
(* encrypted it, and provider.unwrap succeeds only with the material of    *)
(* that KEK (AES-GCM).  Envelopes differ, as far as decrypt() can tell,    *)
(* only by subject key and by the kek_id stored in them.                   *)
(***************************************************************************)
EXTENDS KeyLifecycle, Integers, FiniteSets

CONSTANTS
  Keks,         \* identities available to KEKs
  NumSubjects,  \* number of subjects
  BatchSize,    \* rewrap_step's batch_size; the worker passes 25
  SeedStates,   \* states in which seed.py may insert keys; {} when it is not run
  MaxOverrides  \* bound on the pause and resume requests of the operators

None == "none"
Tombstone == "tombstone"  \* destroy_key writes wrapped_key = b"\x00"

ASSUME KeksAssumption == None \notin Keks /\ Tombstone \notin Keks
ASSUME NumSubjectsAssumption == NumSubjects \in Nat
ASSUME BatchSizeAssumption == BatchSize \in Nat \ {0}
ASSUME SeedStatesAssumption == SeedStates \subseteq {"pending", "deprecated"}
ASSUME MaxOverridesAssumption == MaxOverrides \in Nat

SubjectKeys == 1 .. NumSubjects

VARIABLES
  kekState,   \* keks.state, "none" for no row
  material,   \* the KEKs whose raw key the provider still holds
  skState,    \* subject_keys.state, "none" for no row
  skKek,      \* subject_keys.kek_id
  wrapped,    \* the KEK that encrypted subject_keys.wrapped_key, or Tombstone
  envelopes,  \* pairs <<subject key, kek_id>> for which an envelope exists
  job,        \* rewrap_jobs, by from_kek_id
  failures,   \* rewrap_failures
  overrides,  \* pause and resume requests made so far
  activated,  \* history: the KEKs that are or were active
  late        \* history: pairs <<KEK, subject key>>, the key inserted under a
              \* KEK that was no longer active

vars == <<kekState, material, skState, skKek, wrapped, envelopes, job,
          failures, overrides, activated, late>>

kekVars == <<kekState, material, activated>>
skVars == <<skState, skKek, wrapped, late>>
jobVars == <<job, failures, overrides>>

JobState == {"none", "running", "paused", "completed"}

\* cursor 0 is the NULL cursor of a job that has processed nothing.
RewrapJob == [to : Keks \cup {None}, total : Nat, done : Nat,
              cursor : 0 .. NumSubjects, state : JobState]

NoJob == [to |-> None, total |-> 0, done |-> 0, cursor |-> 0, state |-> "none"]

RewrapFailure == [job : Keks, item : SubjectKeys, resolved : BOOLEAN]

TypeOK ==
  /\ kekState \in [Keks -> KeyState \cup {"none"}]
  /\ material \subseteq Keks
  /\ skState \in [SubjectKeys -> KeyState \cup {"none"}]
  /\ skKek \in [SubjectKeys -> Keks \cup {None}]
  /\ wrapped \in [SubjectKeys -> Keks \cup {None, Tombstone}]
  /\ envelopes \subseteq SubjectKeys \X Keks
  /\ job \in [Keks -> RewrapJob]
  /\ failures \subseteq RewrapFailure
  /\ overrides \in 0 .. MaxOverrides
  /\ activated \subseteq Keks
  /\ late \subseteq Keks \X SubjectKeys

Init ==
  /\ kekState = [k \in Keks |-> "none"]
  /\ material = {}
  /\ skState = [s \in SubjectKeys |-> "none"]
  /\ skKek = [s \in SubjectKeys |-> None]
  /\ wrapped = [s \in SubjectKeys |-> None]
  /\ envelopes = {}
  /\ job = [k \in Keks |-> NoJob]
  /\ failures = {}
  /\ overrides = 0
  /\ activated = {}
  /\ late = {}

-----------------------------------------------------------------------------
(* Helpers the requests share.                                             *)

\* provider.wrap and provider.unwrap; both may also fail for reasons outside
\* the program, so they are necessary conditions of success.
CanWrap(k) == k \in material
CanUnwrap(k, blob) == k \in material /\ blob = k

Live(s) == skState[s] \notin {"none", "destroyed"}

\* blocking_dependents("kek", k): the rows the destruction of k waits for, and
\* the total of a rewrap job.
DependentsInUse(k) == {s \in SubjectKeys : skKek[s] = k /\ skState[s] = "active"}

Dependents(k) == {s \in SubjectKeys : skKek[s] = k /\ skState[s] # "destroyed"}

DependentCountOffByOne(k) == Cardinality(Dependents(k)) - 1

DependentCount(k) == Cardinality(Dependents(k))

ActiveKeks == {k \in Keks : kekState[k] = "active"}

\* A provider_ref and a row that were never used.
Fresh(k) == kekState[k] = "none" /\ k \notin material

-----------------------------------------------------------------------------
(* KEK lifecycle.                                                          *)

CreateKek(k) ==
  /\ Fresh(k)
  /\ material' = material \cup {k}
  /\ kekState' = [kekState EXCEPT ![k] = "pending"]
  /\ UNCHANGED <<activated, skVars, envelopes, jobVars>>

\* create_kek and rotate_kek call the provider before they write: when the
\* transaction is lost the material stays, under a reference no row names.
ProviderCreateLost(k) ==
  /\ Fresh(k)
  /\ material' = material \cup {k}
  /\ UNCHANGED <<kekState, activated, skVars, envelopes, jobVars>>

\* The partial unique index on state = 'active' turns a second activation
\* into an IntegrityError, and the request rolls back.
ActivateKek(k) ==
  /\ KekMayBecome(kekState[k], "active")
  /\ ActiveKeks = {}
  /\ kekState' = [kekState EXCEPT ![k] = "active"]
  /\ activated' = activated \cup {k}
  /\ UNCHANGED <<material, skVars, envelopes, jobVars>>

RotateWithoutDemotion(k, new) ==
  /\ kekState[k] = "active"
  /\ Fresh(new)
  /\ material' = material \cup {new}
  /\ kekState' = [kekState EXCEPT ![new] = "active"]
  /\ job' = [job EXCEPT ![k] = [to |-> new, total |-> DependentCount(k),
                                done |-> 0, cursor |-> 0, state |-> "running"]]
  /\ activated' = activated \cup {new}
  /\ UNCHANGED <<skVars, envelopes, failures, overrides>>

RotateWithoutActivation(k, new) ==
  /\ kekState[k] = "active"
  /\ Fresh(new)
  /\ material' = material \cup {new}
  /\ kekState' = [kekState EXCEPT ![k] = "deprecated", ![new] = "pending"]
  /\ job' = [job EXCEPT ![k] = [to |-> new, total |-> DependentCount(k),
                                done |-> 0, cursor |-> 0, state |-> "running"]]
  /\ UNCHANGED <<activated, skVars, envelopes, failures, overrides>>

RotateKek(k, new) ==
  /\ kekState[k] = "active"
  /\ Fresh(new)
  /\ material' = material \cup {new}
  /\ kekState' = [kekState EXCEPT ![k] = "deprecated", ![new] = "active"]
  /\ job' = [job EXCEPT ![k] = [to |-> new, total |-> DependentCount(k),
                                done |-> 0, cursor |-> 0, state |-> "running"]]
  /\ activated' = activated \cup {new}
  /\ UNCHANGED <<skVars, envelopes, failures, overrides>>

RevokeKek(k) ==
  /\ KekMayBecome(kekState[k], "revoked")
  /\ kekState' = [kekState EXCEPT ![k] = "revoked"]
  /\ UNCHANGED <<material, activated, skVars, envelopes, jobVars>>

DestroyKek(k) ==
  /\ KekMayBecome(kekState[k], "destroyed")
  /\ DependentCount(k) = 0
  /\ material' = material \ {k}
  /\ kekState' = [kekState EXCEPT ![k] = "destroyed"]
  /\ UNCHANGED <<activated, skVars, envelopes, jobVars>>

\* destroy_key removes the material before it writes the row: when the flush
\* or the commit fails, or the process dies, only the material is gone.
DestroyKekCommitLost(k) ==
  /\ KekMayBecome(kekState[k], "destroyed")
  /\ DependentCount(k) = 0
  /\ material' = material \ {k}
  /\ UNCHANGED <<kekState, activated, skVars, envelopes, jobVars>>
-----------------------------------------------------------------------------
(* Subject keys and envelopes.                                             *)

\* _get_or_create_subject_key for a subject without a key, then the rest of
\* encrypt: one transaction, which begins with the INSERT.  The active KEK is
\* read before that, so the KEK may have left state active since.  When its
\* material has gone, encrypt fails to unwrap the new key and rolls back.  The
\* new envelope names the key's KEK.
EncryptNewSubject(s) ==
  /\ skState[s] = "none"
  /\ \E k \in activated :
       /\ CanUnwrap(k, k)
       /\ skKek' = [skKek EXCEPT ![s] = k]
       /\ wrapped' = [wrapped EXCEPT ![s] = k]
       /\ envelopes' = envelopes \cup {<<s, k>>}
       /\ late' = IF k \in ActiveKeks THEN late ELSE late \cup {<<k, s>>}
  /\ skState' = [skState EXCEPT ![s] = "active"]
  /\ UNCHANGED <<kekVars, jobVars>>

\* The state of the KEK is not looked at: only its material has to be there.
EncryptNamingActiveKek(s) ==
  /\ skState[s] \notin {"none"} \cup Unusable
  /\ CanUnwrap(skKek[s], wrapped[s])
  /\ envelopes' = envelopes \cup {<<s, k>> : k \in ActiveKeks}
  /\ UNCHANGED <<kekVars, skVars, jobVars>>

EncryptExistingSubject(s) ==
  /\ skState[s] \notin {"none"} \cup Unusable
  /\ CanUnwrap(skKek[s], wrapped[s])
  /\ envelopes' = envelopes \cup {<<s, skKek[s]>>}
  /\ UNCHANGED <<kekVars, skVars, jobVars>>

\* seed.py inserts pending keys and sets keys deprecated by hand, before the
\* first rotation.
SeedSubjectKey(s, state) ==
  /\ skState[s] = "none"
  /\ \A j \in Keks : job[j].state = "none"
  /\ \E k \in ActiveKeks :
       /\ CanWrap(k)
       /\ skKek' = [skKek EXCEPT ![s] = k]
       /\ wrapped' = [wrapped EXCEPT ![s] = k]
       /\ envelopes' = IF state = "deprecated" THEN envelopes \cup {<<s, k>>}
                                               ELSE envelopes
  /\ skState' = [skState EXCEPT ![s] = state]
  /\ UNCHANGED <<kekVars, late, jobVars>>

\* What decrypt() and decrypt_stream() need to answer with the plaintext.
\* The KEK they unwrap with is the envelope's, not the subject key's.
Decryptable(s, k) ==
  /\ <<s, k>> \in envelopes
  /\ skState[s] \notin Unusable
  /\ kekState[k] \notin Unusable
  /\ CanUnwrap(k, wrapped[s])

RevokeSubjectKey(s) ==
  /\ SubjectKeyMayBecome(skState[s], "revoked")
  /\ skState' = [skState EXCEPT ![s] = "revoked"]
  /\ UNCHANGED <<kekVars, skKek, wrapped, late, envelopes, jobVars>>

\* destroy_key("subject_key") and erase_subject; envelopes stay where they are.
DestroyWithoutTombstone(s) ==
  /\ SubjectKeyMayBecome(skState[s], "destroyed")
  /\ skState' = [skState EXCEPT ![s] = "destroyed"]
  /\ UNCHANGED <<kekVars, skKek, wrapped, late, envelopes, jobVars>>

DestroySubjectKey(s) ==
  /\ SubjectKeyMayBecome(skState[s], "destroyed")
  /\ skState' = [skState EXCEPT ![s] = "destroyed"]
  /\ wrapped' = [wrapped EXCEPT ![s] = Tombstone]
  /\ UNCHANGED <<kekVars, skKek, late, envelopes, jobVars>>

-----------------------------------------------------------------------------
(* Rewrap jobs.                                                            *)

\* WHERE kek_id = from AND id > cursor ORDER BY id LIMIT batch_size.
BatchUnordered(k) ==
  LET due == {s \in SubjectKeys : skKek[s] = k /\ s > job[k].cursor}
  IN  {s \in due : Cardinality({t \in due : t > s}) < BatchSize}

BatchFromCursor(k) ==
  LET due == {s \in SubjectKeys : skKek[s] = k /\ s >= job[k].cursor}
  IN  {s \in due : Cardinality({t \in due : t < s}) < BatchSize}

Batch(k) ==
  LET due == {s \in SubjectKeys : skKek[s] = k /\ s > job[k].cursor}
  IN  {s \in due : Cardinality({t \in due : t < s}) < BatchSize}

JobFinishedEarly(batch, done, total) == batch = {} \/ done + 1 >= total

JobNeverFinished(batch, done, total) == batch # {} /\ done > total

JobFinished(batch, done, total) == batch = {} \/ done >= total

\* One committed rewrap_step.  The provider may fail for any item; a failed
\* item leaves a row, and is counted and passed like a moved one.  Destroyed
\* keys are counted and passed too.
RewrapStep(k) ==
  /\ job[k].state = "running"
  /\ LET batch == Batch(k)
         live == {s \in batch : skState[s] # "destroyed"}
         done == job[k].done + Cardinality(batch)
     IN \E failed \in SUBSET live, last \in 0 .. NumSubjects :
          /\ \A s \in live \ failed : CanUnwrap(k, wrapped[s]) /\ CanWrap(job[k].to)
          /\ IF batch = {} THEN last = job[k].cursor
                           ELSE last \in batch /\ \A s \in batch : s <= last
          /\ skKek' = [s \in SubjectKeys |->
                         IF s \in live \ failed THEN job[k].to ELSE skKek[s]]
          /\ wrapped' = [s \in SubjectKeys |->
                           IF s \in live \ failed THEN job[k].to ELSE wrapped[s]]
          /\ failures' = failures \cup
               {[job |-> k, item |-> s, resolved |-> FALSE] : s \in failed}
          /\ job' = [job EXCEPT
               ![k].done = done,
               ![k].cursor = last,
               ![k].state = IF JobFinished(batch, done, job[k].total)
                              THEN "completed" ELSE "running"]
  /\ UNCHANGED <<kekVars, skState, late, envelopes, overrides>>

\* rewrap_retry_failure when the provider answers; when it does not, only the
\* row's attempts and reason change.
RetryKeepingKekId(f) ==
  /\ f \in failures
  /\ ~f.resolved
  /\ LET to == job[f.job].to
         current == IF skKek[f.item] = f.job THEN f.job ELSE to
     IN /\ CanUnwrap(current, wrapped[f.item])
        /\ CanWrap(to)
        /\ wrapped' = [wrapped EXCEPT ![f.item] = to]
  /\ failures' = (failures \ {f}) \cup {[f EXCEPT !.resolved = TRUE]}
  /\ UNCHANGED <<kekVars, skState, skKek, late, envelopes, job, overrides>>

RetryFailure(f) ==
  /\ f \in failures
  /\ ~f.resolved
  /\ LET to == job[f.job].to
         current == IF skKek[f.item] = f.job THEN f.job ELSE to
     IN /\ CanUnwrap(current, wrapped[f.item])
        /\ CanWrap(to)
        /\ wrapped' = [wrapped EXCEPT ![f.item] = to]
        /\ skKek' = [skKek EXCEPT ![f.item] = to]
  /\ failures' = (failures \ {f}) \cup {[f EXCEPT !.resolved = TRUE]}
  /\ UNCHANGED <<kekVars, skState, late, envelopes, job, overrides>>

\* The endpoints set the state without looking at it: a completed job can be
\* paused or set running again.
PauseJob(k) ==
  /\ job[k].state # "none"
  /\ overrides < MaxOverrides
  /\ job' = [job EXCEPT ![k].state = "paused"]
  /\ overrides' = overrides + 1
  /\ UNCHANGED <<kekVars, skVars, envelopes, failures>>

ResumeJob(k) ==
  /\ job[k].state # "none"
  /\ overrides < MaxOverrides
  /\ job' = [job EXCEPT ![k].state = "running"]
  /\ overrides' = overrides + 1
  /\ UNCHANGED <<kekVars, skVars, envelopes, failures>>

-----------------------------------------------------------------------------
KekRequest(k) ==
  \/ CreateKek(k)
  \/ ProviderCreateLost(k)
  \/ ActivateKek(k)
  \/ \E new \in Keks : RotateKek(k, new)
  \/ RevokeKek(k)
  \/ DestroyKek(k)
  \/ DestroyKekCommitLost(k)

SubjectRequest(s) ==
  \/ EncryptNewSubject(s)
  \/ EncryptExistingSubject(s)
  \/ \E state \in SeedStates : SeedSubjectKey(s, state)
  \/ RevokeSubjectKey(s)
  \/ DestroySubjectKey(s)

JobRequest == \/ \E k \in Keks : PauseJob(k) \/ ResumeJob(k)
              \/ \E f \in failures : RetryFailure(f)

\* _rewrap_worker_loop takes any job in state running: its query has no order.
Worker == \E k \in Keks : RewrapStep(k)

Next ==
  \/ \E k \in Keks : KekRequest(k)
  \/ \E s \in SubjectKeys : SubjectRequest(s)
  \/ JobRequest
  \/ Worker

Spec == Init /\ [][Next]_vars

\* The worker thread polls for ever; no operator has to do anything.
FairSpec == Spec /\ WF_vars(Worker)
-----------------------------------------------------------------------------
(* Properties.                                                             *)

\* FR-4.2, models/keys.py: there is never a second active KEK, at any point
\* of a rotation or activation.
AtMostOneActiveKek == \A k, l \in ActiveKeks : k = l

\* No sequence of rotations, partial rewraps, retries and destructions, with
\* provider material removed ahead of the row, ever strands a subject key:
\* while it is not destroyed its kek_id names the KEK its wrapped_key was
\* made with, and the provider still has that KEK.
NoLiveKeyStranded ==
  \A s \in SubjectKeys :
    Live(s) => wrapped[s] = skKek[s] /\ skKek[s] \in material

\* Job k is the first of its chain: no other job moves keys onto KEK k.
FirstOfChain(k) ==
  /\ job[k].state # "none"
  /\ \A j \in Keks : job[j].to # k

OpenFailure(k, s) == [job |-> k, item |-> s, resolved |-> FALSE] \in failures

\* Keys that encrypts overlapping the rotation of k inserted under it.
LateUnder(k) == {s \in SubjectKeys : <<k, s>> \in late}

\* RewrapJob's docstring: a killed and resumed job leaves no gap.  Every live
\* key behind the cursor was moved, or is on record as failed, or was inserted
\* there by an encrypt that had read the KEK before its rotation - unless a
\* second job moved it onto this job's KEK.
NoGapBehindCursor ==
  \A k \in Keks : FirstOfChain(k) =>
    \A s \in Dependents(k) :
      s <= job[k].cursor => OpenFailure(k, s) \/ s \in LateUnder(k)

\* How far "completed" can be wrong: done counts destroyed keys and keys
\* inserted late, and total counts neither, so a job may stop early, but it has
\* no more live keys still before it than it counted destroyed ones and than
\* came late.
MissedKeysBounded ==
  \A k \in Keks : FirstOfChain(k) /\ job[k].state = "completed" =>
    Cardinality({s \in Dependents(k) : s > job[k].cursor})
      <= Cardinality({s \in SubjectKeys : /\ skKek[s] = k
                                         /\ skState[s] = "destroyed"
                                         /\ s <= job[k].cursor})
         + Cardinality(LateUnder(k))

\* RewrapJob's docstring: no duplicate.  However often a job is paused,
\* resumed or restarted, what it counts as done are distinct subject keys, all
\* at or before its cursor.
NoItemCountedTwice ==
  \A k \in Keks :
    job[k].done <= Cardinality({s \in SubjectKeys : /\ skState[s] # "none"
                                                   /\ s <= job[k].cursor})

\* Data becomes unreadable only because a key above it was revoked or
\* destroyed, or because the subject key was rewrapped onto another KEK.
ReadabilityLossHasCause ==
  [][\A s \in SubjectKeys, k \in Keks :
       Decryptable(s, k) /\ ~Decryptable(s, k)' =>
         \/ skState'[s] \in Unusable
         \/ kekState'[k] \in Unusable
         \/ skKek'[s] # k]_vars

\* What encrypt() accepts can be read back at once, unless the KEK the subject
\* key is wrapped under was already revoked: encrypt() does not look.
AcceptedWriteIsReadable ==
  [][\A s \in SubjectKeys, k \in Keks :
       <<s, k>> \in envelopes' \ envelopes =>
         Decryptable(s, k)' \/ kekState[k] = "revoked"]_vars

\* A rotation never leaves the service without an active KEK; revoking the
\* active one does, and it is the only request that does.
ActiveKekLostOnlyByRevocation ==
  [][ActiveKeks # {} /\ ActiveKeks' = {} =>
       \E k \in ActiveKeks : kekState'[k] = "revoked"]_vars

\* Crypto-shredding (section 3): a subject's key can be recovered, from its
\* row and the provider, from its creation to its erasure and never after.
Recoverable(s) == wrapped[s] \in material

Shredding ==
  INSTANCE CryptoShredding WITH
    Subjects <- SubjectKeys,
    recoverable <- {s \in SubjectKeys : Recoverable(s)},
    erased <- {s \in SubjectKeys : skState[s] = "destroyed"}

ImplementsShredding == Shredding!Spec

\* The worker eventually takes every running job out of state running.
RunningJobStops ==
  \A k \in Keks : job[k].state = "running" ~> job[k].state # "running"

\* THREAT_MODEL.md section 3: rewrapping touches only subject keys, "without
\* any window where encrypt/decrypt is unavailable".  While neither the
\* subject key nor the envelope's KEK was revoked or destroyed, an envelope
\* can be decrypted.
EnvelopesStayReadable ==
  \A s \in SubjectKeys, k \in Keks :
    /\ <<s, k>> \in envelopes
    /\ skState[s] \notin Unusable
    /\ kekState[k] \notin Unusable
    => Decryptable(s, k)
=============================================================================
