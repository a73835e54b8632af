--------------------------- MODULE KeyTransactions ---------------------------
(***************************************************************************)
(* Requests on subject keys, and the destruction of a KEK, that overlap    *)
(* each other and the rewrap worker, on the default database (db.py:       *)
(* SQLite, autoflush off).                                                 *)
(*                                                                         *)
(* The driver sends BEGIN only with the first INSERT or UPDATE, so what a  *)
(* request SELECTs before it writes is neither locked nor read again: it   *)
(* works on copies.  Its first write takes SQLite's single write lock,     *)
(* which it holds until it commits; an UPDATE carries the changed columns  *)
(* only whose values differ from the copies.  So a request is two steps:   *)
(* it loads, and, some time later, it writes and commits.  It may also end *)
(* without writing (lock timeout, provider error, crash).                  *)
(*                                                                         *)
(* One KEK, "old", is active at first; Rotate makes "new" active and       *)
(* starts the rewrap job.  Destroying "old" takes its material from the    *)
(* provider at once, in between its reads and its write.                   *)
(***************************************************************************)
EXTENDS KeyLifecycle, Integers, FiniteSets

CONSTANTS
  Requests,     \* threads of the server that run requests
  NumSubjects,  \* number of subjects; a subject key has its subject's number
  BatchSize,    \* rewrap_step's batch_size
  MaxEnvelopes  \* bound on the envelopes written for a subject

ASSUME NumSubjectsAssumption == NumSubjects \in Nat
ASSUME BatchSizeAssumption == BatchSize \in Nat \ {0}
ASSUME MaxEnvelopesAssumption == MaxEnvelopes \in Nat

Subjects == 1 .. NumSubjects

Tombstone == "tombstone"

VARIABLES
  old,        \* the state of the old KEK, and whether the provider holds it
  row,        \* committed rows of subject_keys
  envelopes,  \* number of committed envelopes of each subject
  job,        \* the rewrap job of the rotation from old to new
  request,    \* what each server thread is doing, and the copy it works on
  worker,     \* the rewrap worker and the batch it has loaded
  late        \* history: keys inserted under the old KEK after its rotation

vars == <<old, row, envelopes, job, request, worker, late>>

Kek == {"old", "new"}

\* count is record_count, certified is destroyed_record_count.
Row == [state : KeyState \cup {"none"}, kek : Kek,
        wrapped : Kek \cup {Tombstone}, count : Nat, certified : Nat]

SubjectOperation == {"encrypt", "revoke", "erase"}

\* A destruction of the old KEK has counted no dependents, or has also taken
\* the material away.
KekDestruction == {"counted", "shredded"}

Operation == {"none"} \cup SubjectOperation \cup KekDestruction

Request == [op : Operation, subject : Subjects \cup {0}, copy : Row]

\* sending: the loaded keys that can be unwrapped and were not destroyed.
WorkerState == [pc : {"idle", "loaded"}, batch : SUBSET Subjects,
                sending : SUBSET Subjects]

NoRow(kek) ==
  [state |-> "none", kek |-> kek, wrapped |-> kek, count |-> 0, certified |-> 0]

Idle == [op |-> "none", subject |-> 0, copy |-> NoRow("old")]

WorkerIdle == [pc |-> "idle", batch |-> {}, sending |-> {}]

TypeOK ==
  /\ old \in [state : {"active", "deprecated", "destroyed"}, held : BOOLEAN]
  /\ row \in [Subjects -> Row]
  /\ envelopes \in [Subjects -> 0 .. MaxEnvelopes]
  /\ job \in [state : {"none", "running", "completed"}, total : Nat, done : Nat,
              cursor : 0 .. NumSubjects]
  /\ request \in [Requests -> Request]
  /\ worker \in WorkerState
  /\ late \subseteq Subjects

Init ==
  /\ old = [state |-> "active", held |-> TRUE]
  /\ row = [s \in Subjects |-> NoRow("old")]
  /\ envelopes = [s \in Subjects |-> 0]
  /\ job = [state |-> "none", total |-> 0, done |-> 0, cursor |-> 0]
  /\ request = [r \in Requests |-> Idle]
  /\ worker = WorkerIdle
  /\ late = {}

Active == IF old.state = "active" THEN "old" ELSE "new"

Holds(kek) == kek = "old" => old.held

-----------------------------------------------------------------------------
(* Reads.  The refusals of each request are decided on what it reads.      *)

\* A slip: a revocation is never refused.
AcceptsAnyRevocation(op, state) ==
  CASE op = "encrypt" -> state \notin Unusable
    [] op = "revoke"  -> state # "none"
    [] op = "erase"   -> SubjectKeyMayBecome(state, "destroyed")

Accepts(op, state) ==
  CASE op = "encrypt" -> state \notin Unusable
    [] op = "revoke"  -> SubjectKeyMayBecome(state, "revoked")
    [] op = "erase"   -> SubjectKeyMayBecome(state, "destroyed")

\* encrypt for an unknown subject also reads the active KEK and wraps a new
\* key under it; no row is written yet.  For a known one it unwraps the key.
Load(r, op, s) ==
  /\ request[r].op = "none"
  /\ Accepts(op, row[s].state)
  /\ op = "encrypt" =>
       /\ envelopes[s] < MaxEnvelopes
       /\ row[s].state = "none" \/ Holds(row[s].kek)
  /\ request' = [request EXCEPT ![r] =
       [op |-> op, subject |-> s,
        copy |-> IF row[s].state = "none" THEN NoRow(Active) ELSE row[s]]]
  /\ UNCHANGED <<old, row, envelopes, job, worker, late>>

LiveUnderOldButOne ==
  Cardinality({s \in Subjects : row[s].kek = "old" /\
                 row[s].state \notin {"none", "destroyed"}}) - 1

\* The dependents of the old KEK.
LiveUnderOld ==
  Cardinality({s \in Subjects : row[s].kek = "old" /\
                 row[s].state \notin {"none", "destroyed"}})

CountForKekUnchecked(r) ==
  /\ request[r].op = "none"
  /\ KekMayBecome(old.state, "destroyed")
  /\ request' = [request EXCEPT ![r] = [Idle EXCEPT !.op = "counted"]]
  /\ UNCHANGED <<old, row, envelopes, job, worker, late>>

\* destroy_key for a KEK: its state and its dependents are read.
CountForKek(r) ==
  /\ request[r].op = "none"
  /\ KekMayBecome(old.state, "destroyed")
  /\ LiveUnderOld = 0
  /\ request' = [request EXCEPT ![r] = [Idle EXCEPT !.op = "counted"]]
  /\ UNCHANGED <<old, row, envelopes, job, worker, late>>

\* provider.destroy_kek, before anything is written.
ShredKek(r) ==
  /\ request[r].op = "counted"
  /\ old' = [old EXCEPT !.held = FALSE]
  /\ request' = [request EXCEPT ![r].op = "shredded"]
  /\ UNCHANGED <<row, envelopes, job, worker, late>>

-----------------------------------------------------------------------------
(* Writes.                                                                 *)

Done(r) == request' = [request EXCEPT ![r] = Idle]

\* The INSERT fails on the unique subject_id when another request got there
\* first; that request then ends like Abandon, as it does when the new key
\* cannot be unwrapped: encrypt unwraps it after the INSERT.
InsertSubjectKey(r) ==
  LET s == request[r].subject
  IN /\ request[r].op = "encrypt"
     /\ request[r].copy.state = "none"
     /\ row[s].state = "none"
     /\ Holds(request[r].copy.kek)
     /\ envelopes[s] < MaxEnvelopes
     /\ row' = [row EXCEPT ![s] = [request[r].copy EXCEPT !.state = "active",
                                                          !.count = 1]]
     /\ envelopes' = [envelopes EXCEPT ![s] = @ + 1]
     /\ late' = IF request[r].copy.kek # Active THEN late \cup {s} ELSE late
     /\ Done(r)
     /\ UNCHANGED <<old, job, worker>>

CountAhead(r) ==
  LET s == request[r].subject
  IN /\ request[r].op = "encrypt"
     /\ request[r].copy.state # "none"
     /\ envelopes[s] < MaxEnvelopes
     /\ row' = [row EXCEPT ![s].count = request[r].copy.count + 1]
     /\ Done(r)
     /\ UNCHANGED <<old, envelopes, job, worker, late>>

\* record_count is written as the copy's value plus one.
WriteEnvelope(r) ==
  LET s == request[r].subject
  IN /\ request[r].op = "encrypt"
     /\ request[r].copy.state # "none"
     /\ envelopes[s] < MaxEnvelopes
     /\ row' = [row EXCEPT ![s].count = request[r].copy.count + 1]
     /\ envelopes' = [envelopes EXCEPT ![s] = @ + 1]
     /\ Done(r)
     /\ UNCHANGED <<old, job, worker, late>>

WriteRevoked(r) ==
  /\ request[r].op = "revoke"
  /\ row' = [row EXCEPT ![request[r].subject].state = "revoked"]
  /\ Done(r)
  /\ UNCHANGED <<old, envelopes, job, worker, late>>

\* What a column holds after the flush of a copy in which it was set to new.
Flushed(new, copied, stored) == IF new = copied THEN stored ELSE new

DestroyKeepingKey(r) ==
  LET s == request[r].subject
      copy == request[r].copy
  IN
  /\ request[r].op = "erase"
  /\ row' = [row EXCEPT
       ![s].state = "destroyed",
       ![s].certified = Flushed(copy.count, copy.certified, row[s].certified)]
  /\ Done(r)
  /\ UNCHANGED <<old, envelopes, job, worker, late>>

\* destroy_key and erase_subject; the count that goes into the tombstone and
\* the certificate is the copy's.
WriteDestroyed(r) ==
  LET s == request[r].subject
      copy == request[r].copy
  IN
  /\ request[r].op = "erase"
  /\ row' = [row EXCEPT
       ![s].state = "destroyed",
       ![s].wrapped = Flushed(Tombstone, copy.wrapped, row[s].wrapped),
       ![s].certified = Flushed(copy.count, copy.certified, row[s].certified)]
  /\ Done(r)
  /\ UNCHANGED <<old, envelopes, job, worker, late>>

\* Ended by an exception, a lock timeout or a crash: rolled back.
Abandon(r) ==
  /\ request[r].op # "none"
  /\ Done(r)
  /\ UNCHANGED <<old, row, envelopes, job, worker, late>>

\* The row of the KEK whose material is gone.
WriteKekDestroyed(r) ==
  /\ request[r].op = "shredded"
  /\ old' = [old EXCEPT !.state = "destroyed"]
  /\ Done(r)
  /\ UNCHANGED <<row, envelopes, job, worker, late>>

\* rotate_kek's first write takes the lock, so its total is counted under it.
Rotate ==
  /\ old.state = "active"
  /\ old' = [old EXCEPT !.state = "deprecated"]
  /\ job' = [job EXCEPT !.state = "running", !.total = LiveUnderOld]
  /\ UNCHANGED <<row, envelopes, request, worker, late>>

-----------------------------------------------------------------------------
(* The worker: rewrap_step loads the job and a batch, then writes.         *)

WorkerLoad ==
  /\ worker.pc = "idle"
  /\ job.state = "running"
  /\ LET due == {s \in Subjects : /\ row[s].state # "none"
                                  /\ row[s].kek = "old"
                                  /\ s > job.cursor}
         batch == {s \in due : Cardinality({t \in due : t < s}) < BatchSize}
     IN worker' = [pc |-> "loaded", batch |-> batch,
                   sending |-> {s \in batch : /\ row[s].state # "destroyed"
                                              /\ row[s].wrapped # Tombstone
                                              /\ old.held}]
  /\ UNCHANGED <<old, row, envelopes, job, request, late>>

RewrapKeyOnly(s) == [row[s] EXCEPT !.wrapped = "new"]

\* The UPDATE of one item sets wrapped_key and kek_id, whatever the row holds
\* by now.
RewrapRow(s) == [row[s] EXCEPT !.wrapped = "new", !.kek = "new"]

\* Keys that could not be unwrapped are counted and passed like the others;
\* when the material goes while the batch is under way, some still could.
WorkerWrite ==
  /\ worker.pc = "loaded"
  /\ \E moved \in SUBSET worker.sending :
       /\ old.held => moved = worker.sending
       /\ row' = [s \in Subjects |-> IF s \in moved THEN RewrapRow(s) ELSE row[s]]
  /\ \E last \in 0 .. NumSubjects :
       /\ IF worker.batch = {} THEN last = job.cursor
                               ELSE last \in worker.batch /\ \A s \in worker.batch : s <= last
       /\ LET done == job.done + Cardinality(worker.batch)
          IN job' = [job EXCEPT !.done = done, !.cursor = last,
                       !.state = IF worker.batch = {} \/ done >= job.total
                                   THEN "completed" ELSE "running"]
  /\ worker' = WorkerIdle
  /\ UNCHANGED <<old, envelopes, request, late>>

\* The loop swallows the exception and starts over from the committed cursor.
WorkerAbandon ==
  /\ worker.pc = "loaded"
  /\ worker' = WorkerIdle
  /\ UNCHANGED <<old, row, envelopes, job, request, late>>

-----------------------------------------------------------------------------
Next ==
  \/ \E r \in Requests :
       \/ \E op \in SubjectOperation, s \in Subjects : Load(r, op, s)
       \/ InsertSubjectKey(r)
       \/ WriteEnvelope(r)
       \/ WriteRevoked(r)
       \/ WriteDestroyed(r)
       \/ CountForKek(r)
       \/ ShredKek(r)
       \/ WriteKekDestroyed(r)
       \/ Abandon(r)
  \/ Rotate
  \/ WorkerLoad
  \/ WorkerWrite
  \/ WorkerAbandon

Spec == Init /\ [][Next]_vars

-----------------------------------------------------------------------------
(* Properties.                                                             *)

\* FR-5.4 and FR-4.4: whatever overlaps with the worker or with the
\* destruction of the KEK, a key in service is wrapped under the KEK its row
\* names, and the provider still has that KEK, unless the key was inserted
\* after the rotation by an encrypt that had read the old KEK as active.
KeysInServiceIntact ==
  \A s \in Subjects :
    row[s].state = "active" =>
      /\ row[s].wrapped = row[s].kek
      /\ Holds(row[s].kek) \/ s \in late

\* Increments of record_count can get lost, but a tombstone and a certificate
\* never claim more unreadable records than were ever written.
CertificateNeverOverclaims ==
  \A s \in Subjects : row[s].certified <= envelopes[s]

\* A destroyed key whose wrapped_key is back was put there by the rewrap: it is
\* wrapped under the new KEK, and at or behind the cursor of the job.
ResurrectedOnlyByRewrap ==
  \A s \in Subjects :
    row[s].state = "destroyed" /\ row[s].wrapped # Tombstone =>
      row[s].kek = "new" /\ row[s].wrapped = "new" /\ s <= job.cursor

\* models/keys.py, the destruction tombstone: "The wrapped key row is
\* overwritten"; THREAT_MODEL.md: "permanently unreadable".
DestroyedKeysStayShredded ==
  \A s \in Subjects : row[s].state = "destroyed" => row[s].wrapped = Tombstone

\* A key leaves the destroyed state only for "revoked", through a revocation
\* that loaded the row before the destruction; every request that loads it
\* later is refused, and the worker never touches the state.
DestroyedUndoneOnlyByOverlap ==
  [][\A s \in Subjects :
       row[s].state = "destroyed" /\ row'[s].state # "destroyed" =>
         /\ row'[s].state = "revoked"
         /\ \E r \in Requests : /\ request[r].op = "revoke"
                                /\ request[r].subject = s
                                /\ request[r].copy.state \notin {"none", "destroyed"}]_vars
=============================================================================
