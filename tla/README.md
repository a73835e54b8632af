# Keyring: TLA+ specifications, model checking and proofs

Keyring is a key management service: a FastAPI server over a SQL database that
encrypts field values and files per *subject*, rotates and destroys keys, and
erases a subject by destroying its key (crypto-shredding).  This directory
holds a formal model of what it does, written from the Python source in
`keyring/`, the configurations that check it with TLC, and theorems about it
whose proofs TLAPS checks.

    tlc -workers 2 -config MCKeyHierarchyChain.cfg MCKeyHierarchy.tla
    tlapm KeyHierarchyProofs.tla

`PROJECT.json` is the machine-readable index: components, runs, the source lines
each definition models, the mutants that show each property can fail, findings,
hazards and theorems.

## The system

| Component | State | Operations |
|---|---|---|
| Lifecycle graphs (`models/enums.py`, `core/lifecycle.py`) | none | `assert_legal`, called before a key changes state |
| Key hierarchy (`core/service.py`, `models/keys.py`, `models/envelope.py`) | rows of `keks`, `subject_keys`, `envelopes`; KEK material at the provider | create, activate, rotate, revoke, destroy a KEK; encrypt, decrypt; revoke and destroy a subject key |
| Rewrap jobs (`core/service.py`, `models/rewrap.py`, `api/rewrap.py`, `main.py`) | rows of `rewrap_jobs`, `rewrap_failures`; one daemon thread | a step per poll, pause, resume, retry of a failed item |
| Audit log (`core/audit.py`) | rows of `audit_log`, hash-chained | `append` inside every request's transaction, `verify_chain` |
| Approvals (`api/approvals.py`) | rows of `approvals` | create, approve; consumed by destroy and erasure |
| Idempotency (`api/idempotency.py`) | rows of `idempotency_records` | look up, run, record the answer |
| Erasure (`api/subjects.py`, `core/certificate.py`) | rows of `erasure_certificates` | erase a subject, sign a certificate |
| Sessions and runtime (`core/runtime.py`, `api/session.py`, `api/settings.py`) | one process-wide provider connection; rows of `sessions` | open, lock, activate a provider |
| KEK store (`core/keystore.py`, `providers/`) | a JSON file of encrypted KEKs | put, get, delete |
| Files and streams (`core/blobstore.py`, `api/files.py`, `api/core_ops.py`) | blobs on disk, rows of `files`, a bounded queue | upload, download, streamed encrypt and decrypt |
| Dashboard, graph, i18n, web console, backup check | none of their own | read-only or independent |

How they interact.  Every request gets a database session of its own
(`db.py`: autoflush off) and runs in a thread of the server's pool, so requests
overlap each other and the rewrap worker.  They share the database and the one
connected provider, and nothing else.  On the default database, SQLite through
Python's driver, a transaction begins with the first INSERT or UPDATE: what is
read before is neither locked nor read again, what is written holds the single
write lock until the commit.  Three kinds of state are outside the database and
its transactions: KEK material at the provider, blobs on disk, and the provider
connection, a module variable.  `/encrypt-stream` and the two downloads are
coroutines on the event loop that hand the blocking work to a pool thread.

What is hard.  Requests that act on rows they read before somebody else's commit
(the worker against an erasure, two appends to the audit log, two requests with
one Idempotency-Key); two commits that should be one (an erasure and the record
of its answer); material that is destroyed or created ahead of a commit that may
be lost; a batch job with a cursor, failures that are passed over, and operators
that pause, resume and retry; chains of rotations with jobs of earlier rotations
still running; a connection and a store file that threads share without a lock;
a root key zeroed while somebody is about to use it; a bounded queue between a
coroutine and a thread, either of which may go away; ciphertext that is checked
when it is opened and read much later.  `PROJECT.json` lists these hazards one
by one, at their lines.

What makes each component correct:

* hierarchy: at most one active KEK; a key that is not destroyed can always be
  unwrapped by somebody; data is lost only when a key is revoked or destroyed;
* rewrap: no gap, no duplicate, every job comes to rest;
* shredding: after an erasure is acknowledged the key cannot be recovered;
* audit: an edit is detected and located, and only an edit is reported;
* destructive requests: two people for that very operation, one execution, one
  true answer, and a certificate exactly for the erasures that happened;
* certificates: never more than was written;
* connection: no root key in memory but the connected provider's, answers that
  are true when given;
* KEK store: the material of every committed KEK, and of no destroyed one;
* streams: what is committed is all of what was sent, what is released is how it
  begins, nothing is left behind, and every stream ends.

## Modules

| Module | Models | Built on |
|---|---|---|
| `KeyLifecycle` | the two transition graphs and the test made before every change of state | |
| `CryptoShredding` | abstract: keys are provisioned once, recoverable until erased, never after | |
| `KeyHierarchy` | KEKs, subject keys, envelopes, rewrap jobs; one action per request | `KeyLifecycle`, refines `CryptoShredding` |
| `KeyTransactions` | encrypt, revoke, erase, the destruction of a KEK and the worker as overlapping transactions on copies of rows | `KeyLifecycle` |
| `AuditChain` | overlapping transactions that append, roll back and edit; `verify_chain` | |
| `DestructiveRequests` | approvals, idempotency, the erasure and destroy handlers with their two commits | |
| `Streaming` | streamed encryption and decryption over both routes: pump and queue, frames, blobs and rows, damage, crashes | |
| `KekMaterial` | abstract: the material of a KEK is created once, held until destroyed, never back | |
| `ProviderConnection` | the process-wide provider connection and the KEK store file under requests that run in threads | refines `KekMaterial` |
| `KeyHierarchyProofs`, `KeyTransactionsProofs`, `AuditChainProofs`, `DestructiveRequestsProofs`, `ProviderConnectionProofs`, `StreamingProofs` | theorems | the modules they are about, `TLAPS` |
| `RewrapJobProofs` | theorems about the rewrap jobs of `KeyHierarchy` | `KeyHierarchyProofs` |
| `MC...` | symmetry sets for TLC | the module they are named after |

Operators such as `RotateWithoutDemotion` or `LastBreak` that no specification
uses are the mutated forms `PROJECT.json` lists.  Each stands just before the
definition it replaces and is that definition with one plausible bug.

### KeyHierarchy

`kekState`, `skState` and `skKek` are columns of the database; `material` is
what the provider holds; `wrapped` says under which KEK a `wrapped_key` blob was
made, which is all AES-GCM lets the program find out about it; `envelopes` is
the set of (subject key, `kek_id`) pairs, because `decrypt` cannot tell two
envelopes apart by anything else.  A rewrap job is named by the KEK it moves
keys from: a KEK is active at most once, so it is rotated away from at most
once.

A request is one atomic step here, as if requests did not overlap, with one
exception.  The first encryption of a subject reads the active KEK and wraps
under it before its INSERT takes the lock (`service.py:323-335`), so a rotation
may commit in between and the key is born under a KEK that is no longer active
and outside the total of its job.  `EncryptNewSubject` therefore inserts under
any KEK that is or was active and has its material.  `activated` and `late` are
history variables for it: the KEKs that have been active, and the keys that came
late.  What a request does to the provider survives a lost commit, so
`ProviderCreateLost` and `DestroyKekCommitLost` are steps of their own.
`rewrap_step` is one step for a whole batch: any subset of its items may fail at
the provider, each failed item leaves a `rewrap_failures` row, and everything in
the batch is counted and passed.  A worker killed before its commit changes
nothing, which is the absence of a step.  `SeedSubjectKey` puts keys in the two
states only `seed.py` produces (`pending`, `deprecated`).

The activation of a KEK by request is modelled although no HTTP route calls
`activate_kek`: the seed script and the tests do.

### KeyTransactions

The same requests on subject keys split at the point where the lock is taken.
`Load` copies the row (and decides whether the request is refused); the write
action applies the columns SQLAlchemy puts into the UPDATE, computed from the
copy, to the row as it is by then (`Flushed` where the copy may already have the
new value).  The worker loads its batch and writes later in the same way.
`Abandon` is any way a request ends without a commit.  One rotation, from `old`
to `new`.

Destroying the old KEK is three steps: `CountForKek` reads its state and counts
its dependents, `ShredKek` takes the material from the provider, which no
rollback brings back, and `WriteKekDestroyed` writes the row.  From `ShredKek`
on nothing can be unwrapped under the old KEK: an encrypt that has inserted a
key under it is rolled back, and items of the worker's batch fail, are counted
and passed.  `late` is a history variable: the keys inserted under the old KEK
after its rotation, by encrypts that had read it as active.

### AuditChain

A digest is modelled by the sequence of contents it covers, so that digests are
equal exactly when everything hashed into them is.  `ReadLast` and `InsertEntry`
are the two halves of `append`; a transaction may call `append` any number of
times and with or without the write lock.  The code calls it without the lock in
`open_session`, `lock_session`, `decrypt`, `decrypt_stream` and
`download_file`, and with it everywhere else.  `EditEntry` is a change made
behind the program's back, like the one `seed.py` makes to demonstrate the
verification; it changes the hashed columns and not the digests.  The `read`
field of a row is a history variable.

### DestructiveRequests

One thread handles one request at a time: `LoadApproval`/`WriteApproval` for
`approve`, and `BeginRequest` (the lookup of the Idempotency-Key), `LoadTarget`
(the checks), `ExecuteErasure` or `ExecuteDestroy` (the handler's commit),
`RecordAnswer` (the commit of `run_idempotent`) for the two operations.
`EndRequest` is a refusal, an exception, a lock timeout or a crash after any of
them.  UPDATEs carry the columns that differ from the copy (`Flushed`).

A target is a subject together with its subject key, since `POST
/subjects/{id}/erasure` and `POST /keys/{id}/destroy` end the same key.  Both
need an approval of their own operation; only the erasure issues a certificate.
`destroyed` says by which operation a target ended, as the audit log does.  An
Idempotency-Key is the scope and the header: the target is not in it, and a
client that uses one header for two targets gets the first one's answer.

### Streaming

A stream is one upload and the envelope it leaves.  `upload` walks through
`encrypt_stream` and the commit after it; `EncryptNext` takes one item from the
queue and encrypts the one before it, since only then it is known whether that
one was the last.  A frame is (stream, index, final, chunk): what its key, nonce
and associated data bind.  The `request` route has a pump on the event loop
(`Put`, `PutBlocks`, `Disconnect`); the `file` route has its body on disk before
the handler starts and so begins with a full queue.  `stored` is the envelope's
ciphertext column or the blob under its final name, `leftover` the temporary
file.  `lock` is SQLite's write lock, taken by the first write of a transaction:
at the start for a new subject, else at the first flush; `loop` is the upload
whose pump blocks the event loop, and every step the loop takes part in needs
`LoopFree`.  Two failure paths differ: `upload_file` cleans up and rolls back at
once, the handler of `/encrypt-stream` first awaits its pump, with the
transaction open (`failing`).

A download is opened (checks, audit entry), committed and then streamed in the
file route, streamed and then committed in the request route.  The latter holds
of a FastAPI that closes dependencies after the body (0.118 and later; the docs
name 0.141).  `pyproject.toml` only asks for 0.115: up to 0.117 the session is
closed before the body is streamed, which the model does not describe.
`LoseKey` is an erasure or a revocation at any time.  `Damage` changes stored
ciphertext after its commit: cut, replaced by a damaged frame or one stored
anywhere, exchanged, added, or, for a blob, gone.  `Crash` ends the process
once.

### ProviderConnection

`connected` and `active` are the two variables of `core/runtime.py`, `instance`
the provider objects with their root keys.  `connect` and `disconnect` are
looked at, zeroed, dropped and set in separate steps (`BeginOpen`,
`BeginDisconnect`, `Drop`, `Connect`), the database commit is one more.  An
entry of the store file is modelled by the root key that sealed it, since only
that opens it.  `put` and `delete` are `Seal`, `Load`, `MakeWritable`,
`Truncate`, `Write`, and the commit of the row after them; the file's length
tells what two writers leave when the shorter text lies over the longer one.  A
rotation keeps the provider object `get_service` gave it, whatever is connected
by then.

Five things the code does not guard against are recorded in `mishaps`: requests
for the connection that overlap (`race`), a KEK sealed with a key that is just
being zeroed (`zeroed`), two requests between load and save of the file
(`overlap`), a crash or a failed write while the file is empty (`torn`), any
other crash.  After `WriteFails`, as on a full disk, the process lives on with
an emptied, writable file.  Each property names the mishaps it does not survive
and holds in all other behaviours; that is how the module says both what the
connection and the store promise and what it takes to break the promise.  What
is lost after a mishap, a KEK overwritten by another save, one sealed with
zeroes or all of them in an emptied file, happens in the model and is not what
these properties catch.

`KekMaterial` is the atomic store `KeyHierarchy` takes for granted.  Its
`Create` and `Destroy` happen when `Truncate` empties the file: from then on the
pending copy of the writer counts.  `spoiled` is an overlap or a torn file.

## Runs

All runs use model values for identities and check deadlock unless noted.

| Run (cfg) | Bounds | Result |
|---|---|---|
| `hierarchy` (`MCKeyHierarchyChain`) | 3 KEKs, 1 subject, batch 1, 2 overrides | 7 properties hold, 681,000 states |
| `rewrap_job` (`MCKeyHierarchyJob`) | 2 KEKs, 3 subjects, batch 2, 1 override, 1 latecomer | 4 properties hold, 433,000 states |
| `transactions` (`MCKeyTransactions`) | 2 requests, the worker, 2 subjects, 2 envelopes each | 5 properties hold, 603,000 states |
| `audit_chain` (`MCAuditChain`) | 3 writers, 3 entries | 5 properties hold, 64,000 states |
| `destructive` (`MCDestructiveRequests`) | 3 admins, 1 target, 2 approvals, 2 requests, 1 header | 4 properties hold, 1,570,000 states |
| `streaming` (`MCStreaming`) | 2 uploads of 0 or 2 chunks, 1 download, queue of 1, 1 damage, 1 crash | 8 properties hold, 593,000 states |
| `provider` (`MCProviderConnection`) | 2 threads, 2 provider objects, 2 providers, 3 KEKs, 1 mishap | 7 properties hold, 726,000 states |
| `readable`, `shredded`, `audit_fork`, `replay`, `truncation` | smaller | a documented claim is refuted |

What they show:

* `hierarchy`.  Three KEKs are the least with which a job can move keys onto a
  KEK that was itself rotated away, revoked and destroyed.  One subject is
  enough, because its properties speak of one subject key at a time and jobs
  meet on a single key.  `AtMostOneActiveKek`, `NoLiveKeyStranded` (a key's
  `kek_id`, its wrapping and the provider's material never come apart),
  `ReadabilityLossHasCause`, `AcceptedWriteIsReadable`,
  `ActiveKekLostOnlyByRevocation`, and the refinement `ImplementsShredding`.
* `rewrap_job`.  Three subject keys, so a batch of two and one of one: the
  cursor can have keys on both sides of it, some moved, some failed, some
  destroyed, within a batch and across batches.  The constraint
  `EnvelopesOfOneKek` stops at a second envelope of a key under another KEK:
  jobs do not look at envelopes, and no step of the worker changes them.
  `OneLatecomer` follows a behaviour up to its second latecomer, and
  `RotationMakesTheNext` lets the second KEK come from the rotation of the
  first, which is the one job there can be. `NoGapBehindCursor`,
  `MissedKeysBounded` (how wrong "completed" can be: destroyed keys count
  towards `done` and not towards `total`, latecomers towards neither until they
  are met), `NoItemCountedTwice`, and the liveness property `RunningJobStops`.
  The first two speak only of KEKs that no other job moves keys onto.  When
  rotations are chained, the job of the earlier one may put keys under a KEK
  whose own job has passed their ids already or is completed; nothing moves them
  from there, short of another rotation of a KEK that is no longer active, which
  is refused.  The keys stay usable (`NoLiveKeyStranded` covers chains), but
  that KEK cannot be destroyed before they are erased.
* `transactions`.  Each hazard is a pair of actors on one row, or on a row and
  the KEK above it; two requests and the worker give every pair, and a third
  actor that commits between the two steps of another.  The second subject gives
  the job a second batch.  `KeysInServiceIntact` says exactly which keys a
  destruction of the old KEK can strand: those of latecomers, whose INSERT falls
  between the count of the dependents and the end of the material.
  `DestroyedUndoneOnlyByOverlap` says that `destroyed` is left only through a
  revocation that had read the row before: the lifecycle graph's word that
  destroyed is terminal holds for everything else.
* `audit_chain`.  Three entries and three writers: a fork, an entry after the
  fork, and a transaction that rolls back in between.  Deadlock is checked:
  every transaction can always roll back.
* `destructive`.  Two approvals, each for the erasure or the destroy of one
  target, and two overlapping requests by three people, with one header that is
  sent again and again in both scopes.  An approval that is approved once more
  after it was consumed is part of it, and so is a destroy beside an erasure.
  Several targets under one header are left to the theorems.
* `streaming`.  Two chunks are the least with a first, a last and an order; an
  empty stream is the boundary of the framing; a queue of one fills and empties
  at once.  Two streams give frames of another stream, and a second upload that
  needs the event loop and the lock the first one holds.
  `CommittedStreamIsWhole`, `ReleasedIsPrefix`, `FinishedDownloadIsWhole`,
  `NoLeftoverWithoutCrash`, `FilesAreReadOnRecord`, and the liveness properties
  `EveryUploadEnds` and `WriteLockComesBack`, which name the only ways an upload
  hangs or the lock stays: a client that sends nothing, a client that left
  before the end marker (the pool thread waits for ever), a pump that blocks the
  event loop because its consumer has failed, and a slow reader of
  `/decrypt-stream`.
* `provider`.  Two threads are enough for every overlap of two requests; two
  provider objects for one that outlives its connection; three KEKs for two
  rotations.  `OneMishap` ends a behaviour after its second mishap, as each
  property speaks of behaviours without the ones it names.

`CHECK_DEADLOCK FALSE` is set for `KeyHierarchy`, `KeyTransactions`, `Streaming`
and `ProviderConnection`: there the system really stops once the bounded
identities, envelopes and streams are used up, every key is destroyed, or the
event loop is blocked.  `MaxOverrides`, `MaxEntries`, `MaxEnvelopes`, `NumKeys`,
`MaxChunks`, `MaxDamage`, `OneMishap`, `OneLatecomer` and the single crash are
the bounds that are not in the code.

Symmetry is used for KEKs, writers, requests, operators and approvals in safety
runs only; subject keys are never symmetric, since the job goes by their ids.
`rewrap_job` and `streaming` have liveness properties and no symmetry.  In
`provider` threads, provider objects and the KEKs to be created are symmetric,
which its refinement property, of the form `Init /\ [][Next]_v`, respects.

### Fairness

`FairSpec` of `KeyHierarchy` asks for weak fairness of the worker and of nothing
else: the thread polls for as long as the server runs, swallows exceptions and
takes some running job each time.  It assumes that the server stays up and that
a provider stays connected (the loop does nothing while it is not).  Nothing is
assumed of operators, of retries, or of which job the worker picks; the query
has no order. `RunningJobStops` says *stops*, not *completes*: an operator may
pause the job.

`FairSpec` of `Streaming` asks for weak fairness of the steps of an upload (the
pool thread runs, the coroutine is resumed when its thread has ended), of a put
that has blocked the loop and can go on, and of the commit before a download.
Nothing is assumed of clients: they may stop sending or reading, or disconnect.

### Findings

Each is a run in which TLC finds a claim of the documentation violated by what
the code does; `PROJECT.json` quotes the lines.

1. `readable`: `decrypt` unwraps with the KEK named by the *envelope*;
   rewrapping changes the KEK of the *subject key*.  Every envelope written
   before the rewrap becomes unreadable (`service.py:380`, `:522`).
2. `shredded`: an erasure that commits while the worker holds the key in its
   batch is undone, and the row keeps a usable wrapped key (`service.py:263`).
3. `audit_fork`: two appends that read the last entry without the lock fork the
   chain, and verification reports a break nobody caused (`audit.py:47`).
4. `replay`: a double-submit runs an erasure twice and issues two certificates
   (`idempotency.py:20`).
5. `truncation`: the ciphertext of a stream with data, cut to nothing, is
   downloaded as an empty file without an error (`service.py:566`).

Three more disagreements are bounded by passing properties instead of being
refuted: destroyed keys count towards `done` and not towards `total`, and a key
inserted by an encrypt that overlapped the rotation is in neither, so a job may
complete with live keys left behind (`service.py:277`, `MissedKeysBounded`); a
KEK is refused destruction "while dependents exist" (`service.py:195`), but the
count is not locked, and a key inserted right after it loses its KEK
(`service.py:199`, `KeysInServiceIntact`); and a revocation that read the row
earlier turns a destroyed key back into a revoked one (`service.py:167`,
`DestroyedUndoneOnlyByOverlap`).

The passing properties beside them say how far the damage goes: a key in service
is always intact unless it came late, a resurrected key is at or behind the
worker's cursor, missed keys are bounded by destroyed ones and latecomers, a
fork never dangles, a second execution still has two people behind it.

## Theorems

TLAPS proves the following for every value of the constants that satisfies the
named assumptions (identities differ from the sentinel values, bounds are
natural numbers, the batch size is positive, seeding produces only `pending` and
`deprecated` keys, there are finitely many KEKs).  Every safety invariant and
every action property the passing runs check is among them, and so are the two
refinements.

`KeyHierarchyProofs`:

* `TypeCorrect`, `SingleActiveKek`, `LiveKeysKeepTheirKek`: `TypeOK`,
  `AtMostOneActiveKek`, `NoLiveKeyStranded` are invariants.
* `LossHasCause`, `AcceptedWritesAreReadable`, `RotationHasNoGap`: the action
  properties of the `hierarchy` run.
* `HierarchyImplementsShredding`: `Spec => ImplementsShredding`, the refinement.

The inductive invariant is `TypeOK /\ SubjectKeyRows /\ DestroyedKekRows /\
AtMostOneActiveKek`.  `NoLiveKeyStranded` is not inductive: a retry unwraps
whatever the row holds, so one needs to know that the row of a destroyed key
holds the tombstone, which no KEK unwraps, and that the row of a key that does
not exist holds nothing; and a job wraps under a KEK without asking for its
state, so one needs to know that a destroyed KEK has no material left.
Destroying a KEK keeps the invariant because the guard counts dependents:
`NoDependents` turns a count of zero into an empty set.  The refinement follows
from one lemma about steps (`SubjectKeySteps`: each subject key is created,
destroyed, or keeps its status) and one about states (`RecoverableIsLive`: a key
can be recovered exactly while it is live).

`RewrapJobProofs`, about the jobs of the same specification:

* `CursorLeavesNoGap`, `CompletedJobsMissFew`, `ItemsAreCountedOnce`:
  `NoGapBehindCursor`, `MissedKeysBounded`, `NoItemCountedTwice` are invariants.

The invariant (`JobInv`, used beside the one above) follows the counters of a
job. `JobsFollowRotations`: only the rotation of a KEK starts its job, so a KEK
that was never rotated has none, and no job moves keys onto its own KEK.
`JobsKeepAccount` holds of a job onto whose KEK no other job moves keys: what it
has counted and the live keys it has still to come to are together no more than
its total, the destroyed keys it has counted and the latecomers.  Rotation
starts it with equality, since the total is the count of the dependents; a batch
moves its keys from the second number to the first, a destruction ahead of the
cursor lowers the second, one behind it raises the counted destroyed keys, and a
key created under a KEK that is no longer active raises the number of latecomers
by as much as it may raise the second.  `MissedKeysBounded` is not inductive
without this account.  What keeps it true is that a latecomer comes only once
(`LatecomersExist`), that a destroyed key stays destroyed, and that a batch
takes the next ids after the cursor without leaving one out (`BatchIsNext`),
which also makes the items it counts new ones.  `LeastElement` says that a batch
is empty only when nothing is left.

`AuditChainProofs`:

* `AuditTypeCorrect`, `LockedAppendsAreLinked`, `ChainNeverDangles`,
  `VerificationPinpoints`: `TypeOK`, `LockedAppendsLink`,
  `PrevIsAnEarlierEntry`, `VerifyPinpoints` are invariants.
* `ReportsNeverHeal`: `Spec => BreakNeverHeals`.

Its inductive invariant adds that the id of a row is its place, although ids of
rolled back rows are used again (`RowsAreNumbered`), that every stored digest
covers its own entry as it was inserted (`DigestsCoverEntries`), that what a
writer has read is the digest of an entry that is still there, and, without the
lock, a committed one (`ReadersAreOnTheLog`), and that the same holds of every
row, committed or not (`EveryRowNamesAnEarlierOne`).  The second is what a
rollback could break: it removes rows others might have read, and cannot,
because they saw committed rows only.

`verify_chain` recomputes a digest from what the row says and compares;
`VerifyPinpoints` speaks of the history instead: an entry is suspect if it was
edited or if its digest does not continue its predecessor's.  `DigestsDiffer`
(digests of different contents differ) and `DigestsCoverEntries` make the two
the same (`BreaksAreSuspects`), so the report is the first suspect.  A report
does not heal because what is suspect stays suspect (`SuspectsStay`).

`KeyTransactionsProofs`:

* `TransactionsTypeCorrect`, `ServiceKeysIntact`, `CertificatesNeverOverclaim`,
  `ResurrectionIsTheRewraps`: `TypeOK`, `KeysInServiceIntact`,
  `CertificateNeverOverclaims`, `ResurrectedOnlyByRewrap` are invariants.
* `DestructionUndoneByOverlap`: `Spec => DestroyedUndoneOnlyByOverlap`.

A request acts on a copy, so the inductive invariant says what is still true of
a copy when it is used (`CopiesWereTrue`): it counts no more records than there
are envelopes, since envelopes are never taken away; a copy of a row that did
not exist is wrapped under the KEK it names; a revocation's copy was not
destroyed; where a copy holds the tombstone, so does the row, or the rewrap has
replaced it.  `CountsNeverOverclaim` says the same of the row itself, and
`BatchIsAhead` that what the worker holds lies beyond the cursor, which is why
the cursor has reached it after the write.  `OnlyLatecomersLeft` carries the
count of dependents over to the moment the material goes: a count of zero is an
empty set, and only an INSERT adds to it, from a copy older than the rotation.
One lemma (`OthersCopiesStayTrue`)
covers what every write does to the copies of other requests.

`DestructiveRequestsProofs`:

* `RequestsTypeCorrect`, `TwoPartyRuleHolds`, `ErasuresAreCertified`,
  `RecordedAnswersAreTrue`: `TypeOK`, `TwoPartyRule`, `ErasureIsCertified`,
  `RecordedAnswerIsTrue` are invariants.

`TwoPartyRule` speaks of the row as it is long after the erasure, so the
inductive invariant follows it through later approvals.  `ApprovalsAreTwoParty`:
an approver is never the requester, and once a row is approved or consumed it
has an approver for good.  `ApproversAreOthers`: a request inside `approve` is
not the requester's, and if its copy had an approver the row has one too, which
is what the columns left out of its UPDATE rely on.  `RequestsAreApproved`: what
a request holds of its approval when it writes names two people, and the row
still names its operation and target.  `DestroysOnApproval` is what erasure and
destroy have in common.  `ExecutedIsTrue` connects the two commits: what
`RecordAnswer` is about to record is true of the target the request has, which
is all a key without a target in it allows one to say.

`ProviderConnectionProofs`:

* `ConnectionTypeCorrect`, `RootOnlyInTheConnection`,
  `ConnectionAnswersAreTrue`, `StoreIsLeftReadOnly`, `DestroyedKeksStayGone`,
  `CommittedKeksStayStored`: `TypeOK`, `RootOnlyWhileConnected`,
  `AnswersAreTrue`, `StoreLeftReadOnly`, `DestroyedKeksAreGone`,
  `CommittedKeksAreStored` are invariants.
* `StoreImplementsKekMaterial`: `Spec => ImplementsKekMaterial`, the refinement.

The invariant says of every thread where its operation can take it
(`RequestsAreInPhase`), and then has one part for the connection and one for the
store.  `ConnectionFollowsRequest`: as long as no two requests for the
connection have overlapped there is one at a time, it finds the connection as it
left it, and the connected object has a live key unless that request is just
dropping it.  For the store, as long as nothing has overlapped or been torn: one
thread at a time holds a copy, the copy is what the file holds or held before it
was emptied, and the file is whole unless that thread is saving
(`OneWriterAtATime`); a KEK that is being made has no row, no entry until its
thread has saved it, and no other thread (`KekRequestsAgreeWithRows`,
`RequestsKnowTheirEntry`); entries and rows of all other KEKs agree
(`EntriesAgreeWithRows`).  Each part names the mishaps it does not survive, as
the properties do.  In the refinement, `Truncate` is the abstract `Create` or
`Destroy`, because `Sealed` looks through an emptied file at the copy of its
saver; `Write` and everything else are stutters; a crash or a failed write while
the file is empty, or a second request between load and save, spoils.
`KeksAssumption` (finitely many KEKs) is needed since the length of the file
counts its entries.

`StreamingProofs`:

* `StreamTypeCorrect`, `CommittedUploadIsWhole`, `ReleasedBytesArePrefix`,
  `EndedDownloadIsWhole`, `NothingIsLeftOver`, `FileBytesAreOnRecord`: `TypeOK`,
  `CommittedStreamIsWhole`, `ReleasedIsPrefix`, `FinishedDownloadIsWhole`,
  `NoLeftoverWithoutCrash`, `FilesAreReadOnRecord` are invariants.

`UploadsInOrder` accounts for every chunk of a body: those encrypted, the one
held back until it is known whether it is the last, those in the queue and those
not yet sent follow one another, with the end marker after the last.  That is
what makes the stored ciphertext `FramesOf` the stream at its commit, whichever
route and however the pump and the thread interleave.  `StoredFramesAreGenuine`
is what damage cannot break: any frame that is stored anywhere and names a
stream was made by its upload, at the place it names.  It must cover uploads
whose row is not committed yet or that fail after their frames were stored,
since the damaged ciphertext of another stream could hold those frames too.
`DownloadsInOrder` then needs no more than the check of each frame: a frame that
opens at place n is the n-th of its stream, so what was released is how the
plaintext begins, and a final frame is its end.  `AbsentAssumption` says that a
blob that is gone is not a sequence of frames.

Only model-checked: the liveness properties `RunningJobStops`,
`EveryUploadEnds` and `WriteLockComesBack` (reasoning about fairness and ENABLED
is out of the prover's reach), and the five refuted claims, which are
counterexamples.

## Not modelled

* Cryptography: AES-GCM is "unwrapping succeeds only with the KEK that wrapped"
  and, for frames, "opens only with the same key, nonce and associated data";
  SHA-256 is injective; HMAC signatures, key derivation, random bytes and the
  nonce guard, a secondary check nothing else depends on, are left out.
* Vault and KMS: clients of remote services that keep no state here; a failing
  call to them is a provider call that fails, which `KeyHierarchy` has.  The
  environment provider differs from the file provider in where its root secret
  comes from, and shares the store file: it is the second provider of
  `ProviderConnection`.
* The settings row that records the last activation: written by
  `activate_provider`, used for no decision.
* KEK requests that overlap each other in the database: `KeyHierarchy` has them
  one at a time (two activations or rotations that race for the index on the
  active KEK are not in it, and the rows of a rotation are one step); the
  destruction of a KEK against requests on subject keys and the worker is in
  `KeyTransactions`, the overlaps of rotations and destructions at the provider
  and the store file in `ProviderConnection`.
* The time at which a session expires (a session is open or not), the role table
  (static), pagination, serializers, dashboard, graph, localisation, the web
  console, migrations, the Shamir backup check: read only, static, or without
  shared state.
* Databases with other isolation than SQLite's: PostgreSQL would allow more
  interleavings of writes than `KeyTransactions` has.

## Plan

Done, in the order of what matters most: `KeyHierarchy` with `KeyLifecycle` and
`CryptoShredding`; `KeyTransactions`; `AuditChain`; `DestructiveRequests`;
`ProviderConnection` with `KekMaterial`; `Streaming`; the proofs above.

What is left.  Four of the five refuted claims have a weaker form that is
proved: `LossHasCause` for `readable`, `ResurrectionIsTheRewraps` for
`shredded`, `LockedAppendsAreLinked` for `audit_fork`, `EndedDownloadIsWhole`
for `truncation`.

1. The same for `replay`: a second execution under one Idempotency-Key needs a
   request that had passed the checks before the first one committed.
2. The safety that the liveness properties rest on, as invariants of `Streaming`
   and theorems: who holds the write lock and the event loop, and who waits for
   whom.
