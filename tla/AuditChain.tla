----------------------------- MODULE AuditChain -----------------------------
(***************************************************************************)
(* The hash-chained audit log (core/audit.py): what transactions that      *)
(* overlap append to it, and what verify_chain finds.                      *)
(*                                                                         *)
(* append reads the last row, inserts a row that names its digest, and     *)
(* computes the new row's digest; it does not commit.  Most requests have  *)
(* flushed an INSERT or UPDATE of their own by then and so hold SQLite's   *)
(* write lock.  Those that open or lock a session, decrypt, or download a  *)
(* file have not (autoflush is off), and read the last row unlocked: their *)
(* INSERT takes the lock.  SQLite shows a row to others once committed.    *)
(*                                                                         *)
(* A digest is modelled by the contents it covers, so that two digests are *)
(* equal exactly when everything that was hashed into them is (SHA-256     *)
(* without collisions).                                                    *)
(***************************************************************************)
EXTENDS Integers, Sequences

CONSTANTS
  Writers,    \* threads that run transactions
  NoWriter,   \* nobody holds the write lock
  MaxEntries  \* bound on the entries of the log

ASSUME NoWriterAssumption == NoWriter \notin Writers
ASSUME MaxEntriesAssumption == MaxEntries \in Nat

VARIABLES
  rows,       \* rows of audit_log, those of the open transaction last
  committed,  \* how many of them are committed
  lock,       \* who holds SQLite's write lock
  appending,  \* writers inside append: last row read, own row not inserted
  seen        \* the prev_digest such a writer has read (genesis for the others)

vars == <<rows, committed, lock, appending, seen>>

\* The hashed columns: the rowid, the actor standing for the others, and
\* whether somebody has rewritten them since.
Content == Nat \X Writers \X BOOLEAN

Digest == Seq(Content)

GenesisDigest == << >>

\* read is no column: it records whether the writer held the lock when it read
\* the last row.
AuditLog == [id : Nat, actor : Writers, edited : BOOLEAN,
             prev_digest : Digest, digest : Digest,
             read : {"locked", "unlocked"}]

TypeOK ==
  /\ rows \in Seq(AuditLog)
  /\ committed \in 0 .. Len(rows)
  /\ lock \in Writers \cup {NoWriter}
  /\ appending \subseteq Writers
  /\ seen \in [Writers -> Digest]
  /\ lock = NoWriter => committed = Len(rows)

Init ==
  /\ rows = << >>
  /\ committed = 0
  /\ lock = NoWriter
  /\ appending = {}
  /\ seen = [w \in Writers |-> GenesisDigest]

-----------------------------------------------------------------------------
ComputeDigest(id, actor, edited, prev_digest) ==
  Append(prev_digest, <<id, actor, edited>>)

\* The stored digest of entry i, and GENESIS_DIGEST before the first.
DigestOf(i) == IF i = 0 THEN GenesisDigest ELSE rows[i].digest

\* The last entry a writer's SELECT returns: its own uncommitted one included.
LastCommitted(w) == committed
LastOfAnyone(w) == Len(rows)
LastVisible(w) == IF lock = w THEN Len(rows) ELSE committed

\* A transaction flushes rows of its own before it calls append.
TakeWriteLock(w) ==
  /\ lock = NoWriter
  /\ w \notin appending
  /\ lock' = w
  /\ UNCHANGED <<rows, committed, appending, seen>>

\* append's SELECT of the last row.
ReadLast(w) ==
  /\ w \notin appending
  /\ appending' = appending \cup {w}
  /\ seen' = [seen EXCEPT ![w] = DigestOf(LastVisible(w))]
  /\ UNCHANGED <<rows, committed, lock>>

\* append's two flushes: the INSERT assigns the id, the UPDATE the digest.
InsertEntry(w) ==
  /\ w \in appending
  /\ lock \in {w, NoWriter}
  /\ Len(rows) < MaxEntries
  /\ rows' = Append(rows,
                    [id |-> Len(rows) + 1, actor |-> w, edited |-> FALSE,
                     prev_digest |-> seen[w],
                     digest |-> ComputeDigest(Len(rows) + 1, w, FALSE, seen[w]),
                     read |-> IF lock = w THEN "locked" ELSE "unlocked"])
  /\ lock' = w
  /\ appending' = appending \ {w}
  /\ seen' = [seen EXCEPT ![w] = GenesisDigest]
  /\ UNCHANGED committed

Commit(w) ==
  /\ lock = w
  /\ w \notin appending
  /\ committed' = Len(rows)
  /\ lock' = NoWriter
  /\ UNCHANGED <<rows, appending, seen>>

\* The request raises, waits too long for the lock, or dies: get_db closes the
\* session, which rolls back whatever the transaction had written.
RollbackKeepingRows(w) ==
  /\ lock = w \/ w \in appending
  /\ lock' = IF lock = w THEN NoWriter ELSE lock
  /\ appending' = appending \ {w}
  /\ seen' = [seen EXCEPT ![w] = GenesisDigest]
  /\ UNCHANGED <<rows, committed>>

Rollback(w) ==
  /\ lock = w \/ w \in appending
  /\ rows' = IF lock = w THEN SubSeq(rows, 1, committed) ELSE rows
  /\ lock' = IF lock = w THEN NoWriter ELSE lock
  /\ appending' = appending \ {w}
  /\ seen' = [seen EXCEPT ![w] = GenesisDigest]
  /\ UNCHANGED committed

\* Somebody edits a committed row in the database, as seed.py does to leave a
\* broken entry behind; the digest columns stay as they are.
EditEntry(i) ==
  /\ lock = NoWriter
  /\ ~rows[i].edited
  /\ rows' = [rows EXCEPT ![i].edited = TRUE]
  /\ UNCHANGED <<committed, lock, appending, seen>>

Transaction(w) ==
  \/ TakeWriteLock(w)
  \/ ReadLast(w)
  \/ InsertEntry(w)
  \/ Commit(w)
  \/ Rollback(w)

Next ==
  \/ \E w \in Writers : Transaction(w)
  \/ \E i \in 1 .. committed : EditEntry(i)

Spec == Init /\ [][Next]_vars

-----------------------------------------------------------------------------
(* verify_chain: the walk carries the stored digest of the entry before.   *)

LinkBroken(i) == rows[i].prev_digest # DigestOf(i - 1)

DigestBroken(i) ==
  rows[i].digest # ComputeDigest(rows[i].id, rows[i].actor, rows[i].edited,
                                 DigestOf(i - 1))

Breaks == {i \in 1 .. committed : LinkBroken(i) \/ DigestBroken(i)}

\* The entry of the ChainBreak returned, 0 for an intact chain.
LastBreak ==
  IF Breaks = {} THEN 0 ELSE CHOOSE i \in Breaks : \A j \in Breaks : j <= i

LinksOnly ==
  IF \E i \in 1 .. committed : LinkBroken(i)
    THEN CHOOSE i \in 1 .. committed :
           LinkBroken(i) /\ \A j \in 1 .. (i - 1) : ~LinkBroken(j)
    ELSE 0

VerifyChain ==
  IF Breaks = {} THEN 0 ELSE CHOOSE i \in Breaks : \A j \in Breaks : i <= j

-----------------------------------------------------------------------------
(* Properties.                                                             *)

\* An entry appended under the write lock names the digest of the entry just
\* before it, whatever the other transactions appended or rolled back.
LockedAppendsLink ==
  \A i \in 1 .. Len(rows) :
    rows[i].read = "locked" => rows[i].prev_digest = DigestOf(i - 1)

\* The chain may fork but never dangles: what a committed entry names is the
\* genesis digest or a committed entry's, not one that was rolled back.
PrevIsAnEarlierEntry ==
  \A i \in 1 .. committed :
    \E j \in 0 .. (i - 1) : rows[i].prev_digest = DigestOf(j)

\* verify_chain pinpoints: the entry it reports is the first one that was
\* edited or that does not follow its predecessor, and it reports one if there
\* is one.
VerifyPinpoints ==
  LET suspect(i) ==
        \/ rows[i].edited
        \/ \A w \in Writers :
             rows[i].digest # Append(DigestOf(i - 1), <<i, w, FALSE>>)
  IN
  IF VerifyChain = 0
    THEN \A i \in 1 .. committed : ~suspect(i)
    ELSE /\ suspect(VerifyChain)
         /\ \A i \in 1 .. (VerifyChain - 1) : ~suspect(i)

\* A break once reported is never covered up: later entries that look valid,
\* and later edits, leave the report where it is or move it to an earlier one.
BreakNeverHeals ==
  [][VerifyChain # 0 => VerifyChain' \in 1 .. VerifyChain]_vars

\* A log nobody edited verifies: test_audit.py's fresh chain, and the reading
\* of a break as tampering.  Two unlocked reads of the same last row fork it.
UneditedChainVerifies ==
  (\A i \in 1 .. committed : ~rows[i].edited) => VerifyChain = 0

=============================================================================
