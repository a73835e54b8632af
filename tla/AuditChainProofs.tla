-------------------------- MODULE AuditChainProofs --------------------------
(***************************************************************************)
(* Safety of AuditChain for any number of writers and any length of log.   *)
(***************************************************************************)
EXTENDS AuditChain, SequenceTheorems, WellFoundedInduction, TLAPS

\* The rowids are the places in the chain: a rolled back rowid is used again.
RowsAreNumbered == \A i \in 1 .. Len(rows) : rows[i].id = i

\* Every stored digest covers the entry as it was inserted, at its place.
DigestsCoverEntries ==
  \A i \in 1 .. Len(rows) :
    rows[i].digest = ComputeDigest(i, rows[i].actor, FALSE, rows[i].prev_digest)

\* A writer inside append has read the end of the log if it holds the lock,
\* and some committed entry otherwise.
ReadersAreOnTheLog ==
  \A w \in appending :
    IF lock = w
      THEN seen[w] = DigestOf(Len(rows))
      ELSE \E j \in 0 .. committed : seen[w] = DigestOf(j)

\* PrevIsAnEarlierEntry, for the rows of the open transaction too.
EveryRowNamesAnEarlierOne ==
  \A i \in 1 .. Len(rows) :
    \E j \in 0 .. (i - 1) : rows[i].prev_digest = DigestOf(j)

IInv ==
  /\ TypeOK
  /\ RowsAreNumbered
  /\ DigestsCoverEntries
  /\ ReadersAreOnTheLog
  /\ EveryRowNamesAnEarlierOne
  /\ LockedAppendsLink

(***************************************************************************)
(* Type correctness.                                                       *)
(***************************************************************************)

\* The digest of an entry, or of none, is a digest.
LEMMA DigestOfType ==
  ASSUME TypeOK, NEW i \in 0 .. Len(rows)
  PROVE  DigestOf(i) \in Digest
<1>1. CASE i = 0
  BY <1>1 DEF DigestOf, GenesisDigest, Digest
<1>2. CASE i # 0
  <2>1. rows[i] \in AuditLog
    BY <1>2 DEF TypeOK
  <2>2. QED
    BY <1>2, <2>1 DEF DigestOf, AuditLog
<1>3. QED
  BY <1>1, <1>2

\* The last entry visible to a writer is an entry of the log.
LEMMA LastVisibleType ==
  ASSUME TypeOK, NEW w \in Writers
  PROVE  LastVisible(w) \in 0 .. Len(rows)
BY DEF TypeOK, LastVisible

\* The columns of a row, taken together, are a row.
LEMMA RowType ==
  ASSUME NEW id \in Nat, NEW actor \in Writers, NEW edited \in BOOLEAN,
         NEW p \in Digest, NEW read \in {"locked", "unlocked"}
  PROVE  [id |-> id, actor |-> actor, edited |-> edited, prev_digest |-> p,
          digest |-> ComputeDigest(id, actor, edited, p),
          read |-> read] \in AuditLog
<1>1. <<id, actor, edited>> \in Content
  BY DEF Content
<1>2. ComputeDigest(id, actor, edited, p) \in Digest
  BY <1>1 DEF ComputeDigest, Digest
<1>3. QED
  BY <1>2 DEF AuditLog

LEMMA InitTypeOK == Init => TypeOK
BY DEF Init, TypeOK, GenesisDigest, Digest

LEMMA NextTypeOK == TypeOK /\ [Next]_vars => TypeOK'
<1> SUFFICES ASSUME TypeOK, [Next]_vars PROVE TypeOK'
  OBVIOUS
<1>1. ASSUME NEW w \in Writers, TakeWriteLock(w) PROVE TypeOK'
  BY <1>1 DEF TypeOK, TakeWriteLock
<1>2. ASSUME NEW w \in Writers, ReadLast(w) PROVE TypeOK'
  <2>1. DigestOf(LastVisible(w)) \in Digest
    BY DigestOfType, LastVisibleType
  <2>2. QED
    BY <1>2, <2>1 DEF TypeOK, ReadLast
<1>3. ASSUME NEW w \in Writers, InsertEntry(w) PROVE TypeOK'
  <2> DEFINE row == [id |-> Len(rows) + 1, actor |-> w, edited |-> FALSE,
                     prev_digest |-> seen[w],
                     digest |-> ComputeDigest(Len(rows) + 1, w, FALSE, seen[w]),
                     read |-> IF lock = w THEN "locked" ELSE "unlocked"]
  <2>1. Len(rows) \in Nat /\ seen[w] \in Digest
    BY DEF TypeOK
  <2>2. /\ Len(rows) + 1 \in Nat
        /\ FALSE \in BOOLEAN
        /\ (IF lock = w THEN "locked" ELSE "unlocked") \in {"locked", "unlocked"}
    BY <2>1
  <2>3. row \in AuditLog
    BY <2>1, <2>2, RowType, Zenon
  <2>4. rows' = Append(rows, row)
    BY <1>3 DEF InsertEntry
  <2>5. rows' \in Seq(AuditLog) /\ Len(rows') = Len(rows) + 1
    BY <2>3, <2>4 DEF TypeOK
  <2>6. seen' \in [Writers -> Digest]
    BY <1>3 DEF InsertEntry, TypeOK, GenesisDigest, Digest
  <2>7. QED
    BY <1>3, <2>5, <2>6, NoWriterAssumption DEF TypeOK, InsertEntry
<1>4. ASSUME NEW w \in Writers, Commit(w) PROVE TypeOK'
  BY <1>4 DEF TypeOK, Commit
<1>5. ASSUME NEW w \in Writers, Rollback(w) PROVE TypeOK'
  <2>1. seen' \in [Writers -> Digest]
    BY <1>5 DEF Rollback, TypeOK, GenesisDigest, Digest
  <2>2. CASE lock = w
    <3>1. rows' = SubSeq(rows, 1, committed) /\ lock' = NoWriter
          /\ committed' = committed /\ appending' = appending \ {w}
      BY <1>5, <2>2 DEF Rollback
    <3>2. rows' \in Seq(AuditLog) /\ Len(rows') = committed
      BY <3>1 DEF TypeOK
    <3>3. QED
      BY <2>1, <3>1, <3>2 DEF TypeOK
  <2>3. CASE lock # w
    BY <1>5, <2>1, <2>3 DEF Rollback, TypeOK
  <2>4. QED
    BY <2>2, <2>3
<1>6. ASSUME NEW i \in 1 .. committed, EditEntry(i) PROVE TypeOK'
  <2>1. rows[i] \in AuditLog
    BY DEF TypeOK
  <2>2. [rows[i] EXCEPT !.edited = TRUE] \in AuditLog
    BY <2>1 DEF AuditLog
  <2>3. rows' \in Seq(AuditLog) /\ Len(rows') = Len(rows)
    BY <1>6, <2>2 DEF EditEntry, TypeOK
  <2>4. QED
    BY <1>6, <2>3 DEF EditEntry, TypeOK
<1>7. CASE UNCHANGED vars
  BY <1>7 DEF TypeOK, vars
<1>8. QED
  BY <1>1, <1>2, <1>3, <1>4, <1>5, <1>6, <1>7 DEF Next, Transaction

\* Every reachable state of the log and of its writers is well typed.
THEOREM AuditTypeCorrect == Spec => []TypeOK
<1>1. QED
  BY InitTypeOK, NextTypeOK, PTL DEF Spec

(***************************************************************************)
(* What a step does to the rows: it appends one, or leaves a prefix of     *)
(* them alone but for their edited columns.                                *)
(***************************************************************************)

\* No step changes the id, the digests, the actor or the ghost of a row it keeps,
\* and an edit is not taken back.
LEMMA RowsKept ==
  ASSUME TypeOK, [Next]_vars,
         NEW i \in 1 .. Len(rows), i \in 1 .. Len(rows')
  PROVE  /\ rows'[i].id = rows[i].id
         /\ rows[i].edited => rows'[i].edited
         /\ rows'[i].actor = rows[i].actor
         /\ rows'[i].read = rows[i].read
         /\ rows'[i].prev_digest = rows[i].prev_digest
         /\ rows'[i].digest = rows[i].digest
<1> USE DEF TypeOK
<1>1. CASE rows' = rows
  BY <1>1
<1>2. ASSUME NEW w \in Writers, InsertEntry(w) PROVE rows'[i] = rows[i]
  BY <1>2 DEF InsertEntry
<1>3. ASSUME NEW w \in Writers, Rollback(w) PROVE rows'[i] = rows[i]
  <2>1. CASE lock = w
    <3>1. rows' = SubSeq(rows, 1, committed)
      BY <1>3, <2>1 DEF Rollback
    <3>2. QED
      BY <3>1
  <2>2. CASE lock # w
    BY <1>3, <2>2 DEF Rollback
  <2>3. QED
    BY <2>1, <2>2
<1>4. ASSUME NEW n \in 1 .. committed, EditEntry(n)
      PROVE  /\ rows'[i].id = rows[i].id
             /\ rows[i].edited => rows'[i].edited
             /\ rows'[i].actor = rows[i].actor
             /\ rows'[i].read = rows[i].read
             /\ rows'[i].prev_digest = rows[i].prev_digest
             /\ rows'[i].digest = rows[i].digest
  <2>1. rows' = [rows EXCEPT ![n] = [rows[n] EXCEPT !.edited = TRUE]]
    BY <1>4 DEF EditEntry
  <2>2. rows'[i] = IF i = n THEN [rows[n] EXCEPT !.edited = TRUE] ELSE rows[i]
    BY <2>1
  <2>3. rows[i] \in AuditLog
    OBVIOUS
  <2>4. QED
    BY <2>2, <2>3 DEF AuditLog
<1>5. QED
  BY <1>1, <1>2, <1>3, <1>4
     DEF Next, Transaction, TakeWriteLock, ReadLast, Commit, vars

\* So an entry both logs have has the same digest in both.
LEMMA DigestKept ==
  ASSUME TypeOK, [Next]_vars, NEW i \in 0 .. Len(rows), i \in 0 .. Len(rows')
  PROVE  DigestOf(i)' = DigestOf(i)
<1>1. Len(rows) \in Nat /\ Len(rows') \in Nat
  BY NextTypeOK DEF TypeOK
<1>2. CASE i = 0
  BY <1>2 DEF DigestOf
<1>3. CASE i # 0
  BY <1>1, <1>3, RowsKept DEF DigestOf
<1>4. QED
  BY <1>2, <1>3

\* A row the log did not have is the one InsertEntry puts at its end.
LEMMA NewRow ==
  ASSUME TypeOK, [Next]_vars,
         NEW i \in 1 .. Len(rows'), i \notin 1 .. Len(rows)
  PROVE  /\ i = Len(rows) + 1
         /\ \E w \in Writers :
              /\ InsertEntry(w)
              /\ rows'[i].id = i
              /\ rows'[i].actor = w
              /\ rows'[i].read = IF lock = w THEN "locked" ELSE "unlocked"
              /\ rows'[i].prev_digest = seen[w]
              /\ rows'[i].digest = ComputeDigest(i, w, FALSE, seen[w])
<1> USE DEF TypeOK
<1>1. CASE \E w \in Writers : InsertEntry(w)
  <2>1. PICK w \in Writers : InsertEntry(w)
    BY <1>1
  <2>2. rows' = Append(rows,
                  [id |-> Len(rows) + 1, actor |-> w, edited |-> FALSE,
                   prev_digest |-> seen[w],
                   digest |-> ComputeDigest(Len(rows) + 1, w, FALSE, seen[w]),
                   read |-> IF lock = w THEN "locked" ELSE "unlocked"])
    BY <2>1 DEF InsertEntry
  <2>3. i = Len(rows) + 1
    BY <2>2
  <2>4. rows'[i] = [id |-> Len(rows) + 1, actor |-> w, edited |-> FALSE,
                    prev_digest |-> seen[w],
                    digest |-> ComputeDigest(Len(rows) + 1, w, FALSE, seen[w]),
                    read |-> IF lock = w THEN "locked" ELSE "unlocked"]
    BY <2>2, <2>3
  <2>5. /\ rows'[i].id = i
        /\ rows'[i].actor = w
        /\ rows'[i].prev_digest = seen[w]
        /\ rows'[i].digest = ComputeDigest(i, w, FALSE, seen[w])
    BY <2>3, <2>4
  <2>6. rows'[i].read = IF lock = w THEN "locked" ELSE "unlocked"
    BY <2>4
  <2>7. QED
    BY <2>1, <2>3, <2>5, <2>6, Zenon
<1>2. CASE ~ \E w \in Writers : InsertEntry(w)
  <2>1. ASSUME NEW w \in Writers, Rollback(w) PROVE Len(rows') \in 0 .. Len(rows)
    BY <2>1 DEF Rollback
  <2>2. ASSUME NEW n \in 1 .. committed, EditEntry(n) PROVE Len(rows') = Len(rows)
    BY <2>2 DEF EditEntry
  <2>3. Len(rows') \in 0 .. Len(rows)
    BY <1>2, <2>1, <2>2
       DEF Next, Transaction, TakeWriteLock, ReadLast, Commit, vars
  <2>4. QED
    BY <2>3
<1>3. QED
  BY <1>1, <1>2

(***************************************************************************)
(* The inductive invariant.                                                *)
(***************************************************************************)

LEMMA InitIInv == Init => IInv
BY InitTypeOK DEF Init, IInv, RowsAreNumbered, DigestsCoverEntries, ReadersAreOnTheLog,
                  EveryRowNamesAnEarlierOne, LockedAppendsLink

LEMMA NextRowsAreNumbered == TypeOK /\ RowsAreNumbered /\ [Next]_vars => RowsAreNumbered'
<1> SUFFICES ASSUME TypeOK, RowsAreNumbered, [Next]_vars, NEW i \in 1 .. Len(rows')
             PROVE  rows'[i].id = i
  BY Zenon DEF RowsAreNumbered
<1>1. CASE i \in 1 .. Len(rows)
  BY <1>1, RowsKept DEF RowsAreNumbered
<1>2. CASE i \notin 1 .. Len(rows)
  BY <1>2, NewRow, Zenon
<1>3. QED
  BY <1>1, <1>2

LEMMA NextDigestsCoverEntries ==
  TypeOK /\ DigestsCoverEntries /\ [Next]_vars => DigestsCoverEntries'
<1> SUFFICES ASSUME TypeOK, DigestsCoverEntries, [Next]_vars,
                    NEW i \in 1 .. Len(rows')
             PROVE  rows'[i].digest
                      = ComputeDigest(i, rows'[i].actor, FALSE, rows'[i].prev_digest)
  BY Zenon DEF DigestsCoverEntries, ComputeDigest
<1>1. CASE i \in 1 .. Len(rows)
  BY <1>1, RowsKept DEF DigestsCoverEntries
<1>2. CASE i \notin 1 .. Len(rows)
  <2>1. PICK w \in Writers :
          /\ rows'[i].actor = w
          /\ rows'[i].prev_digest = seen[w]
          /\ rows'[i].digest = ComputeDigest(i, w, FALSE, seen[w])
    BY <1>2, NewRow, Zenon
  <2>2. QED
    BY <2>1, Zenon
<1>3. QED
  BY <1>1, <1>2

LEMMA NextLockedAppendsLink ==
  TypeOK /\ ReadersAreOnTheLog /\ LockedAppendsLink /\ [Next]_vars
    => LockedAppendsLink'
<1> SUFFICES ASSUME TypeOK, ReadersAreOnTheLog, LockedAppendsLink, [Next]_vars,
                    NEW i \in 1 .. Len(rows'), rows'[i].read = "locked"
             PROVE  rows'[i].prev_digest = DigestOf(i - 1)'
  BY DEF LockedAppendsLink
<1>1. Len(rows) \in Nat /\ Len(rows') \in Nat
  BY NextTypeOK DEF TypeOK
<1>2. CASE i \in 1 .. Len(rows)
  <2>1. rows[i].read = "locked" /\ rows'[i].prev_digest = rows[i].prev_digest
    BY <1>2, RowsKept
  <2>2. rows[i].prev_digest = DigestOf(i - 1)
    BY <1>2, <2>1 DEF LockedAppendsLink
  <2>3. DigestOf(i - 1)' = DigestOf(i - 1)
    BY <1>1, <1>2, DigestKept
  <2>4. QED
    BY <2>1, <2>2, <2>3
<1>3. CASE i \notin 1 .. Len(rows)
  <2>1. PICK w \in Writers :
          /\ i = Len(rows) + 1
          /\ InsertEntry(w)
          /\ rows'[i].read = IF lock = w THEN "locked" ELSE "unlocked"
          /\ rows'[i].prev_digest = seen[w]
    BY <1>3, NewRow, Zenon
  <2>2. w \in appending /\ lock = w
    BY <2>1, Zenon DEF InsertEntry
  <2>3. seen[w] = DigestOf(Len(rows))
    BY <2>2 DEF ReadersAreOnTheLog
  <2>4. DigestOf(i - 1)' = DigestOf(Len(rows))
    BY <1>1, <2>1, DigestKept
  <2>5. QED
    BY <2>1, <2>3, <2>4
<1>4. QED
  BY <1>2, <1>3

LEMMA NextEveryRowNamesAnEarlierOne ==
  TypeOK /\ ReadersAreOnTheLog /\ EveryRowNamesAnEarlierOne /\ [Next]_vars
    => EveryRowNamesAnEarlierOne'
<1> SUFFICES ASSUME TypeOK, ReadersAreOnTheLog, EveryRowNamesAnEarlierOne,
                    [Next]_vars, NEW i \in 1 .. Len(rows')
             PROVE  \E j \in 0 .. (i - 1) : rows'[i].prev_digest = DigestOf(j)'
  BY DEF EveryRowNamesAnEarlierOne
<1>1. Len(rows) \in Nat /\ Len(rows') \in Nat /\ committed \in 0 .. Len(rows)
  BY NextTypeOK DEF TypeOK
<1>2. CASE i \in 1 .. Len(rows)
  <2>1. rows'[i].prev_digest = rows[i].prev_digest
    BY <1>2, RowsKept
  <2>2. PICK j \in 0 .. (i - 1) : rows[i].prev_digest = DigestOf(j)
    BY <1>2 DEF EveryRowNamesAnEarlierOne
  <2>3. DigestOf(j)' = DigestOf(j)
    BY <1>1, <1>2, DigestKept
  <2>4. QED
    BY <2>1, <2>2, <2>3
<1>3. CASE i \notin 1 .. Len(rows)
  <2>1. PICK w \in Writers :
          /\ i = Len(rows) + 1
          /\ InsertEntry(w)
          /\ rows'[i].prev_digest = seen[w]
    BY <1>3, NewRow, Zenon
  <2>2. PICK j \in 0 .. Len(rows) : seen[w] = DigestOf(j)
    BY <1>1, <2>1 DEF ReadersAreOnTheLog, InsertEntry
  <2>3. DigestOf(j)' = DigestOf(j)
    BY <1>1, <2>1, DigestKept
  <2>4. QED
    BY <1>1, <2>1, <2>2, <2>3
<1>4. QED
  BY <1>2, <1>3

LEMMA NextReadersAreOnTheLog ==
  TypeOK /\ ReadersAreOnTheLog /\ [Next]_vars => ReadersAreOnTheLog'
<1> SUFFICES ASSUME TypeOK, ReadersAreOnTheLog, [Next]_vars,
                    NEW v \in appending'
             PROVE  IF lock' = v
                      THEN seen'[v] = DigestOf(Len(rows))'
                      ELSE \E j \in 0 .. committed' : seen'[v] = DigestOf(j)'
  BY DEF ReadersAreOnTheLog
<1>1. /\ Len(rows) \in Nat /\ committed \in 0 .. Len(rows)
      /\ Len(rows') \in Nat /\ committed' \in 0 .. Len(rows')
      /\ lock = NoWriter => committed = Len(rows)
      /\ v \in Writers /\ v # NoWriter
  BY NextTypeOK, NoWriterAssumption DEF TypeOK
<1>2. ASSUME NEW j \in 0 .. committed, committed <= Len(rows')
      PROVE  DigestOf(j)' = DigestOf(j)
  BY <1>1, <1>2, DigestKept
<1>3. ASSUME NEW w \in Writers, TakeWriteLock(w)
      PROVE  lock' # v /\ \E j \in 0 .. committed' : seen'[v] = DigestOf(j)'
  BY <1>1, <1>2, <1>3 DEF TakeWriteLock, ReadersAreOnTheLog, DigestOf
<1>4. ASSUME NEW w \in Writers, ReadLast(w)
      PROVE  IF lock' = v
               THEN seen'[v] = DigestOf(Len(rows))'
               ELSE \E j \in 0 .. committed' : seen'[v] = DigestOf(j)'
  <2>1. CASE v = w
    <3>1. seen'[v] = DigestOf(LastVisible(v))
      BY <1>4, <2>1 DEF ReadLast, TypeOK
    <3>2. rows' = rows /\ committed' = committed /\ lock' = lock
      BY <1>4 DEF ReadLast
    <3>3. QED
      BY <1>1, <3>1, <3>2 DEF LastVisible, DigestOf
  <2>2. CASE v # w
    BY <1>4, <2>2 DEF ReadLast, ReadersAreOnTheLog, DigestOf, TypeOK
  <2>3. QED
    BY <2>1, <2>2
<1>5. ASSUME NEW w \in Writers, InsertEntry(w)
      PROVE  lock' # v /\ \E j \in 0 .. committed' : seen'[v] = DigestOf(j)'
  <2>1. v # w /\ v \in appending /\ lock' = w /\ lock # v
    BY <1>1, <1>5 DEF InsertEntry
  <2>2. seen'[v] = seen[v] /\ committed' = committed
    BY <1>5, <2>1 DEF InsertEntry, TypeOK
  <2>3. committed <= Len(rows')
    BY <1>1, <2>2
  <2>4. PICK j \in 0 .. committed : seen[v] = DigestOf(j)
    BY <2>1 DEF ReadersAreOnTheLog
  <2>5. QED
    BY <1>2, <2>1, <2>2, <2>3, <2>4
<1>6. ASSUME NEW w \in Writers, Commit(w)
      PROVE  lock' # v /\ \E j \in 0 .. committed' : seen'[v] = DigestOf(j)'
  BY <1>1, <1>6 DEF Commit, ReadersAreOnTheLog, DigestOf
<1>7. ASSUME NEW w \in Writers, Rollback(w)
      PROVE  IF lock' = v
               THEN seen'[v] = DigestOf(Len(rows))'
               ELSE \E j \in 0 .. committed' : seen'[v] = DigestOf(j)'
  <2>1. v # w /\ v \in appending /\ seen'[v] = seen[v] /\ committed' = committed
    BY <1>7 DEF Rollback, TypeOK
  <2>2. CASE lock = w
    <3>1. lock' # v /\ lock # v
      BY <1>1, <1>7, <2>1, <2>2 DEF Rollback
    <3>2. PICK j \in 0 .. committed : seen[v] = DigestOf(j)
      BY <2>1, <3>1 DEF ReadersAreOnTheLog
    <3>3. QED
      BY <1>1, <1>2, <2>1, <3>1, <3>2
  <2>3. CASE lock # w
    <3>1. rows' = rows /\ lock' = lock
      BY <1>7, <2>3 DEF Rollback
    <3>2. QED
      BY <2>1, <3>1 DEF ReadersAreOnTheLog, DigestOf
  <2>4. QED
    BY <2>2, <2>3
<1>8. ASSUME NEW n \in 1 .. committed, EditEntry(n)
      PROVE  lock' # v /\ \E j \in 0 .. committed' : seen'[v] = DigestOf(j)'
  <2>1. v \in appending /\ seen' = seen /\ committed' = committed
        /\ lock' # v /\ lock # v
    BY <1>1, <1>8 DEF EditEntry
  <2>2. PICK j \in 0 .. committed : seen[v] = DigestOf(j)
    BY <2>1 DEF ReadersAreOnTheLog
  <2>3. QED
    BY <1>1, <1>2, <2>1, <2>2
<1>9. CASE UNCHANGED vars
  BY <1>9 DEF vars, ReadersAreOnTheLog, DigestOf
<1>10. QED
  BY <1>3, <1>4, <1>5, <1>6, <1>7, <1>8, <1>9 DEF Next, Transaction

LEMMA NextIInv == IInv /\ [Next]_vars => IInv'
BY NextTypeOK, NextRowsAreNumbered, NextDigestsCoverEntries, NextLockedAppendsLink,
   NextEveryRowNamesAnEarlierOne, NextReadersAreOnTheLog DEF IInv

\* The strengthening the invariants below follow from.
THEOREM AuditIInvInvariant == Spec => []IInv
BY InitIInv, NextIInv, PTL DEF Spec

\* However many writers overlap, an entry appended under the write lock follows
\* the entry before it (audit.py:47 reading its own transaction's rows).
THEOREM LockedAppendsAreLinked == Spec => []LockedAppendsLink
<1>1. IInv => LockedAppendsLink
  BY DEF IInv
<1>2. QED
  BY <1>1, AuditIInvInvariant, PTL

\* A committed entry never names a digest that was rolled back.
THEOREM ChainNeverDangles == Spec => []PrevIsAnEarlierEntry
<1>1. IInv => PrevIsAnEarlierEntry
  <2> SUFFICES ASSUME IInv, NEW i \in 1 .. committed
               PROVE  \E j \in 0 .. (i - 1) : rows[i].prev_digest = DigestOf(j)
    BY DEF PrevIsAnEarlierEntry
  <2>1. i \in 1 .. Len(rows)
    BY DEF IInv, TypeOK
  <2>2. QED
    BY <2>1 DEF IInv, EveryRowNamesAnEarlierOne
<1>2. QED
  BY <1>1, AuditIInvInvariant, PTL

(***************************************************************************)
(* What verify_chain finds.                                                *)
(***************************************************************************)

\* The entry was edited, or its digest does not follow its predecessor's.
Suspect(i) ==
  \/ rows[i].edited
  \/ \A w \in Writers : rows[i].digest # Append(DigestOf(i - 1), <<i, w, FALSE>>)

\* Any set of entries that is not empty has a first one.
LEMMA FirstOfSome ==
  ASSUME NEW S, S \subseteq Nat, S # {}
  PROVE  \E i \in S : \A j \in S : i <= j
<1>1. PICK i \in S : \A j \in S : ~ (<<j, i>> \in OpToRel(<, Nat))
  BY NatLessThanWellFounded, WFMin
<1>2. ASSUME NEW j \in S PROVE i <= j
  <2>1. i \in Nat /\ j \in Nat
    OBVIOUS
  <2>2. ~ (j < i)
    BY <1>1, <2>1 DEF OpToRel
  <2>3. QED
    BY <2>1, <2>2
<1>3. QED
  BY <1>2

\* verify_chain returns the first break, if there is one.
LEMMA VerifyChainIsFirst ==
  ASSUME TypeOK
  PROVE  /\ Breaks = {} => VerifyChain = 0
         /\ Breaks # {} => /\ VerifyChain \in Breaks
                           /\ VerifyChain \in 1 .. committed
                           /\ \A j \in Breaks : VerifyChain <= j
<1>1. Breaks \subseteq 1 .. committed /\ Breaks \subseteq Nat
  BY DEF Breaks, TypeOK
<1>2. CASE Breaks = {}
  BY <1>2 DEF VerifyChain
<1>3. CASE Breaks # {}
  <2>1. \E i \in Breaks : \A j \in Breaks : i <= j
    BY <1>1, <1>3, FirstOfSome
  <2>2. VerifyChain = CHOOSE i \in Breaks : \A j \in Breaks : i <= j
    BY <1>3 DEF VerifyChain
  <2>3. VerifyChain \in Breaks /\ \A j \in Breaks : VerifyChain <= j
    BY <2>1, <2>2
  <2>4. QED
    BY <1>1, <1>3, <2>3
<1>4. QED
  BY <1>2, <1>3

\* No two inputs of the hash have the same digest.
LEMMA DigestsDiffer ==
  ASSUME NEW p \in Digest, NEW q \in Digest, NEW c \in Content, NEW d \in Content
  PROVE  Append(p, c) = Append(q, d) <=> p = q /\ c = d
BY AppendInjective DEF Digest

\* Recomputing tells exactly the suspect entries: the digest column is the one
\* of the entry as it was inserted, and digests are equal only if all they
\* cover is.
LEMMA BreaksAreSuspects ==
  ASSUME IInv, NEW i \in 1 .. committed
  PROVE  i \in Breaks <=> Suspect(i)
<1> DEFINE row == rows[i]
           before == DigestOf(i - 1)
           content(w, edited) == <<i, w, edited>>
<1>1. /\ i \in 1 .. Len(rows) /\ i \in Nat
      /\ i - 1 \in 0 .. Len(rows)
      /\ Len(rows) \in Nat
  BY DEF IInv, TypeOK
<1>2. /\ row.actor \in Writers /\ row.edited \in BOOLEAN
      /\ row.prev_digest \in Digest /\ row.digest \in Digest
  <2>1. row \in AuditLog
    BY <1>1 DEF IInv, TypeOK
  <2>2. QED
    BY <2>1 DEF AuditLog
<1>3. before \in Digest
  BY <1>1, DigestOfType DEF IInv
<1>4. row.id = i /\ row.digest = Append(row.prev_digest, content(row.actor, FALSE))
  BY <1>1 DEF IInv, RowsAreNumbered, DigestsCoverEntries, ComputeDigest
<1>5. \A w \in Writers, e \in BOOLEAN : content(w, e) \in Content
  BY <1>1 DEF Content
<1>6. ASSUME NEW w \in Writers, NEW e \in BOOLEAN
      PROVE  row.digest = Append(before, content(w, e))
               <=> row.prev_digest = before /\ row.actor = w /\ e = FALSE
  <2> DEFINE p == row.prev_digest
             inserted == content(row.actor, FALSE)
             other == content(w, e)
  <2>1. inserted \in Content /\ other \in Content
    BY <1>2, <1>5
  <2>2. p \in Digest /\ before \in Digest
    BY <1>2, <1>3
  <2>3. row.digest = Append(p, inserted)
    BY <1>4
  <2>4. inserted = other <=> row.actor = w /\ e = FALSE
    OBVIOUS
  <2> HIDE DEF p, inserted, other, before
  <2>5. Append(p, inserted) = Append(before, other) <=> p = before /\ inserted = other
    BY <2>1, <2>2, DigestsDiffer
  <2>6. row.digest = Append(before, other) <=> p = before /\ row.actor = w /\ e = FALSE
    BY <2>3, <2>4, <2>5
  <2>7. QED
    BY <2>6 DEF p, other
<1>7. i \in Breaks <=> \/ row.prev_digest # before
                       \/ row.digest # Append(before, content(row.actor, row.edited))
  BY <1>4 DEF Breaks, LinkBroken, DigestBroken, ComputeDigest
<1>8. Suspect(i) <=> \/ row.edited
                     \/ \A w \in Writers : row.digest # Append(before, content(w, FALSE))
  BY DEF Suspect
<1> HIDE DEF row, before, content
<1>9. QED
  BY <1>2, <1>6, <1>7, <1>8

\* The report: the first suspect entry, and none only if none is suspect.
ReportIsFirstSuspect ==
  IF VerifyChain = 0
    THEN \A i \in 1 .. committed : ~Suspect(i)
    ELSE /\ VerifyChain \in 1 .. committed
         /\ Suspect(VerifyChain)
         /\ \A i \in 1 .. (VerifyChain - 1) : ~Suspect(i)

LEMMA ReportsAreFirstSuspects == IInv => ReportIsFirstSuspect
<1> SUFFICES ASSUME IInv PROVE ReportIsFirstSuspect
  OBVIOUS
<1>1. TypeOK /\ committed \in Nat
  BY DEF IInv, TypeOK
<1>2. CASE Breaks = {}
  BY <1>1, <1>2, VerifyChainIsFirst, BreaksAreSuspects DEF ReportIsFirstSuspect
<1>3. CASE Breaks # {}
  <2>1. /\ VerifyChain \in Breaks
        /\ VerifyChain \in 1 .. committed
        /\ \A j \in Breaks : VerifyChain <= j
    BY <1>1, <1>3, VerifyChainIsFirst
  <2>2. Suspect(VerifyChain) /\ VerifyChain # 0
    BY <2>1, BreaksAreSuspects
  <2>3. ASSUME NEW i \in 1 .. (VerifyChain - 1) PROVE ~Suspect(i)
    <3>1. i \in 1 .. committed /\ ~(VerifyChain <= i)
      BY <1>1, <2>1
    <3>2. QED
      BY <2>1, <3>1, BreaksAreSuspects
  <2>4. QED
    BY <2>1, <2>2, <2>3 DEF ReportIsFirstSuspect
<1>4. QED
  BY <1>2, <1>3

\* verify_chain reports an entry exactly if one was edited or does not follow
\* its predecessor, and it reports the first such entry (audit.py, verify_chain).
THEOREM VerificationPinpoints == Spec => []VerifyPinpoints
<1>1. IInv => VerifyPinpoints
  BY ReportsAreFirstSuspects DEF ReportIsFirstSuspect, VerifyPinpoints, Suspect
<1>2. QED
  BY <1>1, AuditIInvInvariant, PTL

\* What is suspect stays so: no transaction and no edit mends a break.
LEMMA SuspectsStay ==
  ASSUME IInv, [Next]_vars, NEW i \in 1 .. committed, Suspect(i)
  PROVE  i \in 1 .. committed' /\ Suspect(i)'
<1>1. TypeOK /\ TypeOK'
  BY NextTypeOK DEF IInv
<1>2. i \in 1 .. committed'
  <2>1. committed' = committed \/ committed' = Len(rows)
    BY DEF Next, Transaction, TakeWriteLock, ReadLast, InsertEntry, Commit,
           Rollback, EditEntry, vars
  <2>2. QED
    BY <1>1, <2>1 DEF TypeOK
<1>3. /\ i \in 1 .. Len(rows) /\ i \in 1 .. Len(rows')
      /\ i - 1 \in 0 .. Len(rows) /\ i - 1 \in 0 .. Len(rows')
  BY <1>1, <1>2 DEF TypeOK
<1>4. rows'[i].digest = rows[i].digest /\ (rows[i].edited => rows'[i].edited)
  BY <1>1, <1>3, RowsKept
<1>5. DigestOf(i - 1)' = DigestOf(i - 1)
  BY <1>1, <1>3, DigestKept
<1>6. QED
  BY <1>2, <1>4, <1>5 DEF Suspect

\* A break once reported stays where it is or moves to an earlier entry,
\* whatever is appended, committed, rolled back or edited afterwards.
THEOREM ReportsNeverHeal == Spec => BreakNeverHeals
<1>1. IInv /\ [Next]_vars /\ ReportIsFirstSuspect /\ ReportIsFirstSuspect' =>
        [VerifyChain # 0 => VerifyChain' \in 1 .. VerifyChain]_vars
  <2> SUFFICES ASSUME IInv, [Next]_vars, ReportIsFirstSuspect,
                      ReportIsFirstSuspect', VerifyChain # 0
               PROVE  VerifyChain' \in 1 .. VerifyChain
    OBVIOUS
  <2>1. VerifyChain \in 1 .. committed /\ Suspect(VerifyChain)
    BY DEF ReportIsFirstSuspect
  <2>2. PICK i \in 1 .. committed : i = VerifyChain /\ Suspect(i)
    BY <2>1
  <2>3. i \in 1 .. committed' /\ Suspect(i)'
    BY <2>2, SuspectsStay
  <2>4. VerifyChain' \in 1 .. committed' /\ ~(i < VerifyChain')
    BY <2>3 DEF ReportIsFirstSuspect
  <2>5. committed \in Nat /\ committed' \in Nat
    BY NextIInv DEF IInv, TypeOK
  <2>6. QED
    BY <2>2, <2>4, <2>5
<1>2. QED
  BY <1>1, ReportsAreFirstSuspects, AuditIInvInvariant, PTL DEF Spec, BreakNeverHeals

=============================================================================
