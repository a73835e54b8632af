----------------------------- MODULE Streaming -----------------------------
(***************************************************************************)
(* Streamed encryption and decryption (FR-2.5), over both of its routes:   *)
(*                                                                         *)
(*  "request"  /encrypt-stream and /decrypt-stream.  A pump on the event   *)
(*             loop puts the body's chunks into a bounded queue, a pool    *)
(*             thread takes them out; ciphertext goes into the envelope.   *)
(*  "file"     upload and download of files.  The body is on disk before   *)
(*             the handler runs (its queue is full from the start);        *)
(*             ciphertext goes into a blob, named by a row.                *)
(*                                                                         *)
(* A stream is one upload and the envelope it leaves; its chunks are       *)
(* numbered from 1, 0 is the empty chunk.  A DEK is used for one stream,   *)
(* so the stream stands for its key, nonce prefix and associated data.     *)
(***************************************************************************)
EXTENDS Integers, Sequences, FiniteSets

CONSTANTS
  Streams,    \* uploads
  Readers,    \* downloads
  NoOne,      \* nobody: an unheld lock, a damaged frame's stream
  Absent,     \* no ciphertext
  MaxChunks,  \* bound on the chunks of an upload
  Sizes,      \* the numbers of chunks uploads have
  QueueSize,  \* _QUEUE_MAXSIZE
  MaxDamage   \* bound on the times stored ciphertext is damaged

ASSUME IdentityAssumption == NoOne \notin Streams \cup Readers
ASSUME BoundsAssumption == /\ MaxChunks \in Nat
                           /\ Sizes \subseteq 0 .. MaxChunks
                           /\ QueueSize \in Nat \ {0}
                           /\ MaxDamage \in Nat

VARIABLES
  upload,    \* the upload of each stream
  pump,      \* the pump of each upload: its state, and the chunks it has put
  queue,     \* the chunks of each upload between pump and consumer
  stored,    \* ciphertext at its place: in the envelope, or under the blob's name
  leftover,  \* streams with a temporary file
  subject,   \* the key of each stream's subject
  download,  \* the download of each reader
  lock,      \* who holds the database's write lock
  loop,      \* the upload whose pump blocks the event loop in put
  damage,    \* number of damages
  hurt,      \* streams whose ciphertext was damaged
  crashed    \* whether the server was ever restarted

vars == <<upload, pump, queue, stored, leftover, subject, download, lock, loop,
          damage, hurt, crashed>>

disk == <<stored, leftover>>
history == <<damage, hurt, crashed>>

Chunk == 0 .. MaxChunks
End == MaxChunks + 1
Nothing == MaxChunks + 2   \* no lookahead yet

Frame == [stream : Streams \cup {NoOne}, index : Nat, final : BOOLEAN, chunk : Chunk]

ASSUME AbsentAssumption == Absent \notin Seq(Frame)

Route == {"request", "file"}

\* reading: inside the loop of encrypt_stream; framed: the blob is renamed or
\* the frames are complete in memory; flushed: rows written, not committed;
\* failing: the handler still waits for its pump.
UploadState == {"none", "started", "reading", "framed", "flushed", "committed",
                "failing", "failed"}
Running == {"started", "reading", "framed", "flushed", "failing"}

Upload == [pc : UploadState, route : Route, total : Chunk, pending : Chunk \cup {End, Nothing},
           frames : Seq(Frame)]

Pump == [state : {"none", "running", "done", "gone"}, sent : Chunk]

Download == [pc : {"none", "opened", "streaming", "reading", "ended", "broken"},
             stream : Streams \cup {NoOne}, total : Nat,
             out : Seq(Chunk), audited : BOOLEAN]

TypeOK ==
  /\ upload \in [Streams -> Upload]
  /\ pump \in [Streams -> Pump]
  /\ queue \in [Streams -> Seq(Chunk \cup {End})]
  /\ \A s \in Streams : upload[s].route = "request" => Len(queue[s]) <= QueueSize
  /\ stored \in [Streams -> Seq(Frame) \cup {Absent}]
  /\ leftover \in SUBSET Streams
  /\ subject \in [Streams -> {"new", "usable", "gone"}]
  /\ download \in [Readers -> Download]
  /\ lock \in Streams \cup Readers \cup {NoOne}
  /\ loop \in Streams \cup {NoOne}
  /\ damage \in 0 .. MaxDamage
  /\ hurt \in SUBSET Streams
  /\ crashed \in BOOLEAN

NoDownload == [pc |-> "none", stream |-> NoOne, total |-> 0,
               out |-> <<>>, audited |-> FALSE]

NoUpload(pc) == [pc |-> pc, route |-> "file", total |-> 0, pending |-> Nothing,
                 frames |-> <<>>]

NoPump == [state |-> "none", sent |-> 0]

Init ==
  /\ upload = [s \in Streams |-> NoUpload("none")]
  /\ pump = [s \in Streams |-> NoPump]
  /\ queue = [s \in Streams |-> <<>>]
  /\ stored = [s \in Streams |-> Absent]
  /\ leftover = {}
  /\ subject \in [Streams -> {"new", "usable"}]
  /\ download = [r \in Readers |-> NoDownload]
  /\ lock = NoOne
  /\ loop = NoOne
  /\ damage = 0
  /\ hurt = {}
  /\ crashed = FALSE

-----------------------------------------------------------------------------
(* The plaintext of a stream, and the frames encrypt_stream makes of it.   *)

\* An empty stream has one empty chunk.
Plaintext(s) ==
  IF upload[s].total = 0 THEN <<0>> ELSE [i \in 1 .. upload[s].total |-> i]

FrameOf(s, i, final, chunk) ==
  [stream |-> s, index |-> i, final |-> final, chunk |-> chunk]

FramesOf(s) ==
  [i \in 1 .. Len(Plaintext(s)) |->
     FrameOf(s, i - 1, i = Len(Plaintext(s)), Plaintext(s)[i])]

DamagedFrame == [stream |-> NoOne, index |-> 0, final |-> FALSE, chunk |-> 0]

-----------------------------------------------------------------------------
(* The pump, on the event loop.  A put into a full queue blocks the loop.  *)

LoopFree == loop = NoOne

\* The next thing the pump has for the queue; a body of total chunks is
\* followed by _STREAM_END.
WithoutEnd(s) == IF pump[s].sent < upload[s].total THEN <<pump[s].sent + 1>> ELSE <<>>

Upcoming(s) == IF pump[s].sent < upload[s].total THEN <<pump[s].sent + 1>> ELSE <<End>>

AlwaysRoom(s) == TRUE

HasRoom(s) == Len(queue[s]) < QueueSize

Put(s) ==
  /\ pump[s].state = "running"
  /\ loop \in {NoOne, s}
  /\ HasRoom(s)
  /\ queue' = [queue EXCEPT ![s] = @ \o Upcoming(s)]
  /\ pump' = IF pump[s].sent < upload[s].total THEN [pump EXCEPT ![s].sent = @ + 1]
                                               ELSE [pump EXCEPT ![s].state = "done"]
  /\ loop' = NoOne
  /\ UNCHANGED <<upload, disk, subject, download, lock, history>>

PutBlocks(s) ==
  /\ pump[s].state = "running"
  /\ LoopFree
  /\ ~HasRoom(s)
  /\ loop' = s
  /\ UNCHANGED <<upload, pump, queue, disk, subject, download, lock, history>>

DisconnectLooksLikeEnd(s) ==
  /\ pump[s].state = "running"
  /\ LoopFree
  /\ HasRoom(s)
  /\ queue' = [queue EXCEPT ![s] = Append(@, End)]
  /\ pump' = [pump EXCEPT ![s].state = "done"]
  /\ UNCHANGED <<upload, disk, subject, download, lock, loop, history>>

\* request.stream() raises: the pump ends without _STREAM_END.
Disconnect(s) ==
  /\ pump[s].state = "running"
  /\ LoopFree
  /\ pump' = [pump EXCEPT ![s].state = "gone"]
  /\ UNCHANGED <<upload, queue, disk, subject, download, lock, loop, history>>

-----------------------------------------------------------------------------
(* Uploads.                                                                *)

\* Handlers are started by the event loop.
StartRequest(s, total) ==
  /\ LoopFree
  /\ upload[s].pc = "none"
  /\ upload' = [upload EXCEPT ![s].pc = "started", ![s].route = "request", ![s].total = total]
  /\ pump' = [pump EXCEPT ![s].state = "running"]
  /\ UNCHANGED <<queue, disk, subject, download, lock, loop, history>>

StartFile(s, total) ==
  /\ LoopFree
  /\ upload[s].pc = "none"
  /\ upload' = [upload EXCEPT ![s].pc = "started", ![s].total = total]
  /\ queue' = [queue EXCEPT ![s] = [i \in 1 .. total + 1 |-> IF i <= total THEN i ELSE End]]
  /\ UNCHANGED <<pump, disk, subject, download, lock, loop, history>>

Temporary(s) == IF upload[s].route = "file" THEN {s} ELSE {}

\* encrypt_stream up to its loop: a key for a new subject is inserted, which
\* takes the write lock.
OpenStream(s) ==
  /\ upload[s].pc = "started"
  /\ \/ subject[s] = "usable" /\ UNCHANGED lock
     \/ subject[s] = "new" /\ lock = NoOne /\ lock' = s
  /\ upload' = [upload EXCEPT ![s].pc = "reading"]
  /\ leftover' = leftover \cup Temporary(s)
  /\ UNCHANGED <<pump, queue, stored, subject, download, loop, history>>

Pending(s) == upload[s].pending

\* The frames are complete: into the envelope, or by rename to the blob's name.
Keep(s, frames) ==
  /\ stored' = [stored EXCEPT ![s] = frames]
  /\ leftover' = leftover \ {s}

\* One item from the queue.  The item before it can then be encrypted, and is
\* the final one if this one is the end.
EncryptNext(s) ==
  LET item == Head(queue[s])
      final == item = End
      chunk == IF Pending(s) = Nothing THEN 0 ELSE Pending(s)
      frames == Append(upload[s].frames, FrameOf(s, Len(upload[s].frames), final, chunk))
  IN /\ upload[s].pc = "reading"
     /\ queue[s] # <<>>
     /\ queue' = [queue EXCEPT ![s] = Tail(@)]
     /\ IF final
          THEN /\ upload' = [upload EXCEPT ![s].pc = "framed", ![s].pending = Nothing,
                                           ![s].frames = <<>>]
               /\ Keep(s, frames)
          ELSE /\ upload' = [upload EXCEPT ![s].pending = item,
                    ![s].frames = IF Pending(s) = Nothing THEN @ ELSE frames]
               /\ UNCHANGED <<disk>>
     /\ UNCHANGED <<pump, subject, download, lock, loop, history>>

FlushRows(s) ==
  /\ upload[s].pc = "framed"
  /\ lock \in {NoOne, s}
  /\ lock' = s
  /\ upload' = [upload EXCEPT ![s].pc = "flushed"]
  /\ UNCHANGED <<pump, queue, disk, subject, download, loop, history>>

\* /encrypt-stream commits on the event loop, upload_file in its thread.
CommitUpload(s) ==
  /\ upload[s].pc = "flushed"
  /\ upload[s].route = "request" => LoopFree /\ pump[s].state = "done"
  /\ upload' = [upload EXCEPT ![s].pc = "committed"]
  /\ subject' = [subject EXCEPT ![s] = IF @ = "new" THEN "usable" ELSE @]
  /\ pump' = [pump EXCEPT ![s] = NoPump]
  /\ lock' = NoOne
  /\ UNCHANGED <<queue, disk, download, loop, history>>

\* The consumer of s has ended: the handler with it, or it waits for its pump.
Failed(s) ==
  IF upload[s].route = "file"
    THEN NoUpload("failed")
    ELSE [upload[s] EXCEPT !.pc = "failing", !.pending = Nothing, !.frames = <<>>]

NeverReleased(holder) == lock

Released(holder) == IF lock = holder THEN NoOne ELSE lock

\* A thread that waits for a chunk cannot fail.
MayFail(s) ==
  \/ upload[s].pc \in {"started", "framed", "flushed"}
  \/ upload[s].pc = "reading" /\ queue[s] # <<>>

\* Nobody empties the queue of a request any more; a file's is closed.
QueueAfterFailure(s) ==
  [queue EXCEPT ![s] = IF upload[s].route = "file" THEN <<>>
                       ELSE IF upload[s].pc = "reading" THEN Tail(@) ELSE @]

Kept(s) == stored

Cleaned(s) == [stored EXCEPT ![s] = Absent]

\* An exception in the pool thread: a refused subject key, a lock timeout, a
\* provider or disk error.  upload_file removes the blob and rolls back; the
\* handler of /encrypt-stream first waits for its pump, transaction open.
FailUpload(s) ==
  /\ MayFail(s)
  /\ queue' = QueueAfterFailure(s)
  /\ leftover' = leftover \ {s}
  /\ stored' = Cleaned(s)
  /\ upload' = [upload EXCEPT ![s] = Failed(s)]
  /\ lock' = IF upload[s].route = "file" THEN Released(s) ELSE lock
  /\ UNCHANGED <<pump, subject, download, loop, history>>

\* await pump_task returns, and get_db rolls back.
EndFailed(s) ==
  /\ upload[s].pc = "failing"
  /\ LoopFree
  /\ pump[s].state \in {"done", "gone"}
  /\ upload' = [upload EXCEPT ![s] = NoUpload("failed")]
  /\ pump' = [pump EXCEPT ![s] = NoPump]
  /\ queue' = [queue EXCEPT ![s] = <<>>]
  /\ lock' = Released(s)
  /\ UNCHANGED <<disk, subject, download, loop, history>>

-----------------------------------------------------------------------------
(* Downloads.                                                              *)

Source(r) == download[r].stream

BodyAtOnce(s) == "streaming"

\* download_file commits before it streams, the handler of /decrypt-stream only
\* when the body has ended.
AfterOpening(s) == IF upload[s].route = "file" THEN "opened" ELSE "streaming"

\* decrypt_stream up to its generator: keys and blob are looked at and the
\* audit entry is flushed.  A refusal leaves a failure entry and no download.
OpenDownload(r, s) ==
  /\ LoopFree
  /\ download[r].pc = "none"
  /\ upload[s].pc = "committed"
  /\ subject[s] = "usable"
  /\ stored[s] # Absent
  /\ lock = NoOne
  /\ lock' = r
  /\ download' = [download EXCEPT ![r].stream = s, ![r].pc = AfterOpening(s)]
  /\ UNCHANGED <<upload, pump, queue, disk, subject, loop, history>>

CommitDownload(r) ==
  /\ LoopFree
  /\ download[r].pc = "opened"
  /\ download' = [download EXCEPT ![r].pc = "streaming", ![r].audited = TRUE]
  /\ lock' = NoOne
  /\ UNCHANGED <<upload, pump, queue, disk, subject, loop, history>>

\* The finally clause commits on every way out of the body.
Close(r, last) ==
  /\ download' = [download EXCEPT ![r] = last]
  /\ lock' = Released(r)

Broken == [NoDownload EXCEPT !.pc = "broken"]

\* The body is driven from the event loop, one chunk at a time.  The first one
\* opens the blob, by now possibly gone, and takes its size.
OpenSource(r) ==
  /\ LoopFree
  /\ download[r].pc = "streaming"
  /\ IF stored[Source(r)] = Absent
       THEN Close(r, Broken)
       ELSE /\ download' = [download EXCEPT ![r].pc = "reading",
                                            ![r].total = Len(stored[Source(r)])]
            /\ UNCHANGED lock
  /\ UNCHANGED <<upload, pump, queue, disk, subject, loop, history>>

VerifiesAnywhere(s, frame, i, final) == frame.stream = s /\ frame.final = final

VerifiesAtAnyLength(s, frame, i, final) == frame.stream = s /\ frame.index = i

\* The nonce holds the prefix and the index; the associated data holds the
\* stream's location, the index and the final flag.
Verifies(s, frame, i, final) ==
  frame.stream = s /\ frame.index = i /\ frame.final = final

ReadFrame(r) ==
  LET s == Source(r)
      i == Len(download[r].out)
  IN /\ LoopFree
     /\ download[r].pc = "reading"
     /\ i < download[r].total
     /\ IF i < Len(stored[s]) /\ Verifies(s, stored[s][i + 1], i, i + 1 >= download[r].total)
          THEN /\ download' = [download EXCEPT ![r].out = Append(@, stored[s][i + 1].chunk)]
               /\ UNCHANGED lock
          ELSE Close(r, Broken)
     /\ UNCHANGED <<upload, pump, queue, disk, subject, loop, history>>

EndDownload(r) ==
  /\ LoopFree
  /\ download[r].pc = "reading"
  /\ Len(download[r].out) >= download[r].total
  /\ Close(r, [download[r] EXCEPT !.pc = "ended", !.total = 0, !.audited = TRUE])
  /\ UNCHANGED <<upload, pump, queue, disk, subject, loop, history>>

LeaveDownload(r) ==
  /\ LoopFree
  /\ download[r].pc \in {"streaming", "reading"}
  /\ Close(r, Broken)
  /\ UNCHANGED <<upload, pump, queue, disk, subject, loop, history>>
-----------------------------------------------------------------------------
(* What happens to keys, disks and the server meanwhile.                   *)

\* The subject is erased, or its key revoked.
LoseKey(s) ==
  /\ lock = NoOne
  /\ subject[s] = "usable"
  /\ subject' = [subject EXCEPT ![s] = "gone"]
  /\ UNCHANGED <<upload, pump, queue, disk, download, lock, loop, history>>

IsFile(s) == upload[s].route = "file"

\* Stored ciphertext can be cut, have a frame replaced by a damaged one or by any
\* that is stored anywhere, have two exchanged, or one added.  A blob can also be
\* missing, as after a backup of the other half or a power failure before its
\* directory is written; for a reader that has it open it goes missing later.
Found ==
  {DamagedFrame} \cup
    UNION {{stored[t][i] : i \in DOMAIN stored[t]} : t \in {t \in Streams : stored[t] # Absent}}

Cut(copy) == {SubSeq(copy, 1, n) : n \in 0 .. Len(copy) - 1}
Replaced(copy) == {[copy EXCEPT ![i] = f] : i \in DOMAIN copy, f \in Found}
Exchanged(copy) == {[copy EXCEPT ![i] = copy[j], ![j] = copy[i]] : i, j \in DOMAIN copy}
Insert(copy, n, f) == SubSeq(copy, 1, n) \o <<f>> \o SubSeq(copy, n + 1, Len(copy))
Added(copy) == {Insert(copy, n, f) : n \in 0 .. Len(copy), f \in Found}
Missing(s) ==
  IF IsFile(s) /\ \A r \in Readers : download[r].pc = "reading" => Source(r) # s
    THEN {Absent} ELSE {}

Damages(s) == Cut(stored[s]) \cup Replaced(stored[s]) \cup Exchanged(stored[s])
                \cup Added(stored[s]) \cup Missing(s)

Damage(s) ==
  /\ damage < MaxDamage
  /\ upload[s].pc = "committed"
  /\ stored[s] # Absent
  /\ \E copy \in Damages(s) \ {stored[s]} : stored' = [stored EXCEPT ![s] = copy]
  /\ damage' = damage + 1
  /\ hurt' = hurt \cup {s}
  /\ UNCHANGED <<upload, pump, queue, leftover, subject, download, lock, loop, crashed>>

\* The process ends and is started again: blobs and temporary files stay.
Crash ==
  /\ ~crashed
  /\ crashed' = TRUE
  /\ upload' = [s \in Streams |->
       IF upload[s].pc \in Running THEN NoUpload("failed") ELSE upload[s]]
  /\ stored' = [s \in Streams |->
       IF upload[s].pc \in Running /\ ~IsFile(s) THEN Absent ELSE stored[s]]
  /\ pump' = [s \in Streams |-> NoPump]
  /\ queue' = [s \in Streams |-> <<>>]
  /\ download' = [r \in Readers |->
       IF download[r].pc \in {"opened", "streaming", "reading"}
         THEN Broken ELSE download[r]]
  /\ lock' = NoOne
  /\ loop' = NoOne
  /\ UNCHANGED <<leftover, subject, damage, hurt>>

-----------------------------------------------------------------------------
PumpStep(s) == Put(s) \/ PutBlocks(s) \/ Disconnect(s)

UploadStep(s) ==
  \/ OpenStream(s)
  \/ EncryptNext(s)
  \/ FlushRows(s)
  \/ CommitUpload(s)
  \/ FailUpload(s)
  \/ EndFailed(s)

DownloadStep(r) ==
  \/ CommitDownload(r)
  \/ OpenSource(r)
  \/ ReadFrame(r)
  \/ EndDownload(r)
  \/ LeaveDownload(r)

Next ==
  \/ \E s \in Streams :
       \/ \E total \in Sizes : StartRequest(s, total) \/ StartFile(s, total)
       \/ PumpStep(s)
       \/ UploadStep(s)
       \/ \E r \in Readers : OpenDownload(r, s)
       \/ LoseKey(s)
       \/ Damage(s)
  \/ \E r \in Readers : DownloadStep(r)
  \/ Crash

Spec == Init /\ [][Next]_vars

\* Pool threads run, and the event loop goes on when it is let go.  A client
\* need not send or read anything.
FairSpec ==
  /\ Spec
  /\ \A s \in Streams : WF_vars(UploadStep(s)) /\ WF_vars(loop = s /\ Put(s))
  /\ \A r \in Readers : WF_vars(CommitDownload(r))

-----------------------------------------------------------------------------
(* Properties.                                                             *)

\* A committed upload is all of what its client meant to send, in order, and it
\* is where the row says, whatever disconnected, failed or crashed meanwhile:
\* a body that was cut off must never look like one that ended.
CommittedStreamIsWhole ==
  \A s \in Streams :
    upload[s].pc = "committed" /\ s \notin hurt => stored[s] = FramesOf(s)

\* Whatever happens to the stored ciphertext, and whenever, what decrypt_stream
\* has released is how the uploaded plaintext begins.
ReleasedIsPrefix ==
  \A r \in Readers :
    LET out == download[r].out
    IN out # <<>> => /\ Len(out) <= Len(Plaintext(Source(r)))
                     /\ out = SubSeq(Plaintext(Source(r)), 1, Len(out))

\* A download that ends without an error has delivered everything, or nothing.
FinishedDownloadIsWhole ==
  \A r \in Readers :
    download[r].pc = "ended" => download[r].out \in {<<>>, Plaintext(Source(r))}

\* crypto.py, stream_chunk_aad: "truncating, reordering, or duplicating chunks
\* breaks AEAD verification instead of silently producing corrupted plaintext".
TruncationIsNoticed ==
  \A r \in Readers :
    download[r].pc = "ended" => download[r].out = Plaintext(Source(r))

\* upload_file cleans up after every failure: without a crash there is neither a
\* blob nor a temporary file that no running upload and no row accounts for.
NoLeftoverWithoutCrash ==
  ~crashed => \A s \in Streams :
    /\ s \in leftover => upload[s].pc = "reading"
    /\ stored[s] # Absent => upload[s].pc \in {"framed", "flushed", "committed"}

\* No byte of a file leaves before the audit log has the download, committed.
FilesAreReadOnRecord ==
  \A r \in Readers :
    download[r].out # <<>> /\ IsFile(Source(r)) => download[r].audited

LoopStuck == \E s \in Streams : loop = s /\ upload[s].pc = "failing"

\* The three ways an upload by request can take for ever: its client sends
\* nothing, its client went away and nobody tells the thread that waits for
\* chunks, or the loop is blocked by a pump whose consumer has failed.
Hangs(s) ==
  /\ ~IsFile(s)
  /\ \/ pump[s].state = "running" /\ LoopFree /\ (queue[s] = <<>> \/ upload[s].pc = "failing")
     \/ pump[s].state = "gone" /\ upload[s].pc = "reading" /\ queue[s] = <<>>
     \/ LoopStuck

\* Every upload ends, unless it comes to hang in one of these ways.
EveryUploadEnds ==
  \A s \in Streams :
    []<>(upload[s].pc \notin Running) \/ <>[]Hangs(s)

\* The write lock does not stay with one holder, except with an upload that
\* hangs, or with a download that /decrypt-stream commits only at its end.
WriteLockComesBack ==
  \/ []<>(lock = NoOne)
  \/ <>[](\E s \in Streams : lock = s /\ Hangs(s))
  \/ <>[](\E r \in Readers : lock = r /\ (LoopStuck \/ ~IsFile(Source(r))))
=============================================================================
