---------------------------- MODULE StreamingProofs ----------------------------
(***************************************************************************)
(* Safety of Streaming for any number of uploads and downloads, bodies of  *)
(* any length, queues of any size and any damage to the ciphertext.        *)
(***************************************************************************)
EXTENDS Streaming, SequenceTheorems, TLAPS

(***************************************************************************)
(* The inductive invariant.                                                *)
(***************************************************************************)

\* The chunks a thread has taken from the queue; what comes n-th in a body.
Taken(s) == IF Pending(s) = Nothing THEN 0 ELSE Pending(s)
Item(s, n) == IF n <= upload[s].total THEN n ELSE End

\* While a stream is being read, what was taken and what is in the queue is how
\* its body begins, and the frames are those of all chunks but the pending one.
InOrder(s) ==
  /\ Pending(s) \in 1 .. upload[s].total \cup {Nothing}
  /\ Taken(s) + Len(queue[s]) <= upload[s].total + 1
  /\ \A i \in 1 .. Len(queue[s]) : queue[s][i] = Item(s, Taken(s) + i)
  /\ pump[s].state = "running" =>
       pump[s].sent = Taken(s) + Len(queue[s]) /\ pump[s].sent <= upload[s].total
  /\ Len(upload[s].frames) = IF Taken(s) = 0 THEN 0 ELSE Taken(s) - 1
  /\ \A i \in 1 .. Len(upload[s].frames) :
       upload[s].frames[i] = FrameOf(s, i - 1, FALSE, i)

UploadInOrder(s) ==
  /\ upload[s].pc = "none" =>
       /\ upload[s] = NoUpload("none") /\ pump[s] = NoPump
       /\ queue[s] = <<>>
  /\ pump[s].state = "running" => upload[s].pc \in Running /\ upload[s].route = "request"
  /\ upload[s].pc \in {"started", "reading"} => InOrder(s)
  /\ upload[s].pc = "started" => Pending(s) = Nothing
  /\ upload[s].pc \in {"framed", "flushed", "committed"} /\ s \notin hurt =>
       stored[s] = FramesOf(s)
  /\ s \in hurt => upload[s].pc = "committed"

UploadsInOrder == \A s \in Streams : UploadInOrder(s)

\* A frame that names a stream was made by its upload; as long as the upload has
\* not failed it is one of the frames of its plaintext.
Encrypted == {"framed", "flushed", "committed"}

Genuine(f) ==
  f.stream \in Streams =>
    /\ upload[f.stream].pc \notin {"none", "started", "reading"}
    /\ upload[f.stream].pc \in Encrypted =>
         \E i \in 1 .. Len(Plaintext(f.stream)) :
           f = FrameOf(f.stream, i - 1, i = Len(Plaintext(f.stream)), Plaintext(f.stream)[i])

StoredFramesAreGenuine ==
  \A s \in Streams : stored[s] # Absent =>
    \A i \in 1 .. Len(stored[s]) : Genuine(stored[s][i])

\* A download is of a committed upload.  What it has released is how the
\* plaintext begins, and all of it when it has come to the size it has taken.
DownloadInOrder(r) ==
  LET out == download[r].out
      s == Source(r)
  IN /\ download[r].pc \in {"opened", "streaming", "reading", "ended"} =>
          s \in Streams /\ upload[s].pc = "committed"
     /\ download[r].pc = "reading" => stored[s] # Absent
     /\ download[r].pc = "ended" => download[r].total = 0
     /\ download[r].pc \in {"none", "opened", "streaming", "broken"} => out = <<>>
     /\ out # <<>> =>
          /\ Len(out) <= Len(Plaintext(s))
          /\ \A i \in 1 .. Len(out) : out[i] = Plaintext(s)[i]
          /\ Len(out) >= download[r].total => Len(out) = Len(Plaintext(s))
     /\ download[r].pc \in {"streaming", "reading", "ended"} /\ IsFile(s) =>
          download[r].audited

DownloadsInOrder == \A r \in Readers : DownloadInOrder(r)

IInv ==
  /\ TypeOK
  /\ UploadsInOrder
  /\ StoredFramesAreGenuine
  /\ DownloadsInOrder
  /\ NoLeftoverWithoutCrash

(***************************************************************************)
(* The plaintext and its frames.                                           *)
(***************************************************************************)

LEMMA ChunkTypes == /\ MaxChunks \in Nat /\ Chunk \subseteq Nat /\ 0 \in Chunk
                    /\ End \notin Chunk /\ Nothing \notin Chunk /\ End # Nothing
BY BoundsAssumption DEF Chunk, End, Nothing

\* The fields of an upload.
LEMMA UploadType ==
  ASSUME TypeOK, NEW s \in Streams
  PROVE  /\ upload[s] \in Upload /\ upload[s].pc \in UploadState /\ upload[s].route \in Route
         /\ upload[s].total \in Chunk /\ upload[s].pending \in Chunk \cup {End, Nothing}
         /\ upload[s].frames \in Seq(Frame)
BY DEF TypeOK, Upload

LEMMA PlaintextType ==
  ASSUME TypeOK, NEW s \in Streams
  PROVE  /\ Plaintext(s) \in Seq(Chunk)
         /\ Len(Plaintext(s)) = IF upload[s].total = 0 THEN 1 ELSE upload[s].total
         /\ \A i \in 1 .. Len(Plaintext(s)) :
              Plaintext(s)[i] = IF upload[s].total = 0 THEN 0 ELSE i
<1>1. upload[s].total \in 0 .. MaxChunks /\ MaxChunks \in Nat
  BY UploadType, ChunkTypes DEF Chunk
<1>2. CASE upload[s].total = 0
  <2>1. Plaintext(s) = <<0>>
    BY <1>2 DEF Plaintext
  <2>2. QED
    BY <1>1, <1>2, <2>1 DEF Chunk
<1>3. CASE upload[s].total # 0
  <2> DEFINE n == upload[s].total
  <2>1. Plaintext(s) = [i \in 1 .. n |-> i] /\ n \in Nat /\ n <= MaxChunks
    BY <1>1, <1>3 DEF Plaintext
  <2>2. \A i \in 1 .. n : i \in Chunk
    BY <1>1 DEF Chunk
  <2> HIDE DEF n
  <2>3. Plaintext(s) \in Seq(Chunk) /\ Len(Plaintext(s)) = n
    BY <2>1, <2>2
  <2>4. QED
    BY <1>3, <2>1, <2>3 DEF n
<1>4. QED
  BY <1>2, <1>3

LEMMA FramesOfType ==
  ASSUME TypeOK, NEW s \in Streams
  PROVE  /\ FramesOf(s) \in Seq(Frame) /\ Len(FramesOf(s)) = Len(Plaintext(s))
         /\ \A i \in 1 .. Len(Plaintext(s)) :
              FramesOf(s)[i]
                = FrameOf(s, i - 1, i = Len(Plaintext(s)), Plaintext(s)[i])
<1> DEFINE n == Len(Plaintext(s))
<1>1. n \in Nat /\ Plaintext(s) \in Seq(Chunk)
  BY PlaintextType, LenProperties
<1>2. FramesOf(s) = [i \in 1 .. n |-> FrameOf(s, i - 1, i = n, Plaintext(s)[i])]
  BY DEF FramesOf
<1>3. \A i \in 1 .. n : FrameOf(s, i - 1, i = n, Plaintext(s)[i]) \in Frame
  BY <1>1, ElementOfSeq DEF FrameOf, Frame
<1> HIDE DEF n
<1>4. FramesOf(s) \in Seq(Frame) /\ Len(FramesOf(s)) = n
  BY <1>1, <1>2, <1>3
<1>5. QED
  BY <1>2, <1>4 DEF n

(***************************************************************************)
(* Type correctness.                                                       *)
(***************************************************************************)

\* An upload, a pump, a queue, stored ciphertext or a download that has a new
\* value of its type leaves the others what they are.
LEMMA ChangedStream ==
  ASSUME TypeOK, NEW s \in Streams
  PROVE  /\ \A u \in Upload : [upload EXCEPT ![s] = u] \in [Streams -> Upload]
         /\ \A p \in Pump : [pump EXCEPT ![s] = p] \in [Streams -> Pump]
         /\ \A q \in Seq(Chunk \cup {End}) :
              [queue EXCEPT ![s] = q] \in [Streams -> Seq(Chunk \cup {End})]
         /\ \A c \in Seq(Frame) \cup {Absent} :
              [stored EXCEPT ![s] = c] \in [Streams -> Seq(Frame) \cup {Absent}]
         /\ queue[s] \in Seq(Chunk \cup {End}) /\ pump[s] \in Pump
         /\ pump[s].sent \in Chunk /\ stored[s] \in Seq(Frame) \cup {Absent}
         /\ upload[s].route = "request" => Len(queue[s]) <= QueueSize
BY DEF TypeOK, Pump

LEMMA ChangedDownload ==
  ASSUME TypeOK, NEW r \in Readers
  PROVE  /\ \A d \in Download : [download EXCEPT ![r] = d] \in [Readers -> Download]
         /\ download[r] \in Download
BY DEF TypeOK

LEMMA RestingTypes ==
  /\ \A pc \in UploadState : NoUpload(pc) \in Upload
  /\ NoPump \in Pump /\ NoDownload \in Download /\ Broken \in Download
  /\ <<>> \in Seq(Chunk \cup {End}) /\ <<>> \in Seq(Frame)
BY ChunkTypes, EmptySeq
   DEF NoUpload, Upload, Route, NoPump, Pump, NoDownload, Download, Broken

LEMMA InitTypeOK == Init => TypeOK
<1> SUFFICES ASSUME Init PROVE TypeOK
  OBVIOUS
<1>1. NoUpload("none") \in Upload /\ NoPump \in Pump /\ NoDownload \in Download
      /\ <<>> \in Seq(Chunk \cup {End})
  BY RestingTypes DEF UploadState
<1>2. \A s \in Streams : upload[s].route = "file"
  BY DEF Init, NoUpload
<1>3. subject \in [Streams -> {"new", "usable", "gone"}]
  BY DEF Init
<1>4. \A s \in Streams : upload[s].route = "request" => Len(queue[s]) <= QueueSize
  BY <1>2
<1>5. upload \in [Streams -> Upload] /\ pump \in [Streams -> Pump]
      /\ queue \in [Streams -> Seq(Chunk \cup {End})]
      /\ download \in [Readers -> Download]
  BY <1>1 DEF Init
<1>6. stored \in [Streams -> Seq(Frame) \cup {Absent}]
  BY DEF Init
<1>7. damage \in 0 .. MaxDamage
  BY BoundsAssumption DEF Init
<1>8. leftover \in SUBSET Streams /\ hurt \in SUBSET Streams /\ crashed \in BOOLEAN
      /\ lock = NoOne /\ loop = NoOne
  BY DEF Init
<1>9. QED
  BY <1>3, <1>4, <1>5, <1>6, <1>7, <1>8 DEF TypeOK

LEMMA PumpStepType ==
  ASSUME TypeOK, NEW s \in Streams, PumpStep(s)
  PROVE  TypeOK'
<1> USE DEF disk, history
<1>1. CASE Put(s)
  <2>1. /\ queue[s] \in Seq(Chunk \cup {End}) /\ pump[s] \in Pump /\ pump[s].sent \in Chunk
        /\ upload[s].total \in Chunk
    BY ChangedStream, UploadType
  <2>2. PICK item \in Chunk \cup {End} : Upcoming(s) = <<item>>
    BY <2>1, ChunkTypes DEF Upcoming, Chunk
  <2>3. /\ queue[s] \o <<item>> \in Seq(Chunk \cup {End})
        /\ Len(queue[s] \o <<item>>) = Len(queue[s]) + 1
    BY <2>1
  <2>4. PICK p \in Pump : pump' = [pump EXCEPT ![s] = p]
    <3>1. CASE pump[s].sent < upload[s].total
      <4>1. pump[s].sent + 1 \in Chunk
        BY <2>1, <3>1, ChunkTypes DEF Chunk
      <4>2. [pump[s] EXCEPT !.sent = pump[s].sent + 1] \in Pump
        BY <2>1, <4>1 DEF Pump
      <4>3. QED
        BY <1>1, <3>1, <4>2 DEF Put
    <3>2. CASE ~(pump[s].sent < upload[s].total)
      <4>1. [pump[s] EXCEPT !.state = "done"] \in Pump
        BY <2>1 DEF Pump
      <4>2. QED
        BY <1>1, <3>2, <4>1 DEF Put
    <3>3. QED
      BY <3>1, <3>2
  <2>5. pump' \in [Streams -> Pump]
    BY <2>4, ChangedStream
  <2>6. queue' = [queue EXCEPT ![s] = queue[s] \o <<item>>]
    BY <1>1, <2>2 DEF Put
  <2>7. queue' \in [Streams -> Seq(Chunk \cup {End})]
    BY <2>3, <2>6, ChangedStream
  <2>8. ASSUME NEW u \in Streams, upload[u].route = "request"
        PROVE  Len(queue'[u]) <= QueueSize
    <3>1. CASE u = s
      BY <1>1, <2>1, <2>3, <2>6, <3>1, BoundsAssumption DEF Put, HasRoom, TypeOK
    <3>2. CASE u # s
      BY <2>6, <2>8, <3>2 DEF TypeOK
    <3>3. QED
      BY <3>1, <3>2
  <2>9. QED
    BY <1>1, <2>5, <2>7, <2>8 DEF Put, TypeOK
<1>2. CASE PutBlocks(s)
  BY <1>2 DEF PutBlocks, TypeOK
<1>3. CASE Disconnect(s)
  <2>1. [pump[s] EXCEPT !.state = "gone"] \in Pump
    BY ChangedStream DEF Pump
  <2>2. pump' \in [Streams -> Pump]
    BY <1>3, <2>1, ChangedStream DEF Disconnect
  <2>3. QED
    BY <1>3, <2>2 DEF Disconnect, TypeOK
<1>4. QED
  BY <1>1, <1>2, <1>3 DEF PumpStep

LEMMA StartType ==
  ASSUME TypeOK, UploadsInOrder, NEW s \in Streams, NEW total \in Sizes,
         StartRequest(s, total) \/ StartFile(s, total)
  PROVE  TypeOK'
<1> USE DEF disk, history
<1>1. total \in Chunk /\ total \in Nat /\ total <= MaxChunks
  BY BoundsAssumption DEF Chunk
<1>2. upload[s] = NoUpload("none") /\ queue[s] = <<>> /\ pump[s] \in Pump
      /\ upload[s] \in Upload
  BY UploadType, ChangedStream
     DEF UploadsInOrder, UploadInOrder, StartRequest, StartFile
<1>3. CASE StartRequest(s, total)
  <2>1. [upload[s] EXCEPT !.pc = "started", !.route = "request", !.total = total] \in Upload
    BY <1>1, <1>2 DEF Upload, UploadState, Route
  <2>2. upload' \in [Streams -> Upload]
    BY <1>3, <2>1 DEF StartRequest, TypeOK
  <2>3. [pump[s] EXCEPT !.state = "running"] \in Pump
    BY <1>2 DEF Pump
  <2>4. pump' \in [Streams -> Pump]
    BY <1>3, <2>3, ChangedStream DEF StartRequest
  <2>5. \A u \in Streams : upload'[u].route = "request" => Len(queue[u]) <= QueueSize
    BY <1>2, <1>3, BoundsAssumption DEF StartRequest, TypeOK
  <2>6. QED
    BY <1>3, <2>2, <2>4, <2>5 DEF StartRequest, TypeOK
<1>4. CASE StartFile(s, total)
  <2>0. upload[s].route = "file"
    BY <1>2 DEF NoUpload
  <2>1. [upload[s] EXCEPT !.pc = "started", !.total = total] \in Upload
        /\ [upload[s] EXCEPT !.pc = "started", !.total = total].route = "file"
    <3>1. upload[s] \in Upload
      BY UploadType
    <3>2. QED
      BY <1>1, <2>0, <3>1 DEF Upload, UploadState
  <2>2. upload' \in [Streams -> Upload]
        /\ \A u \in Streams : upload'[u].route = IF u = s THEN "file" ELSE upload[u].route
    BY <1>4, <2>1 DEF StartFile, TypeOK
  <2> DEFINE q == [i \in 1 .. total + 1 |-> IF i <= total THEN i ELSE End]
  <2>3. q \in Seq(Chunk \cup {End})
    <3>1. \A i \in 1 .. total + 1 : (IF i <= total THEN i ELSE End) \in Chunk \cup {End}
      BY <1>1, ChunkTypes DEF Chunk
    <3>2. total + 1 \in Nat
      BY <1>1
    <3>3. QED
      BY <3>1, <3>2
  <2>4. queue' = [queue EXCEPT ![s] = q]
    BY <1>4 DEF StartFile
  <2> HIDE DEF q
  <2>5. queue' \in [Streams -> Seq(Chunk \cup {End})]
    BY <2>3, <2>4, ChangedStream
  <2>6. \A u \in Streams : upload'[u].route = "request" => Len(queue'[u]) <= QueueSize
    BY <2>2, <2>4 DEF TypeOK
  <2>7. QED
    BY <1>4, <2>2, <2>5, <2>6 DEF StartFile, TypeOK
<1>5. QED
  BY <1>3, <1>4

\* The item at the head of the queue is the next one of the body; it is the end
\* exactly when all chunks were taken.
LEMMA HeadIsNextItem ==
  ASSUME TypeOK, NEW s \in Streams, InOrder(s), queue[s] # <<>>
  PROVE  /\ Taken(s) \in 0 .. upload[s].total /\ Taken(s) \in Chunk
         /\ Head(queue[s]) = Item(s, Taken(s) + 1)
         /\ Head(queue[s]) = End <=> Taken(s) = upload[s].total
         /\ Head(queue[s]) # End => Head(queue[s]) = Taken(s) + 1 /\ Taken(s) < upload[s].total
         /\ Tail(queue[s]) \in Seq(Chunk \cup {End})
         /\ Len(Tail(queue[s])) = Len(queue[s]) - 1
         /\ \A i \in 1 .. Len(Tail(queue[s])) : Tail(queue[s])[i] = queue[s][i + 1]
<1>1. queue[s] \in Seq(Chunk \cup {End}) /\ upload[s].total \in Chunk
  BY ChangedStream, UploadType
<1>2. Taken(s) \in 0 .. upload[s].total /\ Taken(s) \in Chunk
  BY <1>1, ChunkTypes DEF InOrder, Taken, Chunk, Nothing
<1>3. Len(queue[s]) \in Nat \ {0} /\ Head(queue[s]) = queue[s][1]
  BY <1>1, EmptySeq
<1>4. Head(queue[s]) = Item(s, Taken(s) + 1) /\ Taken(s) + 1 <= upload[s].total + 1
  BY <1>1, <1>2, <1>3 DEF InOrder, Chunk
<1>5. upload[s].total \in 0 .. MaxChunks /\ MaxChunks \in Nat
  BY <1>1, ChunkTypes DEF Chunk
<1>6. Head(queue[s]) = End <=> Taken(s) = upload[s].total
  BY <1>2, <1>4, <1>5 DEF Item, End
<1>7. Head(queue[s]) # End => Head(queue[s]) = Taken(s) + 1 /\ Taken(s) < upload[s].total
  BY <1>2, <1>4, <1>5, <1>6 DEF Item
<1>8. QED
  BY <1>1, <1>2, <1>4, <1>6, <1>7, HeadTailProperties

\* The frame made of the pending chunk.
NextFrames(s, final) ==
  Append(upload[s].frames, FrameOf(s, Len(upload[s].frames), final, Taken(s)))

LEMMA NextFramesType ==
  ASSUME TypeOK, NEW s \in Streams, InOrder(s), Taken(s) \in Chunk, NEW final \in BOOLEAN
  PROVE  /\ NextFrames(s, final) \in Seq(Frame)
         /\ Len(NextFrames(s, final)) = Len(upload[s].frames) + 1
         /\ \A i \in 1 .. Len(upload[s].frames) :
              NextFrames(s, final)[i] = upload[s].frames[i]
         /\ NextFrames(s, final)[Len(upload[s].frames) + 1]
              = FrameOf(s, Len(upload[s].frames), final, Taken(s))
         /\ Len(upload[s].frames) \in Nat
<1>1. upload[s].frames \in Seq(Frame) /\ Len(upload[s].frames) \in Nat
  BY UploadType, LenProperties
<1>2. FrameOf(s, Len(upload[s].frames), final, Taken(s)) \in Frame
  BY <1>1 DEF FrameOf, Frame
<1>3. QED
  BY <1>1, <1>2, AppendProperties DEF NextFrames

\* With the last chunk the frames are those of the plaintext.
LEMMA LastFrameCompletes ==
  ASSUME TypeOK, NEW s \in Streams, InOrder(s), Taken(s) = upload[s].total
  PROVE  NextFrames(s, TRUE) = FramesOf(s)
<1> DEFINE n == Len(Plaintext(s))
           f == NextFrames(s, TRUE)
           g == FramesOf(s)
<1>1. upload[s].total \in Nat /\ Taken(s) \in Chunk
  BY UploadType, ChunkTypes DEF Chunk
<1>2. /\ n = IF upload[s].total = 0 THEN 1 ELSE upload[s].total
      /\ \A i \in 1 .. n : Plaintext(s)[i] = IF upload[s].total = 0 THEN 0 ELSE i
  BY PlaintextType
<1>3. /\ f \in Seq(Frame) /\ Len(f) = Len(upload[s].frames) + 1
      /\ \A i \in 1 .. Len(upload[s].frames) : f[i] = upload[s].frames[i]
      /\ f[Len(upload[s].frames) + 1] = FrameOf(s, Len(upload[s].frames), TRUE, Taken(s))
  BY <1>1, NextFramesType
<1>4. /\ g \in Seq(Frame) /\ Len(g) = n
      /\ \A i \in 1 .. n : g[i] = FrameOf(s, i - 1, i = n, Plaintext(s)[i])
  BY FramesOfType
<1>5. Len(upload[s].frames) = n - 1
  BY <1>1, <1>2 DEF InOrder
<1>6. \A i \in 1 .. n - 1 : upload[s].frames[i] = FrameOf(s, i - 1, FALSE, i)
  BY <1>5 DEF InOrder
<1> HIDE DEF f, g, n
<1>7. ASSUME NEW i \in 1 .. n PROVE f[i] = g[i]
  <2>0. n \in Nat \ {0}
    BY <1>1, <1>2
  <2>1. CASE i = n
    <3>1. Plaintext(s)[n] = upload[s].total
      BY <1>2, <2>0
    <3>2. f[n] = FrameOf(s, n - 1, TRUE, upload[s].total)
      <4>1. Len(upload[s].frames) + 1 = n
        BY <1>5, <2>0
      <4>2. f[n] = FrameOf(s, Len(upload[s].frames), TRUE, Taken(s))
        BY <1>3, <4>1
      <4>3. QED
        BY <1>5, <4>2, Zenon
    <3>3. g[n] = FrameOf(s, n - 1, TRUE, upload[s].total)
      <4>1. g[n] = FrameOf(s, n - 1, n = n, Plaintext(s)[n])
        BY <1>4, <2>0
      <4>2. (n = n) = TRUE
        OBVIOUS
      <4>3. QED
        BY <3>1, <4>1, <4>2, Zenon
    <3>4. QED
      BY <2>1, <3>2, <3>3
  <2>2. CASE i # n
    <3>1. i \in 1 .. n - 1 /\ upload[s].total # 0
      BY <1>1, <1>2, <2>0, <2>2
    <3>2. f[i] = FrameOf(s, i - 1, FALSE, i)
      BY <1>3, <1>5, <1>6, <3>1
    <3>3. Plaintext(s)[i] = i
      BY <1>2, <3>1
    <3>4. g[i] = FrameOf(s, i - 1, FALSE, i)
      BY <1>4, <2>2, <3>3 DEF FrameOf
    <3>5. QED
      BY <3>2, <3>4
  <2>3. QED
    BY <2>1, <2>2
<1>8. Len(f) = n
  BY <1>1, <1>2, <1>3, <1>5
<1>9. f = g
  <2>1. f \in Seq(Frame) /\ g \in Seq(Frame)
    BY <1>3, <1>4
  <2>2. Len(f) = Len(g) /\ \A i \in 1 .. Len(f) : f[i] = g[i]
    BY <1>4, <1>7, <1>8
  <2>3. QED
    BY <2>1, <2>2, SeqEqual
<1>10. QED
  BY <1>9 DEF f, g

\* What one turn of encrypt_stream's loop does.
LEMMA EncryptNextEffect ==
  ASSUME TypeOK, NEW s \in Streams, InOrder(s), EncryptNext(s)
  PROVE  /\ queue' = [queue EXCEPT ![s] = Tail(queue[s])]
         /\ \/ /\ Taken(s) = upload[s].total
               /\ upload' = [upload EXCEPT ![s].pc = "framed", ![s].pending = Nothing,
                                           ![s].frames = <<>>]
               /\ stored' = [stored EXCEPT ![s] = FramesOf(s)]
               /\ leftover' = leftover \ {s}
            \/ /\ Taken(s) < upload[s].total
               /\ upload' = [upload EXCEPT ![s].pending = Taken(s) + 1,
                    ![s].frames = IF Taken(s) = 0 THEN upload[s].frames
                                                  ELSE NextFrames(s, FALSE)]
               /\ UNCHANGED <<stored, leftover>>
<1> USE DEF disk
<1>1. queue[s] # <<>>
  BY DEF EncryptNext
<1>2. (IF Pending(s) = Nothing THEN 0 ELSE Pending(s)) = Taken(s)
  BY DEF Taken
<1>3. Pending(s) = Nothing <=> Taken(s) = 0
  BY UploadType, ChunkTypes DEF InOrder, Taken, Nothing
<1>4. CASE Head(queue[s]) = End
  <2>1. /\ upload' = [upload EXCEPT ![s].pc = "framed", ![s].pending = Nothing,
                                   ![s].frames = <<>>]
        /\ Keep(s, NextFrames(s, TRUE))
        /\ queue' = [queue EXCEPT ![s] = Tail(queue[s])]
    BY <1>2, <1>4 DEF EncryptNext, NextFrames
  <2>2. Taken(s) = upload[s].total
    BY <1>1, <1>4, HeadIsNextItem
  <2>3. NextFrames(s, TRUE) = FramesOf(s)
    BY <2>2, LastFrameCompletes
  <2>4. QED
    BY <2>1, <2>2, <2>3 DEF Keep
<1>5. CASE Head(queue[s]) # End
  <2>1. /\ upload' = [upload EXCEPT ![s].pending = Head(queue[s]),
              ![s].frames = IF Pending(s) = Nothing THEN upload[s].frames
                                                    ELSE NextFrames(s, FALSE)]
        /\ UNCHANGED <<stored, leftover>>
        /\ queue' = [queue EXCEPT ![s] = Tail(queue[s])]
    BY <1>2, <1>5 DEF EncryptNext, NextFrames
  <2>2. Head(queue[s]) = Taken(s) + 1 /\ Taken(s) < upload[s].total
    BY <1>1, <1>5, HeadIsNextItem
  <2>3. QED
    BY <1>3, <2>1, <2>2
<1>6. QED
  BY <1>4, <1>5

\* The step of the loop of encrypt_stream.
LEMMA EncryptNextType ==
  ASSUME TypeOK, UploadsInOrder, NEW s \in Streams, EncryptNext(s)
  PROVE  TypeOK'
<1>0. InOrder(s) /\ upload[s] \in Upload /\ queue[s] # <<>>
  BY UploadType DEF UploadsInOrder, UploadInOrder, EncryptNext
<1>1. /\ Taken(s) \in Chunk /\ upload[s].total \in Chunk
      /\ Tail(queue[s]) \in Seq(Chunk \cup {End})
      /\ Len(Tail(queue[s])) = Len(queue[s]) - 1
      /\ Len(queue[s]) \in Nat
  BY <1>0, HeadIsNextItem, UploadType, ChangedStream, LenProperties
<1>2. queue' = [queue EXCEPT ![s] = Tail(queue[s])]
  BY <1>0, EncryptNextEffect
<1>3. queue' \in [Streams -> Seq(Chunk \cup {End})]
  BY <1>1, <1>2, ChangedStream
<1>4. /\ upload' \in [Streams -> Upload] /\ \A u \in Streams : upload'[u].route = upload[u].route
      /\ stored' \in [Streams -> Seq(Frame) \cup {Absent}]
      /\ leftover' \in SUBSET Streams
  <2>1. CASE Taken(s) = upload[s].total
    <3>1. /\ upload' = [upload EXCEPT ![s].pc = "framed", ![s].pending = Nothing,
                                      ![s].frames = <<>>]
          /\ stored' = [stored EXCEPT ![s] = FramesOf(s)]
          /\ leftover' = leftover \ {s}
      <4>1. ~(Taken(s) < upload[s].total)
        BY <1>1, <2>1 DEF Chunk
      <4>2. QED
        BY <1>0, <4>1, EncryptNextEffect
    <3>2. [upload[s] EXCEPT !.pc = "framed", !.pending = Nothing, !.frames = <<>>] \in Upload
      BY <1>0, RestingTypes DEF Upload, UploadState
    <3>3. FramesOf(s) \in Seq(Frame)
      BY FramesOfType
    <3>4. upload' \in [Streams -> Upload]
      BY <3>1, <3>2 DEF TypeOK
    <3>5. \A u \in Streams : upload'[u].route = upload[u].route
      BY <1>0, <3>1 DEF Upload, TypeOK
    <3>6. stored' \in [Streams -> Seq(Frame) \cup {Absent}]
      BY <3>1, <3>3, ChangedStream
    <3>7. QED
      BY <3>1, <3>4, <3>5, <3>6 DEF TypeOK
  <2>2. CASE Taken(s) # upload[s].total
    <3> DEFINE frames == IF Taken(s) = 0 THEN upload[s].frames ELSE NextFrames(s, FALSE)
    <3>1. /\ upload' = [upload EXCEPT ![s].pending = Taken(s) + 1, ![s].frames = frames]
          /\ UNCHANGED <<stored, leftover>> /\ Taken(s) < upload[s].total
      BY <1>0, <2>2, EncryptNextEffect
    <3>2. frames \in Seq(Frame)
      BY <1>0, <1>1, NextFramesType, UploadType
    <3>3. Taken(s) + 1 \in Chunk
      BY <1>1, <3>1, ChunkTypes DEF Chunk
    <3> HIDE DEF frames
    <3>4. [upload[s] EXCEPT !.pending = Taken(s) + 1, !.frames = frames] \in Upload
      BY <1>0, <3>2, <3>3 DEF Upload
    <3>5. upload' \in [Streams -> Upload]
      BY <3>1, <3>4 DEF TypeOK
    <3>6. \A u \in Streams : upload'[u].route = upload[u].route
      BY <1>0, <3>1 DEF Upload, TypeOK
    <3>7. QED
      BY <3>1, <3>5, <3>6 DEF TypeOK
  <2>3. QED
    BY <2>1, <2>2
<1>5. ASSUME NEW u \in Streams, upload'[u].route = "request"
      PROVE  Len(queue'[u]) <= QueueSize
  <2>1. Len(queue[u]) <= QueueSize /\ QueueSize \in Nat
    BY <1>4, <1>5, BoundsAssumption DEF TypeOK
  <2>2. CASE u = s
    <3>1. queue'[u] = Tail(queue[s])
      BY <1>2, <2>2 DEF TypeOK
    <3>2. QED
      BY <1>1, <2>1, <2>2, <3>1
  <2>3. CASE u # s
    BY <1>2, <2>1, <2>3 DEF TypeOK
  <2>4. QED
    BY <2>2, <2>3
<1>6. UNCHANGED <<pump, subject, download, lock, loop, damage, hurt, crashed>>
  BY DEF EncryptNext, history
<1>7. QED
  BY <1>3, <1>4, <1>5, <1>6 DEF TypeOK

\* The other steps of an upload change its state and its lock, and may empty its
\* queue, its place and its temporary file.
LEMMA PlainUploadStepType ==
  ASSUME TypeOK, NEW s \in Streams,
         upload' \in [Streams -> Upload], pump' \in [Streams -> Pump],
         queue' \in [Streams -> Seq(Chunk \cup {End})],
         \A u \in Streams : upload'[u].route = "request" => Len(queue'[u]) <= QueueSize,
         stored' \in [Streams -> Seq(Frame) \cup {Absent}],
         leftover' \in SUBSET Streams,
         subject' \in [Streams -> {"new", "usable", "gone"}],
         lock' \in Streams \cup Readers \cup {NoOne},
         UNCHANGED <<download, loop, damage, hurt, crashed>>
  PROVE  TypeOK'
BY DEF TypeOK

LEMMA MovedUpload ==
  ASSUME TypeOK, NEW s \in Streams, NEW pc \in UploadState,
         upload' = [upload EXCEPT ![s].pc = pc]
  PROVE  /\ upload' \in [Streams -> Upload]
         /\ \A u \in Streams : upload'[u].route = upload[u].route
<1>1. upload[s] \in Upload /\ upload \in [Streams -> Upload]
  BY UploadType DEF TypeOK
<1>2. [upload[s] EXCEPT !.pc = pc] \in Upload
  BY <1>1 DEF Upload
<1>3. QED
  BY <1>1, <1>2 DEF Upload

LEMMA ReleasedType ==
  ASSUME TypeOK, NEW holder
  PROVE  Released(holder) \in Streams \cup Readers \cup {NoOne}
BY DEF TypeOK, Released

LEMMA UploadStepType ==
  ASSUME TypeOK, UploadsInOrder, NEW s \in Streams, UploadStep(s)
  PROVE  TypeOK'
<1> USE DEF disk, history
<1>0. /\ upload \in [Streams -> Upload] /\ pump \in [Streams -> Pump]
      /\ queue \in [Streams -> Seq(Chunk \cup {End})]
      /\ \A u \in Streams : upload[u].route = "request" => Len(queue[u]) <= QueueSize
      /\ stored \in [Streams -> Seq(Frame) \cup {Absent}]
      /\ leftover \in SUBSET Streams
      /\ subject \in [Streams -> {"new", "usable", "gone"}]
      /\ lock \in Streams \cup Readers \cup {NoOne}
  BY DEF TypeOK
<1>1. CASE OpenStream(s)
  <2>1. upload' \in [Streams -> Upload]
        /\ \A u \in Streams : upload'[u].route = upload[u].route
    BY <1>1, MovedUpload DEF OpenStream, UploadState
  <2>2. leftover' \in SUBSET Streams /\ lock' \in Streams \cup Readers \cup {NoOne}
    BY <1>0, <1>1 DEF OpenStream, Temporary
  <2>3. UNCHANGED <<pump, queue, stored, subject, download, loop, damage, hurt, crashed>>
    BY <1>1 DEF OpenStream
  <2>4. QED
    BY <1>0, <2>1, <2>2, <2>3, PlainUploadStepType
<1>2. CASE EncryptNext(s)
  BY <1>2, EncryptNextType
<1>3. CASE FlushRows(s)
  <2>1. upload' \in [Streams -> Upload]
        /\ \A u \in Streams : upload'[u].route = upload[u].route
    BY <1>3, MovedUpload DEF FlushRows, UploadState
  <2>2. /\ UNCHANGED <<pump, queue, stored, leftover, subject, download, loop, damage,
                      hurt, crashed>>
        /\ lock' = s
    BY <1>3 DEF FlushRows
  <2>3. QED
    BY <1>0, <2>1, <2>2, PlainUploadStepType
<1>4. CASE CommitUpload(s)
  <2>1. upload' \in [Streams -> Upload]
        /\ \A u \in Streams : upload'[u].route = upload[u].route
    BY <1>4, MovedUpload DEF CommitUpload, UploadState
  <2>2. subject' \in [Streams -> {"new", "usable", "gone"}] /\ lock' = NoOne
    BY <1>0, <1>4 DEF CommitUpload
  <2>3. pump' \in [Streams -> Pump]
    BY <1>4, RestingTypes, ChangedStream DEF CommitUpload
  <2>4. UNCHANGED <<queue, stored, leftover, download, loop, damage, hurt, crashed>>
    BY <1>4 DEF CommitUpload
  <2>5. QED
    BY <1>0, <2>1, <2>2, <2>3, <2>4, PlainUploadStepType
<1>5. CASE FailUpload(s)
  <2>1. Failed(s) \in Upload
    <3>1. NoUpload("failed") \in Upload
      BY RestingTypes DEF UploadState
    <3>2. upload[s] \in Upload
      BY <1>0
    <3>3. [upload[s] EXCEPT !.pc = "failing", !.pending = Nothing, !.frames = <<>>] \in Upload
      BY <3>2, RestingTypes DEF Upload, UploadState
    <3>4. QED
      BY <3>1, <3>3 DEF Failed
  <2>2. upload' = [upload EXCEPT ![s] = Failed(s)]
    BY <1>5 DEF FailUpload
  <2>3. upload' \in [Streams -> Upload]
    BY <1>0, <2>1, <2>2
  <2>4. \A u \in Streams : upload'[u].route = "request" => upload[u].route = "request"
    <3>1. Failed(s).route = "request" => upload[s].route = "request"
      BY <1>0 DEF Failed, NoUpload, Route, Upload
    <3>2. QED
      BY <1>0, <2>2, <3>1
  <2> DEFINE q == IF upload[s].route = "file" THEN <<>>
                  ELSE IF upload[s].pc = "reading" THEN Tail(queue[s]) ELSE queue[s]
  <2>5. /\ queue' = [queue EXCEPT ![s] = q]
        /\ q \in Seq(Chunk \cup {End})
        /\ Len(q) <= Len(queue[s]) /\ Len(q) \in Nat /\ Len(queue[s]) \in Nat
    <3>1. queue[s] \in Seq(Chunk \cup {End}) /\ Len(queue[s]) \in Nat
      BY <1>0, LenProperties
    <3>2. upload[s].pc = "reading" => queue[s] # <<>>
      BY <1>5 DEF FailUpload, MayFail
    <3>3. queue[s] # <<>> => /\ Tail(queue[s]) \in Seq(Chunk \cup {End})
                            /\ Len(Tail(queue[s])) = Len(queue[s]) - 1
                            /\ Len(queue[s]) # 0
      BY <3>1, HeadTailProperties, EmptySeq
    <3>4. queue' = [queue EXCEPT ![s] = q]
      BY <1>5 DEF FailUpload, QueueAfterFailure
    <3>5. CASE upload[s].route = "file"
      <4>1. q = <<>> /\ Len(<<>>) = 0 /\ <<>> \in Seq(Chunk \cup {End})
        BY <3>5, EmptySeq
      <4> HIDE DEF q
      <4>2. QED
        BY <3>1, <3>4, <4>1
    <3>6. CASE upload[s].route # "file" /\ upload[s].pc = "reading"
      <4>1. q = Tail(queue[s]) /\ queue[s] # <<>>
        BY <3>2, <3>6
      <4> HIDE DEF q
      <4>2. QED
        BY <3>1, <3>3, <3>4, <4>1
    <3>7. CASE upload[s].route # "file" /\ upload[s].pc # "reading"
      <4>1. q = queue[s]
        BY <3>7
      <4> HIDE DEF q
      <4>2. QED
        BY <3>1, <3>4, <4>1
    <3>8. QED
      BY <3>5, <3>6, <3>7
  <2> HIDE DEF q
  <2>6. queue' \in [Streams -> Seq(Chunk \cup {End})]
    BY <2>5, ChangedStream
  <2>7. \A u \in Streams : upload'[u].route = "request" => Len(queue'[u]) <= QueueSize
    BY <1>0, <2>4, <2>5, BoundsAssumption
  <2>8. stored' \in [Streams -> Seq(Frame) \cup {Absent}]
    BY <1>5, ChangedStream DEF FailUpload, Cleaned
  <2>9. lock' \in Streams \cup Readers \cup {NoOne} /\ leftover' \in SUBSET Streams
    BY <1>0, <1>5, ReleasedType DEF FailUpload
  <2>10. UNCHANGED <<pump, subject, download, loop, damage, hurt, crashed>>
    BY <1>5 DEF FailUpload
  <2>11. QED
    BY <1>0, <2>3, <2>6, <2>7, <2>8, <2>9, <2>10, PlainUploadStepType
<1>6. CASE EndFailed(s)
  <2>1. /\ upload' = [upload EXCEPT ![s] = NoUpload("failed")]
        /\ pump' = [pump EXCEPT ![s] = NoPump]
        /\ queue' = [queue EXCEPT ![s] = <<>>]
        /\ lock' = Released(s)
        /\ UNCHANGED <<stored, leftover, subject, download, loop, damage, hurt, crashed>>
    BY <1>6 DEF EndFailed
  <2>2. upload' \in [Streams -> Upload] /\ pump' \in [Streams -> Pump]
        /\ queue' \in [Streams -> Seq(Chunk \cup {End})]
    BY <2>1, RestingTypes, ChangedStream DEF UploadState
  <2>3. \A u \in Streams : upload'[u].route = "request" => Len(queue'[u]) <= QueueSize
    BY <1>0, <2>1 DEF NoUpload
  <2>4. QED
    BY <1>0, <2>1, <2>2, <2>3, ReleasedType, PlainUploadStepType
<1>7. QED
  BY <1>1, <1>2, <1>3, <1>4, <1>5, <1>6 DEF UploadStep

LEMMA ClosedType ==
  ASSUME TypeOK, NEW r \in Readers, NEW last \in Download, Close(r, last),
         UNCHANGED <<upload, pump, queue, disk, subject, loop, history>>
  PROVE  TypeOK'
<1>1. download' \in [Readers -> Download] /\ lock' \in Streams \cup Readers \cup {NoOne}
  BY ChangedDownload, ReleasedType DEF Close
<1>2. QED
  BY <1>1 DEF TypeOK, disk, history

\* The frame that a reader takes next.
LEMMA ReadFrameType ==
  ASSUME TypeOK, DownloadsInOrder, NEW r \in Readers, download[r].pc = "reading",
         Len(download[r].out) < Len(stored[Source(r)])
  PROVE  /\ Source(r) \in Streams /\ upload[Source(r)].pc = "committed"
         /\ stored[Source(r)] # Absent /\ stored[Source(r)] \in Seq(Frame)
         /\ download[r].out \in Seq(Chunk) /\ Len(download[r].out) \in Nat
         /\ Len(download[r].out) + 1 \in 1 .. Len(stored[Source(r)])
         /\ stored[Source(r)][Len(download[r].out) + 1] \in Frame
<1>1. /\ Source(r) \in Streams /\ upload[Source(r)].pc = "committed"
      /\ stored[Source(r)] # Absent
  BY DEF DownloadsInOrder, DownloadInOrder
<1>2. stored[Source(r)] \in Seq(Frame)
  BY <1>1 DEF TypeOK
<1>3. download[r].out \in Seq(Chunk)
  BY DEF TypeOK, Download
<1>4. Len(download[r].out) \in Nat /\ Len(stored[Source(r)]) \in Nat
  BY <1>2, <1>3, LenProperties
<1>5. Len(download[r].out) + 1 \in 1 .. Len(stored[Source(r)])
  BY <1>4
<1>6. QED
  BY <1>1, <1>2, <1>3, <1>4, <1>5, ElementOfSeq

LEMMA DownloadStepType ==
  ASSUME TypeOK, DownloadsInOrder, NEW r \in Readers,
         DownloadStep(r) \/ \E s \in Streams : OpenDownload(r, s)
  PROVE  TypeOK'
<1> USE DEF disk, history
<1>0. download[r] \in Download /\ Broken \in Download /\ download \in [Readers -> Download]
  BY RestingTypes DEF TypeOK
<1>1. ASSUME NEW s \in Streams, OpenDownload(r, s) PROVE TypeOK'
  <2>1. [download[r] EXCEPT !.stream = s, !.pc = AfterOpening(s)] \in Download
    BY <1>0 DEF Download, AfterOpening
  <2>2. download' \in [Readers -> Download]
    BY <1>0, <1>1, <2>1 DEF OpenDownload
  <2>3. QED
    BY <1>1, <2>2 DEF OpenDownload, TypeOK
<1>2. CASE CommitDownload(r)
  <2>1. [download[r] EXCEPT !.pc = "streaming", !.audited = TRUE] \in Download
    BY <1>0 DEF Download
  <2>2. download' \in [Readers -> Download]
    BY <1>0, <1>2, <2>1 DEF CommitDownload
  <2>3. QED
    BY <1>2, <2>2 DEF CommitDownload, TypeOK
<1>3. CASE OpenSource(r)
  <2>1. CASE stored[Source(r)] = Absent
    BY <1>0, <1>3, <2>1, ClosedType DEF OpenSource
  <2>2. CASE stored[Source(r)] # Absent
    <3>1. Source(r) \in Streams
      BY <1>3 DEF OpenSource, DownloadsInOrder, DownloadInOrder
    <3>2. Len(stored[Source(r)]) \in Nat
      BY <2>2, <3>1, LenProperties DEF TypeOK
    <3>3. [download[r] EXCEPT !.pc = "reading", !.total = Len(stored[Source(r)])] \in Download
      BY <1>0, <3>2 DEF Download
    <3>4. download' \in [Readers -> Download]
      BY <1>0, <1>3, <2>2, <3>3 DEF OpenSource
    <3>5. QED
      BY <1>3, <2>2, <3>4 DEF OpenSource, TypeOK
  <2>3. QED
    BY <2>1, <2>2
<1>4. CASE ReadFrame(r)
  <2> DEFINE i == Len(download[r].out)
             ok == /\ i < Len(stored[Source(r)])
                   /\ Verifies(Source(r), stored[Source(r)][i + 1], i,
                               i + 1 >= download[r].total)
  <2>1. CASE ~ok
    BY <1>0, <1>4, <2>1, ClosedType DEF ReadFrame
  <2>2. CASE ok
    <3> DEFINE chunk == stored[Source(r)][i + 1].chunk
    <3>1. download[r].out \in Seq(Chunk) /\ chunk \in Chunk
      BY <1>4, <2>2, ReadFrameType DEF ReadFrame, Frame
    <3>2. /\ download' = [download EXCEPT ![r].out = Append(download[r].out, chunk)]
          /\ UNCHANGED <<upload, pump, queue, disk, subject, loop, history, lock>>
      BY <1>4, <2>2 DEF ReadFrame
    <3> HIDE DEF chunk
    <3>3. Append(download[r].out, chunk) \in Seq(Chunk)
      BY <3>1, AppendProperties
    <3>4. [download[r] EXCEPT !.out = Append(download[r].out, chunk)] \in Download
      BY <1>0, <3>3 DEF Download
    <3>5. download' \in [Readers -> Download]
      BY <1>0, <3>2, <3>4
    <3>6. QED
      BY <3>2, <3>5 DEF TypeOK
  <2>3. QED
    BY <2>1, <2>2
<1>5. CASE EndDownload(r)
  <2>1. [download[r] EXCEPT !.pc = "ended", !.total = 0, !.audited = TRUE] \in Download
    BY <1>0 DEF Download
  <2>2. QED
    BY <1>5, <2>1, ClosedType DEF EndDownload
<1>6. CASE LeaveDownload(r)
  BY <1>0, <1>6, ClosedType DEF LeaveDownload
<1>7. QED
  BY <1>1, <1>2, <1>3, <1>4, <1>5, <1>6 DEF DownloadStep

\* Damaged ciphertext is made of frames that are stored somewhere, or of one that
\* names no stream; only a blob that nobody has open goes missing.
LEMMA DamagedCopy ==
  ASSUME TypeOK, NEW s \in Streams, stored[s] # Absent, NEW copy \in Damages(s)
  PROVE  \/ /\ copy \in Seq(Frame)
            /\ \A i \in 1 .. Len(copy) :
                 \/ copy[i] = DamagedFrame
                 \/ \E t \in Streams : /\ stored[t] # Absent
                                       /\ \E j \in 1 .. Len(stored[t]) : copy[i] = stored[t][j]
         \/ /\ copy = Absent
            /\ \A r \in Readers : download[r].pc = "reading" => Source(r) # s
<1> DEFINE old == stored[s]
           Known(f) == \/ f = DamagedFrame
                       \/ \E t \in Streams : /\ stored[t] # Absent
                                             /\ \E j \in 1 .. Len(stored[t]) : f = stored[t][j]
           Good(c) == c \in Seq(Frame) /\ \A i \in 1 .. Len(c) : Known(c[i])
<1>1. old \in Seq(Frame) /\ Len(old) \in Nat /\ DOMAIN old = 1 .. Len(old)
  BY LenProperties DEF TypeOK
<1>2. \A i \in 1 .. Len(old) : Known(old[i])
  OBVIOUS
<1>3. DamagedFrame \in Frame
  BY ChunkTypes DEF DamagedFrame, Frame
<1>4. \A f \in Found : f \in Frame /\ Known(f)
  <2> SUFFICES ASSUME NEW t \in Streams, stored[t] # Absent, NEW i \in DOMAIN stored[t]
               PROVE  stored[t][i] \in Frame /\ Known(stored[t][i])
    BY <1>3 DEF Found
  <2>1. stored[t] \in Seq(Frame) /\ DOMAIN stored[t] = 1 .. Len(stored[t])
    BY LenProperties DEF TypeOK
  <2>2. QED
    BY <2>1, ElementOfSeq
<1>5. ASSUME NEW n \in 0 .. Len(old) - 1 PROVE Good(SubSeq(old, 1, n))
  <2>1. \A i \in 1 .. n : old[i] \in Frame
    BY <1>1, ElementOfSeq
  <2>2. /\ SubSeq(old, 1, n) \in Seq(Frame) /\ Len(SubSeq(old, 1, n)) = n
        /\ \A i \in 1 .. n : SubSeq(old, 1, n)[i] = old[i]
    BY <1>1, <2>1
  <2>3. QED
    BY <1>1, <1>2, <2>2
<1>6. ASSUME NEW i \in DOMAIN old, NEW f \in Found PROVE Good([old EXCEPT ![i] = f])
  <2> DEFINE new == [old EXCEPT ![i] = f]
  <2>1. f \in Frame /\ Known(f) /\ i \in 1 .. Len(old)
    BY <1>1, <1>4
  <2> HIDE DEF Known
  <2>2. /\ new \in Seq(Frame) /\ Len(new) = Len(old)
        /\ \A j \in 1 .. Len(old) : new[j] = IF j = i THEN f ELSE old[j]
    BY <1>1, <2>1, ExceptSeq
  <2> HIDE DEF new
  <2>3. Good(new)
    BY <1>2, <2>1, <2>2
  <2>4. QED
    BY <2>3 DEF new
<1>7. ASSUME NEW i \in DOMAIN old, NEW j \in DOMAIN old
      PROVE  Good([old EXCEPT ![i] = old[j], ![j] = old[i]])
  BY <1>1, <1>2
<1>8. ASSUME NEW n \in 0 .. Len(old), NEW f \in Found
      PROVE  Good(Insert(old, n, f))
  <2> DEFINE a == SubSeq(old, 1, n)
             b == <<f>>
             c == SubSeq(old, n + 1, Len(old))
  <2>1. f \in Frame /\ Known(f)
    BY <1>4
  <2> HIDE DEF Known
  <2>2. Good(b)
    BY <2>1
  <2>3. \A i \in 1 .. Len(old) : old[i] \in Frame
    BY <1>1, ElementOfSeq
  <2>4. Good(a)
    <3>1. /\ a \in Seq(Frame) /\ Len(a) = n
          /\ \A i \in 1 .. n : a[i] = old[i]
      BY <1>1, <2>3
    <3> HIDE DEF a
    <3>2. QED
      BY <1>1, <1>2, <3>1
  <2>5. Good(c)
    <3>1. n + 1 \in Int /\ Len(old) \in Int /\ \A i \in n + 1 .. Len(old) : old[i] \in Frame
      BY <1>1, <2>3
    <3>2. /\ c \in Seq(Frame)
          /\ Len(c) = IF n + 1 <= Len(old) THEN Len(old) - (n + 1) + 1 ELSE 0
          /\ \A i \in 1 .. Len(old) - (n + 1) + 1 : c[i] = old[n + 1 + i - 1]
      BY <3>1, SubSeqProperties
    <3> HIDE DEF c
    <3>3. QED
      BY <1>1, <1>2, <3>2
  <2>6. ASSUME NEW x, NEW y, Good(x), Good(y) PROVE Good(x \o y)
    <3>1. /\ x \o y \in Seq(Frame) /\ Len(x \o y) = Len(x) + Len(y)
          /\ \A i \in 1 .. Len(x) + Len(y) :
               (x \o y)[i] = IF i <= Len(x) THEN x[i] ELSE y[i - Len(x)]
      BY <2>6, ConcatProperties
    <3>2. Len(x) \in Nat /\ Len(y) \in Nat
      BY <2>6, LenProperties
    <3>3. ASSUME NEW i \in 1 .. Len(x) + Len(y) PROVE Known((x \o y)[i])
      <4>1. CASE i <= Len(x)
        BY <2>6, <3>1, <3>2, <4>1
      <4>2. CASE ~(i <= Len(x))
        <5>1. i - Len(x) \in 1 .. Len(y) /\ (x \o y)[i] = y[i - Len(x)]
          BY <3>1, <3>2, <4>2
        <5>2. QED
          BY <2>6, <5>1
      <4>3. QED
        BY <4>1, <4>2
    <3>4. QED
      BY <3>1, <3>3
  <2> HIDE DEF a, b, c, Good
  <2>7. Good(a \o b \o c)
    BY <2>2, <2>4, <2>5, <2>6
  <2>8. QED
    BY <2>7 DEF a, b, c, Insert
<1>9. ASSUME copy \in Cut(old) \cup Replaced(old) \cup Exchanged(old) \cup Added(old)
      PROVE  Good(copy)
  <2> HIDE DEF Good, old
  <2>1. copy \in Cut(old) => Good(copy)
    BY <1>5 DEF Cut
  <2>2. copy \in Replaced(old) => Good(copy)
    BY <1>6 DEF Replaced
  <2>3. copy \in Exchanged(old) => Good(copy)
    BY <1>7 DEF Exchanged
  <2>4. copy \in Added(old) => Good(copy)
    BY <1>8 DEF Added
  <2>5. QED
    BY <1>9, <2>1, <2>2, <2>3, <2>4
<1>10. CASE copy \in Missing(s)
  BY <1>10 DEF Missing
<1>11. QED
  BY <1>9, <1>10 DEF Damages

LEMMA DamageType ==
  ASSUME TypeOK, NEW s \in Streams, Damage(s)
  PROVE  TypeOK'
<1>1. PICK copy \in Damages(s) : stored' = [stored EXCEPT ![s] = copy]
  BY DEF Damage
<1>2. copy \in Seq(Frame) \cup {Absent}
  BY DamagedCopy DEF Damage
<1>3. stored' \in [Streams -> Seq(Frame) \cup {Absent}]
  BY <1>1, <1>2, ChangedStream
<1>4. damage' \in 0 .. MaxDamage /\ hurt' \in SUBSET Streams
  BY BoundsAssumption DEF Damage, TypeOK
<1>5. QED
  BY <1>3, <1>4 DEF Damage, TypeOK

LEMMA CrashType ==
  ASSUME TypeOK, Crash
  PROVE  TypeOK'
<1>1. /\ upload \in [Streams -> Upload] /\ stored \in [Streams -> Seq(Frame) \cup {Absent}]
      /\ download \in [Readers -> Download]
  BY DEF TypeOK
<1>2. /\ NoUpload("failed") \in Upload /\ NoPump \in Pump /\ Broken \in Download
      /\ <<>> \in Seq(Chunk \cup {End}) /\ Len(<<>>) = 0
  BY RestingTypes DEF UploadState
<1>3. upload' \in [Streams -> Upload] /\ download' \in [Readers -> Download]
  BY <1>1, <1>2 DEF Crash
<1>4. stored' \in [Streams -> Seq(Frame) \cup {Absent}]
  BY <1>1 DEF Crash
<1>5. pump' \in [Streams -> Pump] /\ queue' \in [Streams -> Seq(Chunk \cup {End})]
  BY <1>2 DEF Crash
<1>6. \A s \in Streams : upload'[s].route = "request" => Len(queue'[s]) <= QueueSize
  BY <1>2, BoundsAssumption DEF Crash
<1>7. QED
  BY <1>3, <1>4, <1>5, <1>6 DEF Crash, TypeOK

LEMMA NextTypeOK ==
  ASSUME TypeOK, UploadsInOrder, DownloadsInOrder, [Next]_vars
  PROVE  TypeOK'
<1>1. ASSUME NEW s \in Streams, NEW total \in Sizes,
             StartRequest(s, total) \/ StartFile(s, total)
      PROVE  TypeOK'
  BY <1>1, StartType
<1>2. ASSUME NEW s \in Streams, PumpStep(s) PROVE TypeOK'
  BY <1>2, PumpStepType
<1>3. ASSUME NEW s \in Streams, UploadStep(s) PROVE TypeOK'
  BY <1>3, UploadStepType
<1>4. ASSUME NEW r \in Readers, DownloadStep(r) \/ \E s \in Streams : OpenDownload(r, s)
      PROVE  TypeOK'
  BY <1>4, DownloadStepType
<1>5. ASSUME NEW s \in Streams, LoseKey(s) PROVE TypeOK'
  BY <1>5 DEF LoseKey, TypeOK, disk, history
<1>6. ASSUME NEW s \in Streams, Damage(s) PROVE TypeOK'
  BY <1>6, DamageType
<1>7. CASE Crash
  BY <1>7, CrashType
<1>8. CASE UNCHANGED vars
  BY <1>8 DEF TypeOK, vars
<1>9. QED
  BY <1>1, <1>2, <1>3, <1>4, <1>5, <1>6, <1>7, <1>8 DEF Next

(***************************************************************************)
(* Uploads stay in order.                                                  *)
(***************************************************************************)

\* The plaintext depends on the size of the body alone.
LEMMA SamePlaintext ==
  ASSUME NEW s, upload'[s].total = upload[s].total
  PROVE  Plaintext(s)' = Plaintext(s) /\ FramesOf(s)' = FramesOf(s)
<1>1. Plaintext(s)' = Plaintext(s)
  BY DEF Plaintext
<1>2. QED
  BY <1>1 DEF FramesOf

LEMMA OrderOfSameUpload ==
  ASSUME NEW s, InOrder(s), upload'[s] = upload[s], pump'[s] = pump[s], queue'[s] = queue[s]
  PROVE  InOrder(s)'
BY DEF InOrder, Taken, Item, Pending

LEMMA UntouchedUpload ==
  ASSUME NEW s \in Streams, UploadInOrder(s),
         upload'[s] = upload[s], pump'[s] = pump[s], queue'[s] = queue[s],
         stored'[s] = stored[s], s \in hurt' <=> s \in hurt
  PROVE  UploadInOrder(s)'
<1>1. FramesOf(s)' = FramesOf(s) /\ Pending(s)' = Pending(s)
  BY SamePlaintext DEF Pending
<1>2. InOrder(s) => InOrder(s)'
  BY OrderOfSameUpload
<1>3. QED
  BY <1>1, <1>2 DEF UploadInOrder

\* A step that touches one upload leaves the others as they are.
LEMMA OneUpload ==
  ASSUME UploadsInOrder, NEW s \in Streams, UploadInOrder(s)',
         \A u \in Streams \ {s} :
           /\ upload'[u] = upload[u] /\ pump'[u] = pump[u] /\ queue'[u] = queue[u]
           /\ stored'[u] = stored[u] /\ (u \in hurt' <=> u \in hurt)
  PROVE  UploadsInOrder'
<1>1. ASSUME NEW u \in Streams PROVE UploadInOrder(u)'
  <2>1. CASE u = s
    BY <2>1
  <2>2. CASE u # s
    <3>1. UploadInOrder(u)
      BY DEF UploadsInOrder
    <3>2. QED
      BY <2>2, <3>1, UntouchedUpload
  <2>3. QED
    BY <2>1, <2>2
<1>2. QED
  BY <1>1 DEF UploadsInOrder

LEMMA PumpStepInOrder ==
  ASSUME TypeOK, UploadsInOrder, NEW s \in Streams, PumpStep(s)
  PROVE  UploadsInOrder'
<1> USE DEF disk, history
<1>0. UploadInOrder(s)
  BY DEF UploadsInOrder
<1>1. CASE Put(s)
  <2>1. /\ queue[s] \in Seq(Chunk \cup {End}) /\ Len(queue[s]) \in Nat
        /\ pump[s] \in Pump /\ pump[s].sent \in Nat /\ upload[s].total \in Nat
        /\ queue \in [Streams -> Seq(Chunk \cup {End})] /\ pump \in [Streams -> Pump]
    BY ChangedStream, UploadType, ChunkTypes, LenProperties DEF TypeOK
  <2>2. /\ pump[s].state = "running" /\ upload[s].pc \in Running
        /\ UNCHANGED <<upload, stored, hurt>>
        /\ queue' = [queue EXCEPT ![s] = queue[s] \o Upcoming(s)]
        /\ pump' = IF pump[s].sent < upload[s].total
                     THEN [pump EXCEPT ![s].sent = pump[s].sent + 1]
                     ELSE [pump EXCEPT ![s].state = "done"]
    BY <1>0, <1>1 DEF Put, UploadInOrder
  <2>3. InOrder(s) => InOrder(s)'
    <3> SUFFICES ASSUME InOrder(s) PROVE InOrder(s)'
      OBVIOUS
    <3>1. /\ Taken(s) \in 0 .. upload[s].total /\ Taken(s)' = Taken(s)
          /\ \A n : Item(s, n)' = Item(s, n)
          /\ pump[s].sent = Taken(s) + Len(queue[s]) /\ pump[s].sent <= upload[s].total
      BY <2>1, <2>2 DEF InOrder, Taken, Item, Pending
    <3>2. Upcoming(s) = <<Item(s, pump[s].sent + 1)>>
      BY <2>1, <3>1 DEF Upcoming, Item
    <3> DEFINE item == Item(s, pump[s].sent + 1)
    <3>3. item \in Chunk \cup {End}
      <4>1. upload[s].total \in 0 .. MaxChunks /\ MaxChunks \in Nat
        BY UploadType, ChunkTypes DEF Chunk
      <4>2. QED
        BY <2>1, <4>1 DEF Item, Chunk
    <3> HIDE DEF item
    <3>4. /\ queue'[s] = queue[s] \o <<item>> /\ Len(queue'[s]) = Len(queue[s]) + 1
          /\ \A i \in 1 .. Len(queue[s]) : queue'[s][i] = queue[s][i]
          /\ queue'[s][Len(queue[s]) + 1] = item
      BY <2>1, <2>2, <3>2, <3>3 DEF item
    <3>5. \A i \in 1 .. Len(queue'[s]) : queue'[s][i] = Item(s, Taken(s) + i)
      <4> SUFFICES ASSUME NEW i \in 1 .. Len(queue'[s])
                   PROVE  queue'[s][i] = Item(s, Taken(s) + i)
        OBVIOUS
      <4>1. CASE i = Len(queue[s]) + 1
        <5>1. Taken(s) + i = pump[s].sent + 1
          BY <2>1, <3>1, <4>1
        <5>2. QED
          BY <3>4, <4>1, <5>1 DEF item
      <4>2. CASE i # Len(queue[s]) + 1
        <5>1. i \in 1 .. Len(queue[s])
          BY <2>1, <3>4, <4>2
        <5>2. QED
          BY <3>4, <5>1 DEF InOrder
      <4>3. QED
        BY <4>1, <4>2
    <3>6. pump'[s].state = "running" =>
            pump'[s].sent = pump[s].sent + 1 /\ pump'[s].sent <= upload[s].total
      BY <2>1, <2>2 DEF Pump
    <3>7. Pending(s)' = Pending(s) /\ upload'[s] = upload[s]
      BY <2>2 DEF Pending
    <3>8. \A i \in 1 .. Len(queue'[s]) : queue'[s][i] = Item(s, Taken(s) + i)'
      BY <3>1, <3>5, <3>7 DEF Item
    <3>9. /\ Pending(s)' \in 1 .. upload'[s].total \cup {Nothing}
          /\ Len(upload'[s].frames) = IF Taken(s)' = 0 THEN 0 ELSE Taken(s)' - 1
          /\ \A i \in 1 .. Len(upload'[s].frames) :
               upload'[s].frames[i] = FrameOf(s, i - 1, FALSE, i)
      BY <3>1, <3>7 DEF InOrder
    <3>10. Taken(s)' + Len(queue'[s]) <= upload'[s].total + 1
      <4>1. CASE pump[s].sent < upload[s].total
        BY <2>1, <3>1, <3>4, <3>7, <4>1
      <4>2. CASE ~(pump[s].sent < upload[s].total)
        BY <2>1, <3>1, <3>4, <3>7, <4>2
      <4>3. QED
        BY <4>1, <4>2
    <3>11. pump'[s].state = "running" =>
             pump'[s].sent = Taken(s)' + Len(queue'[s]) /\ pump'[s].sent <= upload'[s].total
      BY <2>1, <3>1, <3>4, <3>6, <3>7
    <3>12. QED
      BY <3>8, <3>9, <3>10, <3>11 DEF InOrder
  <2>4. FramesOf(s)' = FramesOf(s) /\ Pending(s)' = Pending(s)
    BY <2>2, SamePlaintext DEF Pending
  <2>5. UploadInOrder(s)'
    <3>1. upload[s].pc # "none"
      BY <2>2 DEF Running
    <3>2. upload'[s] = upload[s] /\ stored'[s] = stored[s] /\ hurt' = hurt
      BY <2>2
    <3>3. upload[s].route = "request"
      BY <1>0, <2>2 DEF UploadInOrder
    <3>4. QED
      BY <1>0, <2>2, <2>3, <2>4, <3>1, <3>2, <3>3 DEF UploadInOrder
  <2>6. QED
    BY <2>1, <2>2, <2>5, OneUpload
<1>2. CASE PutBlocks(s)
  BY <1>0, <1>2, UntouchedUpload, OneUpload DEF PutBlocks
<1>3. CASE Disconnect(s)
  <2>1. /\ pump' = [pump EXCEPT ![s].state = "gone"] /\ pump[s].state = "running"
        /\ UNCHANGED <<upload, queue, stored, hurt>> /\ pump \in [Streams -> Pump]
        /\ upload[s].pc \in Running
    BY <1>0, <1>3 DEF Disconnect, TypeOK, UploadInOrder
  <2>2. pump'[s].state = "gone"
    BY <2>1 DEF Pump
  <2>3. InOrder(s) => InOrder(s)'
    BY <2>1, <2>2 DEF InOrder, Taken, Item, Pending
  <2>4. FramesOf(s)' = FramesOf(s) /\ Pending(s)' = Pending(s)
    BY <2>1, SamePlaintext DEF Pending
  <2>5. UploadInOrder(s)'
    BY <1>0, <2>1, <2>2, <2>3, <2>4 DEF UploadInOrder, Running
  <2>6. QED
    BY <2>1, <2>5, OneUpload
<1>4. QED
  BY <1>1, <1>2, <1>3 DEF PumpStep

LEMMA StartInOrder ==
  ASSUME TypeOK, UploadsInOrder, NEW s \in Streams, NEW total \in Sizes,
         StartRequest(s, total) \/ StartFile(s, total)
  PROVE  UploadsInOrder'
<1> USE DEF disk, history
<1>0. /\ UploadInOrder(s) /\ upload \in [Streams -> Upload] /\ pump \in [Streams -> Pump]
      /\ queue \in [Streams -> Seq(Chunk \cup {End})]
  BY DEF UploadsInOrder, TypeOK
<1>1. /\ upload[s] = NoUpload("none") /\ pump[s] = NoPump /\ queue[s] = <<>>
      /\ upload[s].pc = "none" /\ s \notin hurt /\ total \in Nat
  BY <1>0, BoundsAssumption DEF StartRequest, StartFile, UploadInOrder
<1>2. /\ upload'[s].pc = "started" /\ upload'[s].pending = Nothing
      /\ upload'[s].frames = <<>> /\ upload'[s].total = total
      /\ UNCHANGED <<stored, hurt>>
      /\ \A u \in Streams \ {s} : upload'[u] = upload[u]
  BY <1>0, <1>1 DEF StartRequest, StartFile, NoUpload
<1>3. Pending(s)' = Nothing /\ Taken(s)' = 0
  BY <1>2 DEF Pending, Taken
<1>4. CASE StartRequest(s, total)
  <2>1. /\ upload'[s].route = "request" /\ pump'[s].sent = 0 /\ queue'[s] = <<>>
        /\ \A u \in Streams \ {s} : pump'[u] = pump[u] /\ queue'[u] = queue[u]
    BY <1>0, <1>1, <1>4 DEF StartRequest, NoPump
  <2>2. InOrder(s)'
    BY <1>1, <1>2, <1>3, <2>1 DEF InOrder
  <2>3. UploadInOrder(s)'
    BY <1>1, <1>2, <1>3, <2>1, <2>2 DEF UploadInOrder, Running
  <2>4. QED
    BY <1>2, <2>1, <2>3, OneUpload
<1>5. CASE StartFile(s, total)
  <2> DEFINE q == [i \in 1 .. total + 1 |-> IF i <= total THEN i ELSE End]
  <2>1. /\ pump' = pump /\ pump[s].state = "none" /\ queue' = [queue EXCEPT ![s] = q]
    BY <1>1, <1>5 DEF StartFile, NoPump
  <2>2. /\ Len(q) = total + 1
        /\ \A i \in 1 .. total + 1 : q[i] = IF i <= total THEN i ELSE End
    BY <1>1
  <2> HIDE DEF q
  <2>3. queue'[s] = q /\ \A u \in Streams \ {s} : queue'[u] = queue[u]
    BY <1>0, <2>1
  <2>4. \A i \in 1 .. Len(queue'[s]) : queue'[s][i] = Item(s, Taken(s) + i)'
    BY <1>1, <1>2, <1>3, <2>2, <2>3 DEF Item
  <2>5. InOrder(s)'
    BY <1>1, <1>2, <1>3, <2>1, <2>2, <2>3, <2>4 DEF InOrder
  <2>6. UploadInOrder(s)'
    BY <1>1, <1>2, <1>3, <2>1, <2>5 DEF UploadInOrder, Running
  <2>7. QED
    BY <1>2, <2>1, <2>3, <2>6, OneUpload
<1>6. QED
  BY <1>4, <1>5

\* One turn of the loop of encrypt_stream.
LEMMA EncryptNextInOrder ==
  ASSUME TypeOK, UploadsInOrder, NEW s \in Streams, EncryptNext(s)
  PROVE  UploadsInOrder'
<1>0. /\ UploadInOrder(s) /\ upload \in [Streams -> Upload]
      /\ queue \in [Streams -> Seq(Chunk \cup {End})] /\ upload[s].pc = "reading"
      /\ stored \in [Streams -> Seq(Frame) \cup {Absent}]
      /\ queue[s] # <<>> /\ UNCHANGED <<pump, hurt>>
  BY DEF UploadsInOrder, TypeOK, EncryptNext, history
<1>1. InOrder(s) /\ s \notin hurt
  BY <1>0 DEF UploadInOrder
<1>2. /\ Taken(s) \in 0 .. upload[s].total /\ Taken(s) \in Nat /\ upload[s].total \in Nat
      /\ Len(Tail(queue[s])) = Len(queue[s]) - 1
      /\ \A i \in 1 .. Len(Tail(queue[s])) : Tail(queue[s])[i] = queue[s][i + 1]
      /\ Len(queue[s]) \in Nat
  BY <1>0, <1>1, HeadIsNextItem, ChunkTypes, UploadType, LenProperties
<1>3. queue' = [queue EXCEPT ![s] = Tail(queue[s])]
  BY <1>1, EncryptNextEffect
<1>4. CASE Taken(s) = upload[s].total
  <2>1. /\ upload' = [upload EXCEPT ![s].pc = "framed", ![s].pending = Nothing,
                                    ![s].frames = <<>>]
        /\ stored' = [stored EXCEPT ![s] = FramesOf(s)]
    <3>1. ~(Taken(s) < upload[s].total)
      BY <1>2, <1>4
    <3>2. QED
      BY <1>1, <3>1, EncryptNextEffect
  <2>2. /\ upload'[s].pc = "framed" /\ upload'[s].total = upload[s].total
        /\ upload'[s].route = upload[s].route /\ stored'[s] = FramesOf(s)
    BY <1>0, <2>1 DEF Upload
  <2>3. FramesOf(s)' = FramesOf(s)
    BY <2>2, SamePlaintext
  <2>4. UploadInOrder(s)'
    BY <1>0, <1>1, <2>2, <2>3 DEF UploadInOrder, Running
  <2>5. QED
    BY <1>0, <1>3, <2>1, <2>4, OneUpload
<1>5. CASE Taken(s) # upload[s].total
  <2> DEFINE frames == IF Taken(s) = 0 THEN upload[s].frames ELSE NextFrames(s, FALSE)
  <2>1. /\ Taken(s) < upload[s].total
        /\ upload' = [upload EXCEPT ![s].pending = Taken(s) + 1, ![s].frames = frames]
        /\ UNCHANGED stored
    BY <1>1, <1>5, EncryptNextEffect
  <2>2. /\ Len(frames) = Taken(s)
        /\ \A i \in 1 .. Len(frames) : frames[i] = FrameOf(s, i - 1, FALSE, i)
    <3>1. CASE Taken(s) = 0
      BY <1>1, <3>1 DEF InOrder
    <3>2. CASE Taken(s) # 0
      <4>1. Len(upload[s].frames) = Taken(s) - 1
        BY <1>1, <3>2 DEF InOrder
      <4>2. Taken(s) \in Chunk
        BY <1>0, <1>1, HeadIsNextItem
      <4>3. /\ Len(frames) = Len(upload[s].frames) + 1
            /\ \A i \in 1 .. Len(upload[s].frames) : frames[i] = upload[s].frames[i]
            /\ frames[Len(upload[s].frames) + 1]
                 = FrameOf(s, Len(upload[s].frames), FALSE, Taken(s))
        BY <1>1, <3>2, <4>2, NextFramesType
      <4> HIDE DEF frames
      <4>4. ASSUME NEW i \in 1 .. Taken(s) PROVE frames[i] = FrameOf(s, i - 1, FALSE, i)
        <5>1. CASE i = Taken(s)
          <6>1. Len(upload[s].frames) + 1 = i /\ Len(upload[s].frames) = i - 1
            BY <1>2, <4>1, <5>1
          <6>2. frames[i] = FrameOf(s, Len(upload[s].frames), FALSE, Taken(s))
            BY <4>3, <6>1
          <6>3. QED
            BY <5>1, <6>1, <6>2, Zenon
        <5>2. CASE i # Taken(s)
          <6>1. i \in 1 .. Len(upload[s].frames)
            BY <1>2, <4>1, <5>2
          <6>2. QED
            BY <1>1, <4>3, <6>1 DEF InOrder
        <5>3. QED
          BY <5>1, <5>2
      <4>5. Len(frames) = Taken(s)
        BY <1>2, <4>1, <4>3
      <4>6. QED
        BY <4>4, <4>5, Zenon
    <3>3. QED
      BY <3>1, <3>2
  <2> HIDE DEF frames
  <2>3. /\ upload'[s].pc = "reading" /\ upload'[s].total = upload[s].total
        /\ upload'[s].route = upload[s].route /\ upload'[s].pending = Taken(s) + 1
        /\ upload'[s].frames = frames /\ queue'[s] = Tail(queue[s])
    BY <1>0, <1>3, <2>1 DEF Upload
  <2>4. upload[s].total < Nothing
    BY UploadType, ChunkTypes DEF Chunk, Nothing
  <2>5. Pending(s)' = Taken(s) + 1 /\ Taken(s)' = Taken(s) + 1
    BY <1>2, <2>1, <2>3, <2>4, ChunkTypes DEF Pending, Taken, Nothing
  <2>6. \A i \in 1 .. Len(queue'[s]) : queue'[s][i] = Item(s, Taken(s) + i)'
    <3> SUFFICES ASSUME NEW i \in 1 .. Len(queue[s]) - 1
                 PROVE  Tail(queue[s])[i] = Item(s, Taken(s) + i)'
      BY <1>2, <2>3
    <3>1. Tail(queue[s])[i] = Item(s, Taken(s) + (i + 1))
      <4>1. i \in 1 .. Len(Tail(queue[s])) /\ i + 1 \in 1 .. Len(queue[s])
        BY <1>2
      <4>2. Tail(queue[s])[i] = queue[s][i + 1]
        BY <1>2, <4>1
      <4>3. \A n \in 1 .. Len(queue[s]) : queue[s][n] = Item(s, Taken(s) + n)
        BY <1>1 DEF InOrder
      <4>4. QED
        BY <4>1, <4>2, <4>3
    <3>2. Taken(s) + (i + 1) = Taken(s)' + i
      BY <1>2, <2>5
    <3>3. QED
      BY <2>3, <3>1, <3>2 DEF Item
  <2>7. InOrder(s)'
    <3>1. pump'[s].state = "running" =>
            pump'[s].sent = Taken(s)' + Len(queue'[s]) /\ pump'[s].sent <= upload'[s].total
      BY <1>0, <1>1, <1>2, <2>3, <2>5 DEF InOrder
    <3>2. Taken(s)' + Len(queue'[s]) <= upload'[s].total + 1
      BY <1>1, <1>2, <2>3, <2>5 DEF InOrder
    <3>3. Pending(s)' \in 1 .. upload'[s].total \cup {Nothing}
      BY <1>2, <2>1, <2>3, <2>5
    <3>4. /\ Len(upload'[s].frames) = IF Taken(s)' = 0 THEN 0 ELSE Taken(s)' - 1
          /\ \A i \in 1 .. Len(upload'[s].frames) :
               upload'[s].frames[i] = FrameOf(s, i - 1, FALSE, i)
      <4>1. Len(frames) = IF Taken(s)' = 0 THEN 0 ELSE Taken(s)' - 1
        BY <1>2, <2>2, <2>5
      <4>2. QED
        BY <2>2, <2>3, <4>1, Zenon
    <3>5. QED
      BY <2>6, <3>1, <3>2, <3>3, <3>4 DEF InOrder
  <2>8. UploadInOrder(s)'
    BY <1>0, <1>1, <2>3, <2>7 DEF UploadInOrder
  <2>9. QED
    BY <1>0, <1>3, <2>1, <2>8, OneUpload
<1>6. QED
  BY <1>4, <1>5

LEMMA UploadStepInOrder ==
  ASSUME TypeOK, UploadsInOrder, NEW s \in Streams, UploadStep(s)
  PROVE  UploadsInOrder'
<1> USE DEF disk, history
<1>0. /\ UploadInOrder(s) /\ upload \in [Streams -> Upload] /\ pump \in [Streams -> Pump]
      /\ queue \in [Streams -> Seq(Chunk \cup {End})] /\ upload[s] \in Upload
      /\ stored \in [Streams -> Seq(Frame) \cup {Absent}]
  BY UploadType DEF UploadsInOrder, TypeOK
<1>1. CASE OpenStream(s)
  <2>1. /\ upload[s].pc = "started" /\ upload' = [upload EXCEPT ![s].pc = "reading"]
        /\ UNCHANGED <<pump, queue, stored, hurt>>
    BY <1>1 DEF OpenStream
  <2>2. /\ upload'[s].pc = "reading" /\ upload'[s].total = upload[s].total
        /\ upload'[s].route = upload[s].route /\ upload'[s].pending = upload[s].pending
        /\ upload'[s].frames = upload[s].frames
    BY <1>0, <2>1 DEF Upload
  <2>3. InOrder(s) /\ s \notin hurt
    BY <1>0, <2>1 DEF UploadInOrder
  <2>4. InOrder(s)'
    BY <2>1, <2>2, <2>3 DEF InOrder, Taken, Item, Pending
  <2>5. UploadInOrder(s)'
    BY <1>0, <2>1, <2>2, <2>3, <2>4 DEF UploadInOrder, Running
  <2>6. QED
    BY <1>0, <2>1, <2>5, OneUpload
<1>2. CASE EncryptNext(s)
  BY <1>2, EncryptNextInOrder
<1>3. CASE FlushRows(s)
  <2>1. /\ upload[s].pc = "framed" /\ upload' = [upload EXCEPT ![s].pc = "flushed"]
        /\ UNCHANGED <<pump, queue, stored, hurt>>
    BY <1>3 DEF FlushRows
  <2>2. /\ upload'[s].pc = "flushed" /\ upload'[s].total = upload[s].total
        /\ upload'[s].route = upload[s].route
    BY <1>0, <2>1 DEF Upload
  <2>3. FramesOf(s)' = FramesOf(s)
    BY <2>2, SamePlaintext
  <2>4. UploadInOrder(s)'
    BY <1>0, <2>1, <2>2, <2>3 DEF UploadInOrder, Running
  <2>5. QED
    BY <1>0, <2>1, <2>4, OneUpload
<1>4. CASE CommitUpload(s)
  <2>1. /\ upload[s].pc = "flushed" /\ upload' = [upload EXCEPT ![s].pc = "committed"]
        /\ pump' = [pump EXCEPT ![s] = NoPump] /\ UNCHANGED <<queue, stored, hurt>>
    BY <1>4 DEF CommitUpload
  <2>2. /\ upload'[s].pc = "committed" /\ upload'[s].total = upload[s].total
        /\ pump'[s].state = "none"
    BY <1>0, <2>1 DEF Upload, NoPump
  <2>3. FramesOf(s)' = FramesOf(s)
    BY <2>2, SamePlaintext
  <2>4. UploadInOrder(s)'
    BY <1>0, <2>1, <2>2, <2>3 DEF UploadInOrder
  <2>5. QED
    BY <1>0, <2>1, <2>4, OneUpload
<1>5. CASE FailUpload(s)
  <2>1. /\ upload[s].pc \in {"started", "reading", "framed", "flushed"}
        /\ upload' = [upload EXCEPT ![s] = Failed(s)]
        /\ \A u \in Streams \ {s} : queue'[u] = queue[u] /\ stored'[u] = stored[u]
        /\ UNCHANGED <<pump, hurt>>
    BY <1>0, <1>5 DEF FailUpload, MayFail, QueueAfterFailure, Cleaned
  <2>2. s \notin hurt
    BY <1>0, <2>1 DEF UploadInOrder
  <2>3. CASE upload[s].route = "file"
    <3>1. upload'[s].pc = "failed" /\ pump'[s].state # "running"
      BY <1>0, <2>1, <2>3 DEF Failed, NoUpload, UploadInOrder
    <3>2. QED
      BY <1>0, <2>1, <2>2, <3>1, OneUpload DEF UploadInOrder
  <2>4. CASE upload[s].route # "file"
    <3>1. upload'[s].pc = "failing" /\ upload'[s].route = "request"
      BY <1>0, <2>1, <2>4 DEF Failed, Upload, Route
    <3>2. UploadInOrder(s)'
      BY <2>1, <2>2, <3>1 DEF UploadInOrder, Running
    <3>3. QED
      BY <1>0, <2>1, <3>2, OneUpload
  <2>5. QED
    BY <2>3, <2>4
<1>6. CASE EndFailed(s)
  <2>1. /\ upload[s].pc = "failing" /\ upload' = [upload EXCEPT ![s] = NoUpload("failed")]
        /\ pump' = [pump EXCEPT ![s] = NoPump] /\ queue' = [queue EXCEPT ![s] = <<>>]
        /\ UNCHANGED <<stored, hurt>>
    BY <1>6 DEF EndFailed
  <2>2. upload'[s].pc = "failed" /\ pump'[s].state = "none" /\ s \notin hurt
    BY <1>0, <2>1 DEF NoUpload, NoPump, UploadInOrder
  <2>3. UploadInOrder(s)'
    BY <2>1, <2>2 DEF UploadInOrder
  <2>4. QED
    BY <1>0, <2>1, <2>3, OneUpload
<1>7. QED
  BY <1>1, <1>2, <1>3, <1>4, <1>5, <1>6 DEF UploadStep

LEMMA DamageInOrder ==
  ASSUME TypeOK, UploadsInOrder, NEW s \in Streams, Damage(s)
  PROVE  UploadsInOrder'
<1>1. /\ UploadInOrder(s) /\ upload[s].pc = "committed" /\ s \in hurt'
      /\ UNCHANGED <<upload, pump, queue>>
      /\ \A u \in Streams \ {s} : stored'[u] = stored[u] /\ (u \in hurt' <=> u \in hurt)
  BY DEF Damage, UploadsInOrder, TypeOK
<1>2. UploadInOrder(s)'
  BY <1>1 DEF UploadInOrder
<1>3. QED
  BY <1>1, <1>2, OneUpload

LEMMA CrashInOrder ==
  ASSUME TypeOK, UploadsInOrder, Crash
  PROVE  UploadsInOrder'
<1> SUFFICES ASSUME NEW s \in Streams PROVE UploadInOrder(s)'
  BY DEF UploadsInOrder
<1>1. /\ UploadInOrder(s) /\ hurt' = hurt /\ pump'[s] = NoPump /\ queue'[s] = <<>>
      /\ upload[s] \in Upload
  BY UploadType DEF UploadsInOrder, Crash
<1>2. CASE upload[s].pc \in Running
  <2>1. upload'[s].pc = "failed" /\ pump'[s].state = "none" /\ s \notin hurt
    BY <1>1, <1>2 DEF Crash, NoUpload, NoPump, UploadInOrder, Running
  <2>2. QED
    BY <1>1, <2>1 DEF UploadInOrder
<1>3. CASE upload[s].pc \notin Running
  <2>1. upload'[s] = upload[s] /\ stored'[s] = stored[s] /\ pump'[s].state = "none"
    BY <1>1, <1>3 DEF Crash, NoPump
  <2>2. FramesOf(s)' = FramesOf(s)
    BY <2>1, SamePlaintext
  <2>3. upload[s].pc \notin {"started", "reading"}
    BY <1>3 DEF Running
  <2>4. QED
    BY <1>1, <2>1, <2>2, <2>3 DEF UploadInOrder
<1>4. QED
  BY <1>2, <1>3

LEMMA NextInOrder ==
  ASSUME TypeOK, UploadsInOrder, [Next]_vars
  PROVE  UploadsInOrder'
<1> USE DEF disk, history
<1>1. ASSUME NEW s \in Streams, NEW total \in Sizes,
             StartRequest(s, total) \/ StartFile(s, total)
      PROVE  UploadsInOrder'
  BY <1>1, StartInOrder
<1>2. ASSUME NEW s \in Streams, PumpStep(s) PROVE UploadsInOrder'
  BY <1>2, PumpStepInOrder
<1>3. ASSUME NEW s \in Streams, UploadStep(s) PROVE UploadsInOrder'
  BY <1>3, UploadStepInOrder
<1>4. ASSUME UNCHANGED <<upload, pump, queue, stored, hurt>> PROVE UploadsInOrder'
  BY <1>4, UntouchedUpload DEF UploadsInOrder
<1>5. ASSUME NEW r \in Readers, DownloadStep(r) \/ \E s \in Streams : OpenDownload(r, s)
      PROVE  UploadsInOrder'
  BY <1>4, <1>5
     DEF DownloadStep, OpenDownload, CommitDownload, OpenSource, ReadFrame, EndDownload,
         LeaveDownload
<1>6. ASSUME NEW s \in Streams, LoseKey(s) PROVE UploadsInOrder'
  BY <1>4, <1>6 DEF LoseKey
<1>7. ASSUME NEW s \in Streams, Damage(s) PROVE UploadsInOrder'
  BY <1>7, DamageInOrder
<1>8. CASE Crash
  BY <1>8, CrashInOrder
<1>9. CASE UNCHANGED vars
  BY <1>4, <1>9 DEF vars
<1>10. QED
  BY <1>1, <1>2, <1>3, <1>5, <1>6, <1>7, <1>8, <1>9 DEF Next

(***************************************************************************)
(* Stored frames stay genuine.                                             *)
(***************************************************************************)

\* What a step leaves of an upload: one that is past its loop stays so, and it is
\* of the same plaintext unless it fails.
Onward(s) ==
  upload[s].pc \notin {"none", "started", "reading"} =>
    /\ upload'[s].pc \notin {"none", "started", "reading"}
    /\ upload'[s].pc \in Encrypted =>
         upload[s].pc \in Encrypted /\ upload'[s].total = upload[s].total

LEMMA OnwardUnlessChanged ==
  ASSUME NEW s, upload'[s] = upload[s]
  PROVE  Onward(s)
BY DEF Onward

LEMMA UploadsGoOnward ==
  ASSUME TypeOK, UploadsInOrder, [Next]_vars, NEW t \in Streams
  PROVE  Onward(t)
<1>0. upload \in [Streams -> Upload] /\ upload[t] \in Upload
  BY UploadType DEF TypeOK
<1>1. ASSUME NEW s \in Streams, NEW total \in Sizes,
             StartRequest(s, total) \/ StartFile(s, total)
      PROVE  Onward(t)
  <2>1. t # s => upload'[t] = upload[t]
    BY <1>0, <1>1 DEF StartRequest, StartFile
  <2>2. upload[s].pc = "none"
    BY <1>1 DEF StartRequest, StartFile
  <2>3. QED
    BY <2>1, <2>2 DEF Onward
<1>2. ASSUME NEW s \in Streams, PumpStep(s) PROVE Onward(t)
  BY <1>2, OnwardUnlessChanged DEF PumpStep, Put, PutBlocks, Disconnect
<1>3. ASSUME NEW s \in Streams, UploadStep(s) PROVE Onward(t)
  <2>1. CASE t # s
    <3>1. upload'[t] = upload[t]
      BY <1>0, <1>3, <2>1
         DEF UploadStep, OpenStream, EncryptNext, FlushRows, CommitUpload, FailUpload, EndFailed
    <3>2. QED
      BY <3>1, OnwardUnlessChanged
  <2>2. CASE t = s
    <3>1. CASE OpenStream(s) \/ EncryptNext(s)
      BY <2>2, <3>1 DEF OpenStream, EncryptNext, Onward
    <3>2. CASE FlushRows(s)
      BY <1>0, <2>2, <3>2 DEF FlushRows, Onward, Upload, Encrypted
    <3>3. CASE CommitUpload(s)
      BY <1>0, <2>2, <3>3 DEF CommitUpload, Onward, Upload, Encrypted
    <3>4. CASE FailUpload(s)
      BY <1>0, <2>2, <3>4 DEF FailUpload, Failed, NoUpload, Onward, Upload, Encrypted
    <3>5. CASE EndFailed(s)
      BY <1>0, <2>2, <3>5 DEF EndFailed, NoUpload, Onward, Encrypted
    <3>6. QED
      BY <1>3, <3>1, <3>2, <3>3, <3>4, <3>5 DEF UploadStep
  <2>3. QED
    BY <2>1, <2>2
<1>4. ASSUME NEW r \in Readers, DownloadStep(r) \/ \E s \in Streams : OpenDownload(r, s)
      PROVE  Onward(t)
  BY <1>4, OnwardUnlessChanged
     DEF DownloadStep, OpenDownload, CommitDownload, OpenSource, ReadFrame, EndDownload,
         LeaveDownload
<1>5. ASSUME NEW s \in Streams, LoseKey(s) \/ Damage(s) PROVE Onward(t)
  BY <1>5, OnwardUnlessChanged DEF LoseKey, Damage
<1>6. CASE Crash
  <2>1. upload'[t] = IF upload[t].pc \in Running THEN NoUpload("failed") ELSE upload[t]
    BY <1>6 DEF Crash
  <2>2. QED
    BY <2>1 DEF Onward, NoUpload, Encrypted
<1>7. CASE UNCHANGED vars
  BY <1>7, OnwardUnlessChanged DEF vars
<1>8. QED
  BY <1>1, <1>2, <1>3, <1>4, <1>5, <1>6, <1>7 DEF Next

LEMMA GenuineStays ==
  ASSUME NEW f, Genuine(f), f.stream \in Streams => Onward(f.stream)
  PROVE  Genuine(f)'
<1> SUFFICES ASSUME f.stream \in Streams PROVE Genuine(f)'
  BY DEF Genuine
<1> DEFINE s == f.stream
<1>1. Onward(s) /\ upload[s].pc \notin {"none", "started", "reading"}
  BY DEF Genuine
<1>2. upload'[s].pc \notin {"none", "started", "reading"}
  BY <1>1 DEF Onward
<1>3. ASSUME upload'[s].pc \in Encrypted
      PROVE  \E i \in 1 .. Len(Plaintext(s)') :
               f = FrameOf(s, i - 1, i = Len(Plaintext(s)'), Plaintext(s)'[i])
  <2>1. upload[s].pc \in Encrypted /\ upload'[s].total = upload[s].total
    BY <1>1, <1>3 DEF Onward
  <2>2. Plaintext(s)' = Plaintext(s)
    BY <2>1, SamePlaintext
  <2>3. QED
    BY <2>1, <2>2 DEF Genuine
<1>4. QED
  BY <1>2, <1>3 DEF Genuine

\* It is enough that each new copy is made of frames that were stored somewhere,
\* of damaged ones, or of those of a stream that has left its loop.
LEMMA GenuineCopies ==
  ASSUME TypeOK, UploadsInOrder, StoredFramesAreGenuine, [Next]_vars,
         \A s \in Streams :
           \/ stored'[s] = Absent \/ stored'[s] = stored[s]
           \/ \A i \in 1 .. Len(stored'[s]) :
                \/ stored'[s][i] = DamagedFrame
                \/ \E t \in Streams : /\ stored[t] # Absent
                                      /\ \E j \in 1 .. Len(stored[t]) :
                                           stored'[s][i] = stored[t][j]
           \/ /\ stored'[s] = FramesOf(s) /\ upload'[s].total = upload[s].total
              /\ upload'[s].pc \in Encrypted
  PROVE  StoredFramesAreGenuine'
<1>1. ASSUME NEW f, NEW t \in Streams, stored[t] # Absent,
             NEW j \in 1 .. Len(stored[t]), f = stored[t][j]
      PROVE  Genuine(f)'
  <2>1. Genuine(f)
    BY <1>1 DEF StoredFramesAreGenuine
  <2>2. f.stream \in Streams => Onward(f.stream)
    BY UploadsGoOnward
  <2>3. QED
    BY <2>1, <2>2, GenuineStays
<1>2. ASSUME NEW f, f = DamagedFrame PROVE Genuine(f)'
  BY <1>2, IdentityAssumption DEF Genuine, DamagedFrame
<1>3. ASSUME NEW s \in Streams, upload'[s].pc \in Encrypted,
             upload'[s].total = upload[s].total,
             NEW i \in 1 .. Len(FramesOf(s)), NEW f, f = FramesOf(s)[i]
      PROVE  Genuine(f)'
  <2>1. /\ Len(FramesOf(s)) = Len(Plaintext(s)) /\ Plaintext(s)' = Plaintext(s)
        /\ f = FrameOf(s, i - 1, i = Len(Plaintext(s)), Plaintext(s)[i])
    BY <1>3, FramesOfType, SamePlaintext
  <2>2. f.stream = s
    BY <2>1 DEF FrameOf
  <2>3. QED
    BY <1>3, <2>1, <2>2 DEF Genuine, Encrypted
<1>4. ASSUME NEW s \in Streams, stored'[s] # Absent, NEW i \in 1 .. Len(stored'[s]),
             NEW f, f = stored'[s][i]
      PROVE  Genuine(f)'
  <2>1. CASE stored'[s] = stored[s]
    BY <1>1, <1>4, <2>1
  <2>2. CASE \A k \in 1 .. Len(stored'[s]) :
               \/ stored'[s][k] = DamagedFrame
               \/ \E t \in Streams : /\ stored[t] # Absent
                                     /\ \E j \in 1 .. Len(stored[t]) :
                                          stored'[s][k] = stored[t][j]
    BY <1>1, <1>2, <1>4, <2>2
  <2>3. CASE /\ stored'[s] = FramesOf(s) /\ upload'[s].total = upload[s].total
             /\ upload'[s].pc \in Encrypted
    BY <1>3, <1>4, <2>3
  <2>4. QED
    BY <1>4, <2>1, <2>2, <2>3
<1>5. ASSUME NEW s \in Streams, stored'[s] # Absent, NEW i \in 1 .. Len(stored'[s])
      PROVE  Genuine(stored[s][i])'
  <2>1. PICK f : f = stored'[s][i]
    OBVIOUS
  <2>2. Genuine(f)'
    BY <1>4, <1>5, <2>1
  <2>3. QED
    BY <2>1, <2>2, ZenonT(60) DEF Genuine, Plaintext
<1>6. QED
  BY <1>5 DEF StoredFramesAreGenuine

LEMMA NextGenuine ==
  ASSUME TypeOK, UploadsInOrder, StoredFramesAreGenuine, [Next]_vars
  PROVE  StoredFramesAreGenuine'
<1> USE DEF disk, history
<1>0. stored \in [Streams -> Seq(Frame) \cup {Absent}] /\ upload \in [Streams -> Upload]
  BY DEF TypeOK
<1>1. ASSUME \A s \in Streams : stored'[s] \in {Absent, stored[s]}
      PROVE  StoredFramesAreGenuine'
  BY <1>1, GenuineCopies
<1>2. ASSUME NEW s \in Streams, NEW total \in Sizes,
             StartRequest(s, total) \/ StartFile(s, total)
      PROVE  StoredFramesAreGenuine'
  BY <1>1, <1>2 DEF StartRequest, StartFile
<1>3. ASSUME NEW s \in Streams, PumpStep(s) PROVE StoredFramesAreGenuine'
  BY <1>1, <1>3 DEF PumpStep, Put, PutBlocks, Disconnect
<1>4. ASSUME NEW s \in Streams, EncryptNext(s) PROVE StoredFramesAreGenuine'
  <2>1. InOrder(s) /\ upload[s] \in Upload
    BY <1>4, UploadType DEF EncryptNext, UploadsInOrder, UploadInOrder
  <2>2. CASE UNCHANGED stored
    BY <1>1, <2>2
  <2>3. CASE ~UNCHANGED stored
    <3>1. /\ upload' = [upload EXCEPT ![s].pc = "framed", ![s].pending = Nothing,
                                      ![s].frames = <<>>]
          /\ stored' = [stored EXCEPT ![s] = FramesOf(s)]
      BY <1>4, <2>1, <2>3, EncryptNextEffect
    <3>2. upload'[s].pc \in Encrypted /\ upload'[s].total = upload[s].total
      BY <1>0, <2>1, <3>1 DEF Upload, Encrypted
    <3>3. \A t \in Streams : t = s \/ stored'[t] = stored[t]
      BY <1>0, <3>1
    <3>4. stored'[s] = FramesOf(s)
      BY <1>0, <3>1
    <3>5. QED
      BY <3>2, <3>3, <3>4, GenuineCopies
  <2>4. QED
    BY <2>2, <2>3
<1>5. ASSUME NEW s \in Streams, UploadStep(s) PROVE StoredFramesAreGenuine'
  <2>1. CASE EncryptNext(s)
    BY <1>4, <2>1
  <2>2. CASE FailUpload(s)
    BY <1>0, <1>1, <2>2 DEF FailUpload, Cleaned
  <2>3. CASE OpenStream(s) \/ FlushRows(s) \/ CommitUpload(s) \/ EndFailed(s)
    BY <1>1, <2>3 DEF OpenStream, FlushRows, CommitUpload, EndFailed
  <2>4. QED
    BY <1>5, <2>1, <2>2, <2>3 DEF UploadStep
<1>6. ASSUME NEW r \in Readers, DownloadStep(r) \/ \E s \in Streams : OpenDownload(r, s)
      PROVE  StoredFramesAreGenuine'
  BY <1>1, <1>6
     DEF DownloadStep, OpenDownload, CommitDownload, OpenSource, ReadFrame, EndDownload,
         LeaveDownload
<1>7. ASSUME NEW s \in Streams, Damage(s) PROVE StoredFramesAreGenuine'
  <2>1. PICK copy \in Damages(s) : stored' = [stored EXCEPT ![s] = copy]
    BY <1>7 DEF Damage
  <2>2. stored[s] # Absent
    BY <1>7 DEF Damage
  <2>3. \/ copy = Absent
        \/ \A i \in 1 .. Len(copy) :
             \/ copy[i] = DamagedFrame
             \/ \E t \in Streams : /\ stored[t] # Absent
                                   /\ \E j \in 1 .. Len(stored[t]) : copy[i] = stored[t][j]
    BY <2>2, DamagedCopy
  <2>4. stored'[s] = copy /\ \A t \in Streams : t = s \/ stored'[t] = stored[t]
    BY <1>0, <2>1
  <2>5. QED
    BY <2>3, <2>4, GenuineCopies
<1>8. ASSUME NEW s \in Streams, LoseKey(s) PROVE StoredFramesAreGenuine'
  BY <1>1, <1>8 DEF LoseKey
<1>9. CASE Crash
  BY <1>1, <1>9 DEF Crash
<1>10. CASE UNCHANGED vars
  BY <1>1, <1>10 DEF vars
<1>11. QED
  BY <1>2, <1>3, <1>5, <1>6, <1>7, <1>8, <1>9, <1>10 DEF Next

(***************************************************************************)
(* Downloads stay in order.                                                *)
(***************************************************************************)

\* Nothing touches a committed upload any more, and its ciphertext does not go
\* missing under a reader that has it open.
LEMMA CommittedStays ==
  ASSUME TypeOK, [Next]_vars, NEW t \in Streams, upload[t].pc = "committed"
  PROVE  /\ upload'[t] = upload[t]
         /\ stored[t] # Absent /\ stored'[t] = Absent =>
              \A r \in Readers : download[r].pc = "reading" => Source(r) # t
<1> USE DEF disk, history
<1> DEFINE Goal == /\ upload'[t] = upload[t]
                   /\ stored[t] # Absent /\ stored'[t] = Absent =>
                        \A r \in Readers : download[r].pc = "reading" => Source(r) # t
<1>0. /\ upload \in [Streams -> Upload] /\ Absent \notin Seq(Frame)
      /\ stored \in [Streams -> Seq(Frame) \cup {Absent}]
  BY AbsentAssumption DEF TypeOK
<1>1. ASSUME upload'[t] = upload[t], stored'[t] = stored[t] PROVE Goal
  BY <1>1
<1>2. ASSUME NEW s \in Streams, NEW total \in Sizes,
             StartRequest(s, total) \/ StartFile(s, total)
      PROVE  Goal
  <2>1. t # s /\ stored' = stored
    BY <1>2 DEF StartRequest, StartFile
  <2>2. QED
    BY <1>0, <1>1, <1>2, <2>1 DEF StartRequest, StartFile
<1>3. ASSUME NEW s \in Streams, PumpStep(s) PROVE Goal
  BY <1>3 DEF PumpStep, Put, PutBlocks, Disconnect
<1>4. ASSUME NEW s \in Streams, UploadStep(s) PROVE Goal
  <2>1. upload[s].pc # "committed" /\ t # s
    BY <1>4
       DEF UploadStep, OpenStream, EncryptNext, FlushRows, CommitUpload, FailUpload, MayFail,
           EndFailed
  <2>2. upload'[t] = upload[t]
    BY <1>0, <1>4, <2>1
       DEF UploadStep, OpenStream, EncryptNext, FlushRows, CommitUpload, FailUpload, EndFailed
  <2>3. stored'[t] = stored[t]
    BY <1>0, <1>4, <2>1
       DEF UploadStep, OpenStream, EncryptNext, Keep, FlushRows, CommitUpload, FailUpload,
           Cleaned, EndFailed
  <2>4. QED
    BY <2>2, <2>3
<1>5. ASSUME NEW r \in Readers, DownloadStep(r) \/ \E s \in Streams : OpenDownload(r, s)
      PROVE  Goal
  <2>1. UNCHANGED <<upload, stored>>
    BY <1>5
       DEF DownloadStep, OpenDownload, CommitDownload, OpenSource, ReadFrame, EndDownload,
           LeaveDownload
  <2>2. QED
    BY <2>1
<1>6. ASSUME NEW s \in Streams, LoseKey(s) PROVE Goal
  BY <1>6 DEF LoseKey
<1>7. ASSUME NEW s \in Streams, Damage(s) PROVE Goal
  <2>1. PICK copy \in Damages(s) : stored' = [stored EXCEPT ![s] = copy]
    BY <1>7 DEF Damage
  <2>2. \/ copy \in Seq(Frame)
        \/ \A r \in Readers : download[r].pc = "reading" => Source(r) # s
    BY <1>7, DamagedCopy DEF Damage
  <2>3. upload' = upload
    BY <1>7 DEF Damage
  <2>4. QED
    BY <1>0, <2>1, <2>2, <2>3
<1>8. CASE Crash
  BY <1>8 DEF Crash, Running
<1>9. CASE UNCHANGED vars
  BY <1>9 DEF vars
<1>10. QED
  BY <1>2, <1>3, <1>4, <1>5, <1>6, <1>7, <1>8, <1>9 DEF Next

\* A download that a step leaves alone stays in order.
LEMMA SameDownload ==
  ASSUME TypeOK, DownloadsInOrder, [Next]_vars, NEW r \in Readers,
         download'[r] = download[r]
  PROVE  DownloadInOrder(r)'
<1>1. DownloadInOrder(r) /\ Source(r)' = Source(r)
  BY DEF DownloadsInOrder, Source
<1>2. CASE download[r].pc \in {"none", "broken"}
  BY <1>1, <1>2 DEF DownloadInOrder
<1>3. CASE download[r].pc \notin {"none", "broken"}
  <2>1. /\ download[r].pc \in {"opened", "streaming", "reading", "ended"}
        /\ Source(r) \in Streams /\ upload[Source(r)].pc = "committed"
    BY <1>1, <1>3 DEF DownloadInOrder, TypeOK, Download
  <2> DEFINE s == Source(r)
  <2>2. /\ upload'[s] = upload[s]
        /\ download[r].pc = "reading" => stored'[s] # Absent
    BY <1>1, <2>1, CommittedStays DEF DownloadInOrder
  <2>3. Plaintext(s)' = Plaintext(s) /\ IsFile(s)' = IsFile(s)
    BY <1>1, <2>2 DEF Plaintext, IsFile
  <2>4. QED
    BY <1>1, <2>1, <2>2, <2>3 DEF DownloadInOrder
<1>4. QED
  BY <1>2, <1>3

LEMMA OneDownload ==
  ASSUME TypeOK, DownloadsInOrder, [Next]_vars, NEW r \in Readers, DownloadInOrder(r)',
         \A q \in Readers \ {r} : download'[q] = download[q]
  PROVE  DownloadsInOrder'
<1>1. ASSUME NEW q \in Readers PROVE DownloadInOrder(q)'
  <2>1. CASE q = r
    BY <2>1
  <2>2. CASE q # r
    BY <2>2, SameDownload
  <2>3. QED
    BY <2>1, <2>2
<1>2. QED
  BY <1>1 DEF DownloadsInOrder

LEMMA BrokenInOrder ==
  ASSUME TypeOK, DownloadsInOrder, [Next]_vars, NEW r \in Readers, Close(r, Broken)
  PROVE  DownloadsInOrder'
<1>1. /\ download'[r] = Broken /\ \A q \in Readers \ {r} : download'[q] = download[q]
  BY DEF Close, TypeOK
<1>2. DownloadInOrder(r)'
  BY <1>1 DEF Broken, NoDownload, DownloadInOrder
<1>3. QED
  BY <1>1, <1>2, OneDownload

\* A frame that verifies is the next one of the plaintext, and the final one only
\* if it is the last.
LEMMA VerifiedChunk ==
  ASSUME TypeOK, StoredFramesAreGenuine, NEW s \in Streams, upload[s].pc = "committed",
         stored[s] # Absent, NEW i \in Nat, i + 1 \in 1 .. Len(stored[s]), NEW final \in BOOLEAN,
         Verifies(s, stored[s][i + 1], i, final)
  PROVE  /\ i + 1 \in 1 .. Len(Plaintext(s))
         /\ stored[s][i + 1].chunk = Plaintext(s)[i + 1]
         /\ final = (i + 1 = Len(Plaintext(s)))
<1> DEFINE f == stored[s][i + 1]
<1>1. f.stream = s /\ f.index = i /\ f.final = final
  BY DEF Verifies
<1>2. Genuine(f)
  BY DEF StoredFramesAreGenuine
<1> HIDE DEF f
<1>3. PICK k \in 1 .. Len(Plaintext(s)) :
        f = FrameOf(s, k - 1, k = Len(Plaintext(s)), Plaintext(s)[k])
  BY <1>1, <1>2 DEF Genuine, Encrypted
<1>4. /\ f.index = k - 1 /\ f.final = (k = Len(Plaintext(s)))
      /\ f.chunk = Plaintext(s)[k]
  BY <1>3 DEF FrameOf
<1>5. Len(Plaintext(s)) \in Nat
  BY PlaintextType, LenProperties
<1>6. k = i + 1
  BY <1>1, <1>4, <1>5
<1>7. QED
  BY <1>1, <1>4, <1>6 DEF f

LEMMA ReadFrameInOrder ==
  ASSUME TypeOK, StoredFramesAreGenuine, DownloadsInOrder, [Next]_vars,
         NEW r \in Readers, ReadFrame(r)
  PROVE  DownloadsInOrder'
<1> USE DEF disk, history
<1> DEFINE s == Source(r)
           i == Len(download[r].out)
           ok == i < Len(stored[s]) /\ Verifies(s, stored[s][i + 1], i, i + 1 >= download[r].total)
<1>1. CASE ~ok
  BY <1>1, BrokenInOrder DEF ReadFrame
<1>2. CASE ok
  <2> DEFINE chunk == stored[s][i + 1].chunk
  <2>1. /\ s \in Streams /\ upload[s].pc = "committed" /\ stored[s] # Absent
        /\ download[r].out \in Seq(Chunk) /\ i \in Nat /\ i + 1 \in 1 .. Len(stored[s])
        /\ download[r].pc = "reading" /\ DownloadInOrder(r) /\ download[r].total \in Nat
        /\ stored[s][i + 1] \in Frame
    <3>1. download[r].pc = "reading" /\ DownloadInOrder(r) /\ i < Len(stored[s])
      BY <1>2 DEF ReadFrame, DownloadsInOrder
    <3>2. download[r].total \in Nat
      BY DEF TypeOK, Download
    <3>3. QED
      BY <3>1, <3>2, ReadFrameType
  <2>2. /\ i + 1 \in 1 .. Len(Plaintext(s)) /\ chunk = Plaintext(s)[i + 1]
        /\ i + 1 >= download[r].total => i + 1 = Len(Plaintext(s))
    <3>1. (i + 1 >= download[r].total) \in BOOLEAN
      OBVIOUS
    <3>2. QED
      BY <1>2, <2>1, <3>1, VerifiedChunk
  <2>3. chunk \in Chunk
    BY <2>1 DEF Frame
  <2>4. /\ download' = [download EXCEPT ![r].out = Append(download[r].out, chunk)]
        /\ UNCHANGED <<upload, stored>>
    BY <1>2 DEF ReadFrame
  <2> HIDE DEF chunk, ok
  <2> DEFINE new == Append(download[r].out, chunk)
  <2>5. /\ Len(new) = i + 1 /\ new[i + 1] = chunk
        /\ \A k \in 1 .. i : new[k] = download[r].out[k]
    BY <2>1, <2>3, AppendProperties
  <2> HIDE DEF new
  <2>6. /\ download'[r].out = new /\ download'[r].pc = "reading"
        /\ download'[r].total = download[r].total
        /\ download'[r].audited = download[r].audited /\ Source(r)' = s
        /\ \A q \in Readers \ {r} : download'[q] = download[q]
    BY <2>1, <2>4 DEF TypeOK, Download, Source, new
  <2>7. \A k \in 1 .. i : download[r].out[k] = Plaintext(s)[k]
    <3>1. CASE download[r].out = <<>>
      BY <3>1, EmptySeq
    <3>2. CASE download[r].out # <<>>
      BY <2>1, <3>2 DEF DownloadInOrder
    <3>3. QED
      BY <3>1, <3>2
  <2>8. \A k \in 1 .. Len(new) : new[k] = Plaintext(s)[k]
    <3> SUFFICES ASSUME NEW k \in 1 .. i + 1 PROVE new[k] = Plaintext(s)[k]
      BY <2>5
    <3>1. k = i + 1 \/ k \in 1 .. i
      BY <2>1
    <3>2. QED
      BY <2>2, <2>5, <2>7, <3>1
  <2>9. /\ Len(new) <= Len(Plaintext(s))
        /\ Len(new) >= download[r].total => Len(new) = Len(Plaintext(s))
    BY <2>1, <2>2, <2>5
  <2>10. Plaintext(s)' = Plaintext(s) /\ IsFile(s)' = IsFile(s)
    BY <2>4, <2>6 DEF Plaintext, IsFile
  <2>11. DownloadInOrder(r)'
    BY <2>1, <2>4, <2>6, <2>8, <2>9, <2>10 DEF DownloadInOrder
  <2>12. QED
    BY <2>6, <2>11, OneDownload
<1>3. QED
  BY <1>1, <1>2

LEMMA DownloadStepInOrder ==
  ASSUME TypeOK, StoredFramesAreGenuine, DownloadsInOrder, [Next]_vars, NEW r \in Readers,
         DownloadStep(r) \/ \E s \in Streams : OpenDownload(r, s)
  PROVE  DownloadsInOrder'
<1> USE DEF disk, history
<1>0. /\ DownloadInOrder(r) /\ download[r] \in Download /\ download \in [Readers -> Download]
  BY DEF DownloadsInOrder, TypeOK
<1>1. ASSUME NEW s \in Streams, OpenDownload(r, s) PROVE DownloadsInOrder'
  <2>1. /\ download' = [download EXCEPT ![r].stream = s, ![r].pc = AfterOpening(s)]
        /\ UNCHANGED <<upload, stored>> /\ upload[s].pc = "committed"
        /\ download[r].pc = "none"
    BY <1>1 DEF OpenDownload
  <2>2. /\ download'[r].pc = AfterOpening(s) /\ Source(r)' = s
        /\ download'[r].out = <<>>
        /\ \A q \in Readers \ {r} : download'[q] = download[q]
    BY <1>0, <2>1 DEF Download, Source, DownloadInOrder
  <2>3. ~IsFile(s)' \/ AfterOpening(s) = "opened"
    BY <2>1 DEF IsFile, AfterOpening
  <2>4. AfterOpening(s) \in {"opened", "streaming"}
    BY DEF AfterOpening
  <2>5. upload'[s].pc = "committed"
    BY <2>1
  <2>6. DownloadInOrder(r)'
    BY <2>2, <2>3, <2>4, <2>5 DEF DownloadInOrder, IsFile
  <2>7. QED
    BY <2>2, <2>6, OneDownload
<1>2. CASE CommitDownload(r)
  <2>1. /\ download' = [download EXCEPT ![r].pc = "streaming", ![r].audited = TRUE]
        /\ UNCHANGED <<upload, stored>> /\ download[r].pc = "opened"
    BY <1>2 DEF CommitDownload
  <2>2. /\ download'[r].pc = "streaming" /\ download'[r].audited = TRUE
        /\ download'[r].out = <<>> /\ Source(r)' = Source(r)
        /\ \A q \in Readers \ {r} : download'[q] = download[q]
    BY <1>0, <2>1 DEF Download, Source, DownloadInOrder
  <2>3. DownloadInOrder(r)'
    BY <1>0, <2>1, <2>2 DEF DownloadInOrder
  <2>4. QED
    BY <2>2, <2>3, OneDownload
<1>3. CASE OpenSource(r)
  <2>1. CASE stored[Source(r)] = Absent
    BY <1>3, <2>1, BrokenInOrder DEF OpenSource
  <2>2. CASE stored[Source(r)] # Absent
    <3>1. /\ download' = [download EXCEPT ![r].pc = "reading",
                                          ![r].total = Len(stored[Source(r)])]
          /\ UNCHANGED <<upload, stored>> /\ download[r].pc = "streaming"
      BY <1>3, <2>2 DEF OpenSource
    <3>2. /\ download'[r].pc = "reading" /\ download'[r].audited = download[r].audited
          /\ download'[r].out = <<>> /\ Source(r)' = Source(r)
          /\ \A q \in Readers \ {r} : download'[q] = download[q]
      BY <1>0, <3>1 DEF Download, Source, DownloadInOrder
    <3>3. IsFile(Source(r))' = IsFile(Source(r))
      BY <3>1, <3>2 DEF IsFile
    <3>4. DownloadInOrder(r)'
      BY <1>0, <2>2, <3>1, <3>2, <3>3 DEF DownloadInOrder
    <3>5. QED
      BY <3>2, <3>4, OneDownload
  <2>3. QED
    BY <2>1, <2>2
<1>4. CASE ReadFrame(r)
  BY <1>4, ReadFrameInOrder
<1>5. CASE EndDownload(r)
  <2>1. /\ download' = [download EXCEPT ![r] =
             [download[r] EXCEPT !.pc = "ended", !.total = 0, !.audited = TRUE]]
        /\ UNCHANGED <<upload, stored>> /\ download[r].pc = "reading"
        /\ Len(download[r].out) >= download[r].total
    BY <1>5 DEF EndDownload, Close
  <2>2. /\ download'[r].pc = "ended" /\ download'[r].audited = TRUE /\ download'[r].total = 0
        /\ download'[r].out = download[r].out /\ Source(r)' = Source(r)
        /\ \A q \in Readers \ {r} : download'[q] = download[q]
    BY <1>0, <2>1 DEF Download, Source
  <2>3. Plaintext(Source(r))' = Plaintext(Source(r))
    BY <2>1, <2>2 DEF Plaintext
  <2>4. DownloadInOrder(r)'
    BY <1>0, <2>1, <2>2, <2>3 DEF DownloadInOrder
  <2>5. QED
    BY <2>2, <2>4, OneDownload
<1>6. CASE LeaveDownload(r)
  BY <1>6, BrokenInOrder DEF LeaveDownload
<1>7. QED
  BY <1>1, <1>2, <1>3, <1>4, <1>5, <1>6 DEF DownloadStep

LEMMA NextDownloads ==
  ASSUME TypeOK, StoredFramesAreGenuine, DownloadsInOrder, [Next]_vars
  PROVE  DownloadsInOrder'
<1> USE DEF disk, history
<1>1. ASSUME UNCHANGED download PROVE DownloadsInOrder'
  BY <1>1, SameDownload DEF DownloadsInOrder
<1>2. ASSUME NEW s \in Streams, NEW total \in Sizes,
             StartRequest(s, total) \/ StartFile(s, total)
      PROVE  DownloadsInOrder'
  BY <1>1, <1>2 DEF StartRequest, StartFile
<1>3. ASSUME NEW s \in Streams, PumpStep(s) PROVE DownloadsInOrder'
  BY <1>1, <1>3 DEF PumpStep, Put, PutBlocks, Disconnect
<1>4. ASSUME NEW s \in Streams, UploadStep(s) PROVE DownloadsInOrder'
  BY <1>1, <1>4
     DEF UploadStep, OpenStream, EncryptNext, FlushRows, CommitUpload, FailUpload, EndFailed
<1>5. ASSUME NEW r \in Readers, DownloadStep(r) \/ \E s \in Streams : OpenDownload(r, s)
      PROVE  DownloadsInOrder'
  BY <1>5, DownloadStepInOrder
<1>6. ASSUME NEW s \in Streams, LoseKey(s) \/ Damage(s) PROVE DownloadsInOrder'
  BY <1>1, <1>6 DEF LoseKey, Damage
<1>7. CASE Crash
  <2> SUFFICES ASSUME NEW r \in Readers PROVE DownloadInOrder(r)'
    BY DEF DownloadsInOrder
  <2>1. CASE download'[r] = download[r]
    BY <2>1, SameDownload
  <2>2. CASE download'[r] = Broken
    BY <2>2 DEF Broken, NoDownload, DownloadInOrder
  <2>3. QED
    BY <1>7, <2>1, <2>2 DEF Crash
<1>8. CASE UNCHANGED vars
  BY <1>1, <1>8 DEF vars
<1>9. QED
  BY <1>2, <1>3, <1>4, <1>5, <1>6, <1>7, <1>8 DEF Next

(***************************************************************************)
(* Nothing is left over, and the theorems.                                 *)
(***************************************************************************)

\* Where a stream has a temporary file, and where ciphertext.
Tidy(s) ==
  /\ s \in leftover => upload[s].pc = "reading"
  /\ stored[s] # Absent => upload[s].pc \in Encrypted

\* A step that is not a crash leaves every stream tidy.
LEMMA StaysTidy ==
  ASSUME TypeOK, UploadsInOrder, \A s \in Streams : Tidy(s), [Next]_vars, ~Crash,
         NEW t \in Streams
  PROVE  Tidy(t)'
<1> USE DEF disk, history
<1>0. /\ upload \in [Streams -> Upload] /\ upload[t] \in Upload /\ Tidy(t)
      /\ stored \in [Streams -> Seq(Frame) \cup {Absent}]
  BY DEF TypeOK
<1>1. ASSUME upload'[t] = upload[t], stored'[t] = stored[t],
             t \in leftover' => t \in leftover
      PROVE  Tidy(t)'
  BY <1>0, <1>1 DEF Tidy
<1>2. ASSUME NEW s \in Streams, NEW total \in Sizes,
             StartRequest(s, total) \/ StartFile(s, total)
      PROVE  Tidy(t)'
  <2>1. UNCHANGED <<stored, leftover>> /\ upload[s].pc = "none"
    BY <1>2 DEF StartRequest, StartFile
  <2>2. t # s => upload'[t] = upload[t]
    BY <1>0, <1>2 DEF StartRequest, StartFile
  <2>3. t = s => t \notin leftover /\ stored[t] = Absent
    BY <1>0, <2>1 DEF Tidy, Encrypted
  <2>4. QED
    BY <1>1, <2>1, <2>2, <2>3 DEF Tidy
<1>3. ASSUME NEW s \in Streams, PumpStep(s) PROVE Tidy(t)'
  BY <1>1, <1>3 DEF PumpStep, Put, PutBlocks, Disconnect
<1>4. ASSUME NEW s \in Streams, UploadStep(s) PROVE Tidy(t)'
  <2>1. CASE t # s
    <3>1. upload'[t] = upload[t]
      BY <1>0, <1>4, <2>1
         DEF UploadStep, OpenStream, EncryptNext, FlushRows, CommitUpload, FailUpload, EndFailed
    <3>2. stored'[t] = stored[t]
      BY <1>0, <1>4, <2>1
         DEF UploadStep, OpenStream, EncryptNext, Keep, FlushRows, CommitUpload, FailUpload,
             Cleaned, EndFailed
    <3>3. t \in leftover' => t \in leftover
      BY <1>4, <2>1
         DEF UploadStep, OpenStream, Temporary, EncryptNext, Keep, FlushRows, CommitUpload,
             FailUpload, EndFailed
    <3>4. QED
      BY <1>1, <3>1, <3>2, <3>3
  <2>2. CASE t = s
    <3>1. CASE OpenStream(s)
      BY <1>0, <2>2, <3>1 DEF OpenStream, Tidy, Encrypted, Upload
    <3>2. CASE EncryptNext(s)
      <4>1. InOrder(s) /\ upload[s].pc = "reading"
        BY <3>2 DEF EncryptNext, UploadsInOrder, UploadInOrder
      <4> DEFINE frames == IF Taken(s) = 0 THEN upload[s].frames ELSE NextFrames(s, FALSE)
      <4>2. ASSUME leftover' = leftover \ {s},
                   upload' = [upload EXCEPT ![s].pc = "framed", ![s].pending = Nothing,
                                            ![s].frames = <<>>]
            PROVE  Tidy(t)'
        BY <1>0, <2>2, <4>2 DEF Tidy, Encrypted, Upload
      <4>3. ASSUME UNCHANGED <<stored, leftover>>,
                   upload' = [upload EXCEPT ![s].pending = Taken(s) + 1, ![s].frames = frames]
            PROVE  Tidy(t)'
        <5> HIDE DEF frames
        <5>1. upload'[s].pc = "reading"
          BY <1>0, <2>2, <4>1, <4>3 DEF Upload
        <5>2. QED
          BY <1>0, <2>2, <4>1, <4>3, <5>1 DEF Tidy
      <4>4. QED
        BY <3>2, <4>1, <4>2, <4>3, EncryptNextEffect
    <3>3. CASE FlushRows(s)
      BY <1>0, <2>2, <3>3 DEF FlushRows, Tidy, Encrypted, Upload
    <3>4. CASE CommitUpload(s)
      BY <1>0, <2>2, <3>4 DEF CommitUpload, Tidy, Encrypted, Upload
    <3>5. CASE FailUpload(s)
      BY <1>0, <2>2, <3>5 DEF FailUpload, Cleaned, Tidy
    <3>6. CASE EndFailed(s)
      BY <1>0, <2>2, <3>6 DEF EndFailed, Tidy, Encrypted
    <3>7. QED
      BY <1>4, <3>1, <3>2, <3>3, <3>4, <3>5, <3>6 DEF UploadStep
  <2>3. QED
    BY <2>1, <2>2
<1>5. ASSUME NEW r \in Readers, DownloadStep(r) \/ \E s \in Streams : OpenDownload(r, s)
      PROVE  Tidy(t)'
  <2>1. UNCHANGED <<upload, stored, leftover>>
    BY <1>5
       DEF DownloadStep, OpenDownload, CommitDownload, OpenSource, ReadFrame, EndDownload,
           LeaveDownload
  <2>2. QED
    BY <1>1, <2>1
<1>6. ASSUME NEW s \in Streams, LoseKey(s) PROVE Tidy(t)'
  BY <1>1, <1>6 DEF LoseKey
<1>7. ASSUME NEW s \in Streams, Damage(s) PROVE Tidy(t)'
  <2>1. /\ UNCHANGED <<upload, leftover>> /\ upload[s].pc = "committed"
        /\ t = s \/ stored'[t] = stored[t]
    BY <1>0, <1>7 DEF Damage
  <2>2. QED
    BY <1>0, <1>1, <2>1 DEF Tidy, Encrypted
<1>8. CASE UNCHANGED vars
  BY <1>1, <1>8 DEF vars
<1>9. QED
  BY <1>2, <1>3, <1>4, <1>5, <1>6, <1>7, <1>8 DEF Next

LEMMA NextNoLeftover ==
  ASSUME TypeOK, UploadsInOrder, NoLeftoverWithoutCrash, [Next]_vars
  PROVE  NoLeftoverWithoutCrash'
<1>1. CASE Crash
  BY <1>1 DEF Crash, NoLeftoverWithoutCrash
<1>2. CASE ~Crash /\ ~crashed
  <2>1. \A s \in Streams : Tidy(s)
    BY <1>2 DEF NoLeftoverWithoutCrash, Tidy, Encrypted
  <2>2. \A s \in Streams : Tidy(s)'
    BY <1>2, <2>1, StaysTidy
  <2>3. QED
    BY <2>2 DEF NoLeftoverWithoutCrash, Tidy, Encrypted
<1>3. CASE ~Crash /\ crashed
  <2>1. crashed'
    <3>1. ASSUME NEW s \in Streams, NEW total \in Sizes,
                 StartRequest(s, total) \/ StartFile(s, total)
          PROVE  crashed' = crashed
      BY <3>1 DEF StartRequest, StartFile, history
    <3>2. ASSUME NEW s \in Streams, PumpStep(s) \/ UploadStep(s) \/ LoseKey(s) \/ Damage(s)
          PROVE  crashed' = crashed
      BY <3>2
         DEF PumpStep, Put, PutBlocks, Disconnect, UploadStep, OpenStream, EncryptNext,
             FlushRows, CommitUpload, FailUpload, EndFailed, LoseKey, Damage, history
    <3>3. ASSUME NEW r \in Readers, DownloadStep(r) \/ \E s \in Streams : OpenDownload(r, s)
          PROVE  crashed' = crashed
      BY <3>3
         DEF DownloadStep, OpenDownload, CommitDownload, OpenSource, ReadFrame, EndDownload,
             LeaveDownload, history
    <3>4. CASE UNCHANGED vars
      BY <1>3, <3>4 DEF vars
    <3>5. QED
      BY <1>3, <3>1, <3>2, <3>3, <3>4 DEF Next
  <2>2. QED
    BY <2>1 DEF NoLeftoverWithoutCrash
<1>4. QED
  BY <1>1, <1>2, <1>3

LEMMA InitIInv == Init => IInv
<1> SUFFICES ASSUME Init PROVE IInv
  OBVIOUS
<1>1. TypeOK
  BY InitTypeOK
<1>2. ASSUME NEW s \in Streams
      PROVE  /\ upload[s] = NoUpload("none") /\ pump[s] = NoPump /\ queue[s] = <<>>
             /\ stored[s] = Absent /\ hurt = {} /\ leftover = {}
  BY <1>2 DEF Init
<1>3. UploadsInOrder
  <2> SUFFICES ASSUME NEW s \in Streams PROVE UploadInOrder(s)
    BY DEF UploadsInOrder
  <2>1. upload[s].pc = "none" /\ pump[s].state = "none"
    BY <1>2 DEF NoUpload, NoPump
  <2>2. QED
    BY <1>2, <2>1 DEF UploadInOrder
<1>4. StoredFramesAreGenuine /\ NoLeftoverWithoutCrash
  BY <1>2 DEF StoredFramesAreGenuine, NoLeftoverWithoutCrash
<1>5. DownloadsInOrder
  BY DEF Init, DownloadsInOrder, DownloadInOrder, NoDownload
<1>6. QED
  BY <1>1, <1>3, <1>4, <1>5 DEF IInv

LEMMA NextIInv == IInv /\ [Next]_vars => IInv'
<1> SUFFICES ASSUME IInv, [Next]_vars PROVE IInv'
  OBVIOUS
<1>1. /\ TypeOK /\ UploadsInOrder /\ StoredFramesAreGenuine /\ DownloadsInOrder
      /\ NoLeftoverWithoutCrash
  BY DEF IInv
<1>2. TypeOK'
  BY <1>1, NextTypeOK
<1>3. UploadsInOrder'
  BY <1>1, NextInOrder
<1>4. StoredFramesAreGenuine'
  BY <1>1, NextGenuine
<1>5. DownloadsInOrder'
  BY <1>1, NextDownloads
<1>6. NoLeftoverWithoutCrash'
  BY <1>1, NextNoLeftover
<1>7. QED
  BY <1>2, <1>3, <1>4, <1>5, <1>6 DEF IInv

\* The inductive invariant of uploads and downloads.
THEOREM StreamInvariant == Spec => []IInv
BY InitIInv, NextIInv, PTL DEF Spec

\* Every variable keeps its type; the queue of /encrypt-stream keeps its bound.
THEOREM StreamTypeCorrect == Spec => []TypeOK
<1>1. IInv => TypeOK
  BY DEF IInv
<1>2. QED
  BY <1>1, StreamInvariant, PTL

\* A committed upload is all of what its client sent, in order, where its row says.
THEOREM CommittedUploadIsWhole == Spec => []CommittedStreamIsWhole
<1>1. IInv => CommittedStreamIsWhole
  BY DEF IInv, UploadsInOrder, UploadInOrder, CommittedStreamIsWhole
<1>2. QED
  BY <1>1, StreamInvariant, PTL

LEMMA ReleasedPrefix == IInv => ReleasedIsPrefix
<1> SUFFICES ASSUME IInv, NEW r \in Readers, download[r].out # <<>>
             PROVE  LET out == download[r].out
                    IN  /\ Len(out) <= Len(Plaintext(Source(r)))
                        /\ out = SubSeq(Plaintext(Source(r)), 1, Len(out))
  BY DEF ReleasedIsPrefix
<1> DEFINE out == download[r].out
           p == Plaintext(Source(r))
<1>1. /\ TypeOK /\ DownloadInOrder(r) /\ download[r] \in Download
  BY DEF IInv, DownloadsInOrder, TypeOK
<1>2. Source(r) \in Streams /\ out \in Seq(Chunk)
  BY <1>1 DEF DownloadInOrder, Download
<1>3. /\ Len(out) <= Len(p) /\ \A i \in 1 .. Len(out) : out[i] = p[i]
      /\ p \in Seq(Chunk) /\ Len(out) \in Nat /\ Len(p) \in Nat
  BY <1>1, <1>2, PlaintextType, LenProperties DEF DownloadInOrder
<1> HIDE DEF out, p
<1>4. \A i \in 1 .. Len(out) : p[i] \in Chunk
  BY <1>3, ElementOfSeq
<1> DEFINE q == SubSeq(p, 1, Len(out))
<1>5. /\ q \in Seq(Chunk) /\ Len(q) = Len(out)
      /\ \A i \in 1 .. Len(out) : q[i] = p[i]
  BY <1>3, <1>4
<1> HIDE DEF q
<1>6. Len(out) = Len(q) /\ \A i \in 1 .. Len(out) : out[i] = q[i]
  BY <1>3, <1>5
<1>7. out = q
  BY <1>2, <1>5, <1>6, SeqEqual
<1>8. QED
  BY <1>3, <1>7 DEF q, out, p

\* What decrypt_stream has released is how the plaintext begins, whatever happens to
\* the stored ciphertext.
THEOREM ReleasedBytesArePrefix == Spec => []ReleasedIsPrefix
BY ReleasedPrefix, StreamInvariant, PTL

\* A download that ends without an error has delivered everything, or nothing.
THEOREM EndedDownloadIsWhole == Spec => []FinishedDownloadIsWhole
<1>1. IInv => FinishedDownloadIsWhole
  <2> SUFFICES ASSUME IInv, NEW r \in Readers, download[r].pc = "ended",
                      download[r].out # <<>>
               PROVE  download[r].out = Plaintext(Source(r))
    BY DEF FinishedDownloadIsWhole
  <2>1. /\ TypeOK /\ DownloadInOrder(r) /\ download[r] \in Download
    BY DEF IInv, DownloadsInOrder, TypeOK
  <2>2. Source(r) \in Streams /\ download[r].out \in Seq(Chunk)
    BY <2>1 DEF DownloadInOrder, Download
  <2>3. Plaintext(Source(r)) \in Seq(Chunk)
    BY <2>1, <2>2, PlaintextType
  <2>4. download[r].total = 0 /\ Len(download[r].out) \in Nat
    BY <2>1, <2>2, LenProperties DEF DownloadInOrder
  <2>5. /\ Len(download[r].out) = Len(Plaintext(Source(r)))
        /\ \A i \in 1 .. Len(download[r].out) :
             download[r].out[i] = Plaintext(Source(r))[i]
    BY <2>1, <2>4 DEF DownloadInOrder
  <2>6. QED
    BY <2>2, <2>3, <2>5, SeqEqual
<1>2. QED
  BY <1>1, StreamInvariant, PTL

\* Without a crash there is no blob and no temporary file that no running upload and
\* no row accounts for.
THEOREM NothingIsLeftOver == Spec => []NoLeftoverWithoutCrash
<1>1. IInv => NoLeftoverWithoutCrash
  BY DEF IInv
<1>2. QED
  BY <1>1, StreamInvariant, PTL

\* No byte of a file leaves before the audit log has the download.
THEOREM FileBytesAreOnRecord == Spec => []FilesAreReadOnRecord
<1>1. IInv => FilesAreReadOnRecord
  <2> SUFFICES ASSUME IInv, NEW r \in Readers, download[r].out # <<>>, IsFile(Source(r))
               PROVE  download[r].audited
    BY DEF FilesAreReadOnRecord
  <2>1. DownloadInOrder(r) /\ download[r] \in Download
    BY DEF IInv, DownloadsInOrder, TypeOK
  <2>2. QED
    BY <2>1 DEF DownloadInOrder, Download
<1>2. QED
  BY <1>1, StreamInvariant, PTL

=============================================================================
