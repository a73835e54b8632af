---------------------- MODULE ProviderConnectionProofs ----------------------
(***************************************************************************)
(* Safety of ProviderConnection for any number of threads, provider        *)
(* objects, providers and KEKs, and the proof that the store implements    *)
(* KekMaterial.                                                            *)
(***************************************************************************)
EXTENDS ProviderConnection, FiniteSetTheorems, TLAPS

(***************************************************************************)
(* The inductive invariant.                                                *)
(***************************************************************************)

OnKek(t) == thread[t].op \in {"rotate", "destroy"}

\* Between the load of the file and its save a thread holds a copy.
HoldsCopy(t) == thread[t].pc \in {"loaded", "writing", "saving"}

\* A thread is where its operation can take it, and has what it needs there.
InPhase(t) ==
  /\ thread[t].pc = "idle" => thread[t].op = "none"
  /\ thread[t].pc \in {"dropping", "connecting"} => ChangesConnection(t)
  /\ thread[t].pc = "connecting" => thread[t].op # "lock"
  /\ thread[t].pc \in {"sealing", "loading", "loaded", "writing", "saving"} => OnKek(t)
  /\ thread[t].pc = "sealing" =>
       thread[t].op = "rotate" /\ thread[t].object \in Instances
  /\ IF OnKek(t) THEN thread[t].kek \in Keks ELSE thread[t].kek = NoOne

RequestsAreInPhase == \A t \in Threads : InPhase(t)

\* A KEK that is being made has no row yet and is nobody else's; one that is
\* being destroyed, or was deleted, has a row.
AgreesWithRow(t) ==
  /\ thread[t].op = "rotate" =>
       /\ kek[thread[t].kek].state = "none"
       /\ thread[t].kek \notin deleted
       /\ \A u \in Threads \ {t} : thread[u].kek # thread[t].kek
  /\ thread[t].op = "destroy" =>
       /\ kek[thread[t].kek].state # "none"
       /\ thread[t].pc = "saving" => thread[t].kek \in deleted

KekRequestsAgreeWithRows ==
  /\ \A t \in Threads : AgreesWithRow(t)
  /\ \A k \in deleted : kek[k].state # "none"

\* What a request for the connection has found or done there.
ConnectionSuits(t) ==
  /\ thread[t].pc = "dropping" => connected # NoOne /\ thread[t].object = connected
  /\ thread[t].pc = "connecting" => connected = NoOne
  /\ At(t, "open", "committing") => connected # NoOne
  /\ At(t, "lock", "committing") => connected = NoOne
  /\ At(t, "activate", "committing") =>
       /\ connected # NoOne
       /\ instance[connected] = NewRoot(thread[t].target)
       /\ active = thread[t].target

\* As long as there is one request for the connection at a time, it finds there
\* what it has left, and only the connected object has a key in memory: a live
\* one unless the request is just dropping it.
ConnectionFollowsRequest ==
  Free({"race"}) =>
    /\ \A t, u \in Threads : ChangesConnection(t) /\ ChangesConnection(u) => t = u
    /\ \A i \in Instances : instance[i].root = "live" => i = connected
    /\ connected # NoOne => \/ instance[connected].root = "live"
                            \/ \E t \in Threads : thread[t].pc = "dropping"
    /\ \A t \in Threads : ConnectionSuits(t)

\* One thread at a time holds a copy, the file is whole unless that one is
\* saving, and the copy is what the file holds or held.
OneWriterAtATime ==
  Free({"overlap", "torn"}) =>
    /\ \A t, u \in Threads : HoldsCopy(t) /\ HoldsCopy(u) => t = u
    /\ file.whole <=> \A t \in Threads : thread[t].pc # "saving"
    /\ ~file.whole => file.length = 0
    /\ \A t \in Threads : HoldsCopy(t) => thread[t].copy = file.entries

\* What the requests know of the entry of their KEK.
KnowsItsEntry(t) ==
  /\ thread[t].op = "rotate" =>
       /\ thread[t].pc # "sealing" =>
            /\ thread[t].seal \in Seals
            /\ Free({"zeroed"}) => thread[t].seal = thread[t].target
       /\ Free({"overlap", "torn"}) =>
            file.entries[thread[t].kek]
              = IF thread[t].pc = "committing" THEN thread[t].seal ELSE NoOne
  /\ thread[t].op = "destroy" /\ Free({"overlap", "torn"}) =>
       /\ thread[t].pc = "committing" => file.entries[thread[t].kek] = NoOne
       /\ HoldsCopy(t) => file.entries[thread[t].kek] # NoOne

RequestsKnowTheirEntry == \A t \in Threads : KnowsItsEntry(t)

\* The entries and the rows of KEKs nobody is saving agree.
EntriesAgreeWithRows ==
  Free({"overlap", "torn"}) =>
    \A k \in Keks :
      /\ k \in deleted =>
           \/ file.entries[k] = NoOne
           \/ \E t \in Threads : At(t, "destroy", "saving") /\ thread[t].kek = k
      /\ kek[k].state = "destroyed" => file.entries[k] = NoOne
      /\ kek[k].state = "live" /\ k \notin deleted /\ Free({"zeroed"}) =>
           file.entries[k] = kek[k].provider

StoreInv ==
  /\ KekRequestsAgreeWithRows
  /\ OneWriterAtATime
  /\ RequestsKnowTheirEntry
  /\ EntriesAgreeWithRows
  /\ StoreLeftReadOnly

IInv ==
  /\ TypeOK
  /\ RequestsAreInPhase
  /\ ConnectionFollowsRequest
  /\ StoreInv

(***************************************************************************)
(* Type correctness.                                                       *)
(***************************************************************************)

LEMMA IdleType == Idle \in Thread
BY IdentityAssumption DEF Idle, Thread, Operation, NoEntries, Entries

\* The fields of a thread.
LEMMA ThreadType ==
  ASSUME TypeOK, NEW t \in Threads
  PROVE  /\ thread[t] \in Thread
         /\ thread[t].op \in Operation
         /\ thread[t].object \in Instances \cup {NoOne}
         /\ thread[t].target \in Providers
         /\ thread[t].kek \in Keks \cup {NoOne}
         /\ thread[t].seal \in Seals \cup {NoOne}
         /\ thread[t].copy \in Entries
BY DEF TypeOK, Thread

\* What a writer will write: its copy but for the entry of its KEK.
LEMMA ChangedEntries ==
  ASSUME TypeOK, NEW t \in Threads
  PROVE  /\ Changed(t) \in Entries
         /\ \A k \in Keks : Changed(t)[k] =
              IF k = thread[t].kek
                THEN IF thread[t].op = "rotate" THEN thread[t].seal ELSE NoOne
                ELSE thread[t].copy[k]
<1>1. thread[t].seal \in Seals \cup {NoOne} /\ thread[t].copy \in [Keks -> Seals \cup {NoOne}]
  BY ThreadType DEF Entries
<1>2. PICK entry \in Seals \cup {NoOne} :
        entry = IF thread[t].op = "rotate" THEN thread[t].seal ELSE NoOne
  BY <1>1
<1>3. Changed(t) = [thread[t].copy EXCEPT ![thread[t].kek] = entry]
  BY <1>2, Zenon DEF Changed
<1>4. QED
  BY <1>1, <1>2, <1>3 DEF Entries

\* The file has room for a number of entries.
LEMMA SizeType ==
  ASSUME NEW entries
  PROVE  Size(entries) \in Nat
<1>1. IsFiniteSet({k \in Keks : entries[k] # NoOne})
  BY KeksAssumption, FS_Subset
<1>2. QED
  BY <1>1, FS_CardinalityType DEF Size

LEMMA InitTypeOK == Init => TypeOK
<1> SUFFICES ASSUME Init PROVE TypeOK
  OBVIOUS
<1>1. file \in File
  BY IdentityAssumption DEF Init, File, NoEntries, Entries, Seals
<1>2. thread \in [Threads -> Thread]
  BY IdleType DEF Init
<1>3. kek \in [Keks -> [state : {"none", "live", "destroyed"}, provider : Providers]]
  BY IdentityAssumption DEF Init
<1>4. instance \in [Instances -> [provider : Providers, root : {"none", "live", "zeroed"}]]
  BY IdentityAssumption DEF Init, Absent
<1>5. QED
  BY <1>1, <1>2, <1>3, <1>4, IdentityAssumption DEF Init, TypeOK

\* A finished request leaves its thread idle, and the others alone.
LEMMA FinishType ==
  ASSUME TypeOK, NEW t \in Threads, Finish(t)
  PROVE  thread' \in [Threads -> Thread]
BY IdleType DEF Finish, TypeOK

LEMMA ConnectionStepType ==
  ASSUME TypeOK, NEW t \in Threads, ConnectionStep(t)
  PROVE  TypeOK'
<1> USE DEF connection, store, rows
<1>0. thread \in [Threads -> Thread] /\ connected \in Instances \cup {NoOne}
  BY DEF TypeOK
<1>1. ASSUME NEW p \in Providers, BeginOpen(t, p) PROVE TypeOK'
  <2>1. PICK pc \in {"committing", "connecting"} :
          thread' = [thread EXCEPT ![t].op = "open", ![t].target = p, ![t].pc = pc]
    BY <1>1 DEF BeginOpen
  <2>2. thread' \in [Threads -> Thread]
    <3>1. [thread[t] EXCEPT !.op = "open", !.target = p, !.pc = pc] \in Thread
      BY ThreadType DEF Thread, Operation
    <3>2. QED
      BY <1>0, <2>1, <3>1
  <2>3. mishaps' \in SUBSET Mishap
    BY <1>1 DEF BeginOpen, NoteRace, Add, Mishap, TypeOK
  <2>4. QED
    BY <1>1, <2>2, <2>3 DEF BeginOpen, TypeOK
<1>2. ASSUME NEW op \in {"lock", "activate"}, NEW p \in Providers,
             NEW next \in {"committing", "connecting"},
             BeginDisconnect(t, op, p, next)
      PROVE  TypeOK'
  <2>1. PICK pc \in {"dropping", "committing", "connecting"} :
          thread' = [thread EXCEPT ![t].op = op, ![t].target = p,
                                   ![t].object = connected, ![t].pc = pc]
    BY <1>2 DEF BeginDisconnect
  <2>2. thread' \in [Threads -> Thread]
    <3>1. [thread[t] EXCEPT !.op = op, !.target = p, !.object = connected, !.pc = pc]
            \in Thread
      <4>1. thread[t] \in Thread /\ op \in Operation
        BY <1>0 DEF Operation
      <4>2. QED
        BY <1>0, <4>1 DEF Thread
    <3>2. QED
      BY <1>0, <2>1, <3>1
  <2>3. instance' = instance \/ (connected \in Instances /\ ZeroConnected)
    BY <1>0, <1>2 DEF BeginDisconnect
  <2>4. instance' \in [Instances -> [provider : Providers, root : {"none", "live", "zeroed"}]]
    BY <2>3 DEF ZeroConnected, TypeOK
  <2>5. mishaps' \in SUBSET Mishap
    BY <1>2 DEF BeginDisconnect, NoteRace, Add, Mishap, TypeOK
  <2>6. QED
    BY <1>2, <2>2, <2>4, <2>5 DEF BeginDisconnect, TypeOK
<1>3. CASE Drop(t)
  <2>1. PICK pc \in {"committing", "connecting"} : GoTo(t, pc)
    BY <1>3 DEF Drop
  <2>2. thread' \in [Threads -> Thread]
    BY <1>0, <2>1 DEF GoTo, Thread
  <2>3. Absent \in [provider : Providers, root : {"none", "live", "zeroed"}]
    BY IdentityAssumption DEF Absent
  <2>4. instance' \in [Instances -> [provider : Providers, root : {"none", "live", "zeroed"}]]
    BY <1>3, <2>3 DEF Drop, TypeOK
  <2>5. QED
    BY <1>3, <2>2, <2>4 DEF Drop, TypeOK
<1>4. ASSUME NEW i \in Instances, Connect(t, i) PROVE TypeOK'
  <2>1. thread' \in [Threads -> Thread]
    <3>1. [thread[t] EXCEPT !.pc = "committing", !.object = NoOne] \in Thread
      BY ThreadType DEF Thread
    <3>2. QED
      BY <1>0, <1>4, <3>1 DEF Connect
  <2>2. thread[t].target \in Providers
    BY ThreadType
  <2>3. instance' \in [Instances -> [provider : Providers, root : {"none", "live", "zeroed"}]]
    BY <1>4, <2>2 DEF Connect, NewRoot, TypeOK
  <2>4. QED
    BY <1>4, <2>1, <2>2, <2>3 DEF Connect, TypeOK
<1>5. CASE ConnectFails(t) \/ CommitOpen(t) \/ CommitLock(t) \/ CommitActivate(t)
  <2>1. thread' \in [Threads -> Thread]
    BY <1>5, FinishType DEF ConnectFails, CommitOpen, CommitLock, CommitActivate
  <2>2. QED
    BY <1>5, <2>1
       DEF ConnectFails, CommitOpen, CommitLock, CommitActivate, TypeOK
<1>6. QED
  BY <1>1, <1>2, <1>3, <1>4, <1>5, IdentityAssumption
     DEF ConnectionStep, BeginActivate, BeginLock

LEMMA StoreStepType ==
  ASSUME TypeOK, RequestsAreInPhase, NEW t \in Threads, StoreStep(t)
  PROVE  TypeOK'
<1> USE DEF connection, store, rows
<1>0. thread \in [Threads -> Thread] /\ connected \in Instances \cup {NoOne} /\ file \in File
  BY DEF TypeOK
<1>1. ASSUME NEW k \in Keks, BeginRotate(t, k) PROVE TypeOK'
  <2>1. connected \in Instances /\ current \in Keks
    BY <1>0, <1>1 DEF BeginRotate, HasService, TypeOK
  <2>2. instance[connected].provider \in Providers
    BY <2>1 DEF TypeOK
  <2>3. thread' \in [Threads -> Thread]
    BY <1>0, <1>1, <2>1, <2>2 DEF BeginRotate, Thread, Operation
  <2>4. QED
    BY <1>1, <2>3 DEF BeginRotate, TypeOK
<1>2. ASSUME NEW k \in Keks, BeginDestroy(t, k) PROVE TypeOK'
  <2>1. thread' \in [Threads -> Thread]
    BY <1>0, <1>2 DEF BeginDestroy, Thread, Operation
  <2>2. QED
    BY <1>2, <2>1 DEF BeginDestroy, TypeOK
<1>3. CASE Seal(t)
  <2>1. thread' \in [Threads -> Thread]
    <3>1. CASE Finish(t)
      BY <3>1, FinishType
    <3>2. CASE ~Finish(t)
      <4>1. PICK seal \in Seals :
              thread' = [thread EXCEPT ![t].pc = "loading", ![t].object = NoOne,
                                       ![t].seal = seal]
        BY <1>3, <3>2, ThreadType DEF Seal, Seals
      <4>2. [thread[t] EXCEPT !.pc = "loading", !.object = NoOne, !.seal = seal] \in Thread
        BY ThreadType DEF Thread
      <4>3. QED
        BY <1>0, <4>1, <4>2
    <3>3. QED
      BY <3>1, <3>2
  <2>2. mishaps' \in SUBSET Mishap
    BY <1>3 DEF Seal, Add, Mishap, TypeOK
  <2>3. QED
    BY <1>3, <2>1, <2>2 DEF Seal, TypeOK
<1>4. CASE Load(t)
  <2>1. thread' \in [Threads -> Thread]
    <3>1. CASE file.whole
      <4>1. PICK pc \in {"committing", "loaded"} :
              thread' = [thread EXCEPT ![t].copy = file.entries, ![t].pc = pc]
        BY <1>4, <3>1 DEF Load
      <4>2. file.entries \in Entries
        BY <1>0 DEF File
      <4>3. [thread[t] EXCEPT !.copy = file.entries, !.pc = pc] \in Thread
        BY <4>2, ThreadType DEF Thread
      <4>4. QED
        BY <1>0, <4>1, <4>3
    <3>2. CASE ~file.whole
      BY <1>4, <3>2, FinishType DEF Load
    <3>3. QED
      BY <3>1, <3>2
  <2>2. mishaps' \in SUBSET Mishap
    BY <1>4 DEF Load, Add, Mishap, TypeOK
  <2>3. QED
    BY <1>4, <2>1, <2>2 DEF Load, TypeOK
<1>5. CASE MakeWritable(t)
  <2>1. thread' \in [Threads -> Thread]
    BY <1>0, <1>5 DEF MakeWritable, GoTo, Thread
  <2>2. file' \in File
    BY <1>0, <1>5 DEF MakeWritable, File
  <2>3. QED
    BY <1>5, <2>1, <2>2 DEF MakeWritable, TypeOK
<1>6. CASE Truncate(t)
  <2>1. CASE file.mode = "0400"
    <3>1. Finish(t) /\ UNCHANGED <<connection, store, rows, mishaps>>
      BY <1>6, <2>1 DEF Truncate
    <3>2. QED
      BY <3>1, FinishType DEF TypeOK
  <2>2. CASE file.mode # "0400"
    <3>1. thread' \in [Threads -> Thread]
      BY <1>0, <1>6, <2>2 DEF Truncate, GoTo, Thread
    <3>2. file' = [file EXCEPT !.whole = FALSE, !.length = 0]
      BY <1>6, <2>2 DEF Truncate
    <3>3. file' \in File
      BY <1>0, <3>2 DEF File
    <3>4. deleted' \in SUBSET Keks
      BY <1>6, <2>2 DEF Truncate, RequestsAreInPhase, InPhase, OnKek, TypeOK
    <3>5. QED
      BY <1>6, <3>1, <3>3, <3>4 DEF Truncate, TypeOK
  <2>3. QED
    BY <2>1, <2>2
<1>7. CASE Write(t)
  <2>1. thread' \in [Threads -> Thread]
    <3>1. NoEntries \in Entries
      BY DEF NoEntries, Entries
    <3>2. [thread[t] EXCEPT !.pc = "committing", !.copy = NoEntries] \in Thread
      BY <3>1, ThreadType DEF Thread
    <3>3. QED
      BY <1>0, <1>7, <3>2 DEF Write
  <2>2. file' \in File
    <3> DEFINE fits == file.length <= Size(Changed(t))
               length == IF fits THEN Size(Changed(t)) ELSE file.length
               entries == IF fits THEN Changed(t) ELSE NoEntries
    <3>1. file' = [whole |-> fits, mode |-> SavedMode, length |-> length,
                   entries |-> entries]
      BY <1>7 DEF Write
    <3>2. fits \in BOOLEAN
      OBVIOUS
    <3>3. length \in Nat
      BY <1>0, SizeType DEF File
    <3>4. entries \in Entries
      BY ChangedEntries DEF NoEntries, Entries
    <3> HIDE DEF fits, length, entries
    <3>5. QED
      BY <3>1, <3>2, <3>3, <3>4 DEF File, SavedMode
  <2>3. QED
    BY <1>7, <2>1, <2>2 DEF Write, TypeOK
<1>8. CASE CommitRotate(t)
  <2>1. thread[t].kek \in Keks
    BY <1>8 DEF CommitRotate, At, RequestsAreInPhase, InPhase, OnKek
  <2>2. thread' \in [Threads -> Thread]
    BY <1>8, FinishType DEF CommitRotate
  <2>3. current' \in Keks
    BY <1>8, <2>1 DEF CommitRotate, TypeOK
  <2>4. kek' \in [Keks -> [state : {"none", "live", "destroyed"}, provider : Providers]]
    BY <1>8, <2>1, ThreadType DEF CommitRotate, ProviderName, TypeOK
  <2>5. QED
    BY <1>8, <2>2, <2>3, <2>4 DEF CommitRotate, TypeOK
<1>9. CASE CommitDestroy(t)
  <2>1. thread' \in [Threads -> Thread]
    BY <1>9, FinishType DEF CommitDestroy
  <2>2. QED
    BY <1>9, <2>1 DEF CommitDestroy, TypeOK
<1>10. CASE WriteFails(t)
  <2>1. thread' \in [Threads -> Thread]
    BY <1>10, FinishType DEF WriteFails
  <2>2. QED
    BY <1>10, <2>1 DEF WriteFails, TypeOK, Mishap, connection, store, rows
<1>11. QED
  BY <1>1, <1>2, <1>3, <1>4, <1>5, <1>6, <1>7, <1>8, <1>9, <1>10 DEF StoreStep

LEMMA NextTypeOK == TypeOK /\ RequestsAreInPhase /\ [Next]_vars => TypeOK'
<1> SUFFICES ASSUME TypeOK, RequestsAreInPhase, [Next]_vars PROVE TypeOK'
  OBVIOUS
<1>1. ASSUME NEW t \in Threads, ConnectionStep(t) \/ StoreStep(t) PROVE TypeOK'
  BY <1>1, ConnectionStepType, StoreStepType
<1>2. ASSUME NEW t \in Threads, Abandon(t) PROVE TypeOK'
  BY <1>2, FinishType DEF Abandon, TypeOK, connection, store, rows
<1>3. CASE Crash
  <2>1. thread' \in [Threads -> Thread]
    BY <1>3, IdleType DEF Crash
  <2>2. instance' \in [Instances -> [provider : Providers, root : {"none", "live", "zeroed"}]]
    BY <1>3, IdentityAssumption DEF Crash, Absent
  <2>3. QED
    BY <1>3, <2>1, <2>2, IdentityAssumption DEF Crash, TypeOK, Mishap, store, rows
<1>4. CASE UNCHANGED vars
  BY <1>4 DEF vars, TypeOK
<1>5. QED
  BY <1>1, <1>2, <1>3, <1>4 DEF Next

(***************************************************************************)
(* What a step does to the threads.                                        *)
(***************************************************************************)

Step(t) == ConnectionStep(t) \/ StoreStep(t) \/ Abandon(t)

\* A step of one thread leaves what the others are doing alone.
LEMMA OthersUntouched ==
  ASSUME TypeOK, NEW t \in Threads, Step(t), NEW u \in Threads \ {t}
  PROVE  thread'[u] = thread[u]
<1> USE DEF GoTo, Finish
<1>0. thread \in [Threads -> Thread]
  BY DEF TypeOK
<1>1. CASE ConnectionStep(t)
  BY <1>0, <1>1 DEF ConnectionStep, BeginOpen, BeginActivate, BeginLock, BeginDisconnect,
     Drop, Connect, ConnectFails, CommitOpen, CommitLock, CommitActivate
<1>2. CASE StoreStep(t)
  BY <1>0, <1>2 DEF StoreStep, BeginRotate, BeginDestroy, Seal, Load, MakeWritable,
     Truncate, Write, WriteFails, CommitRotate, CommitDestroy
<1>3. CASE Abandon(t)
  BY <1>0, <1>3 DEF Abandon
<1>4. QED
  BY <1>1, <1>2, <1>3 DEF Step

\* A thread whose request has ended.
LEMMA FinishIsIdle ==
  ASSUME TypeOK, NEW t \in Threads, Finish(t)
  PROVE  /\ thread'[t].pc = "idle" /\ thread'[t].op = "none"
         /\ thread'[t].kek = NoOne
<1>1. thread'[t] = Idle
  BY DEF Finish, TypeOK
<1>2. QED
  BY <1>1 DEF Idle

LEMMA FinishIsInPhase ==
  ASSUME TypeOK, NEW t \in Threads, Finish(t)
  PROVE  InPhase(t)'
BY FinishIsIdle DEF InPhase, OnKek

\* The fields of a thread that has taken a step of its own.
LEMMA StepIsInPhase ==
  ASSUME TypeOK, RequestsAreInPhase, NEW t \in Threads, Step(t)
  PROVE  InPhase(t)'
<1> USE DEF OnKek, ChangesConnection
<1>0. InPhase(t) /\ thread \in [Threads -> Thread] /\ thread[t] \in Thread
  BY DEF RequestsAreInPhase, TypeOK
<1>1. ASSUME NEW p \in Providers, BeginOpen(t, p) PROVE InPhase(t)'
  BY <1>0, <1>1 DEF BeginOpen, InPhase, Thread
<1>2. ASSUME NEW op \in {"lock", "activate"}, NEW p \in Providers,
             NEW next \in {"committing", "connecting"},
             op = "lock" => next = "committing",
             BeginDisconnect(t, op, p, next)
      PROVE  InPhase(t)'
  BY <1>0, <1>2 DEF BeginDisconnect, InPhase, Thread
<1>3. CASE Drop(t)
  BY <1>0, <1>3 DEF Drop, GoTo, InPhase, Thread
<1>4. ASSUME NEW i \in Instances, Connect(t, i) PROVE InPhase(t)'
  BY <1>0, <1>4 DEF Connect, InPhase, Thread
<1>5. ASSUME NEW k \in Keks, BeginRotate(t, k) PROVE InPhase(t)'
  <2>1. connected \in Instances
    BY <1>5 DEF BeginRotate, HasService, TypeOK
  <2>2. QED
    BY <1>0, <1>5, <2>1 DEF BeginRotate, InPhase, Thread
<1>6. ASSUME NEW k \in Keks, BeginDestroy(t, k) PROVE InPhase(t)'
  BY <1>0, <1>6 DEF BeginDestroy, InPhase, Thread
<1>7. CASE Seal(t) /\ ~Finish(t)
  BY <1>0, <1>7 DEF Seal, InPhase, Thread
<1>8. CASE Load(t) /\ ~Finish(t)
  BY <1>0, <1>8 DEF Load, InPhase, Thread
<1>9. CASE MakeWritable(t) \/ (Truncate(t) /\ ~Finish(t))
  BY <1>0, <1>9 DEF MakeWritable, Truncate, GoTo, InPhase, Thread
<1>10. CASE Write(t)
  BY <1>0, <1>10 DEF Write, InPhase, Thread
<1>11. QED
  BY <1>1, <1>2, <1>3, <1>4, <1>5, <1>6, <1>7, <1>8, <1>9, <1>10, FinishIsInPhase,
     IdentityAssumption
     DEF Step, ConnectionStep, StoreStep, BeginActivate, BeginLock, ConnectFails,
         CommitOpen, CommitLock, CommitActivate, WriteFails, CommitRotate, CommitDestroy,
         Abandon

LEMMA NextRequestsAreInPhase ==
  TypeOK /\ RequestsAreInPhase /\ [Next]_vars => RequestsAreInPhase'
<1> SUFFICES ASSUME TypeOK, RequestsAreInPhase, [Next]_vars, NEW u \in Threads
             PROVE  InPhase(u)'
  BY DEF RequestsAreInPhase
<1>1. ASSUME NEW t \in Threads, Step(t) PROVE InPhase(u)'
  <2>1. CASE u = t
    BY <1>1, <2>1, StepIsInPhase
  <2>2. CASE u # t
    <3>1. thread'[u] = thread[u] /\ InPhase(u)
      BY <1>1, <2>2, OthersUntouched DEF RequestsAreInPhase
    <3>2. QED
      BY <3>1 DEF InPhase, OnKek, ChangesConnection
  <2>3. QED
    BY <2>1, <2>2
<1>2. CASE Crash
  BY <1>2 DEF Crash, Idle, InPhase, OnKek
<1>3. CASE UNCHANGED vars
  BY <1>3 DEF vars, RequestsAreInPhase, InPhase, OnKek, ChangesConnection
<1>4. QED
  BY <1>1, <1>2, <1>3 DEF Next, Step

\* What has happened has happened.
LEMMA MishapsGrow ==
  ASSUME [Next]_vars
  PROVE  /\ mishaps \subseteq mishaps'
         /\ \A hazards : Free(hazards)' => Free(hazards)
<1>1. ASSUME NEW t \in Threads, ConnectionStep(t) PROVE mishaps \subseteq mishaps'
  BY <1>1 DEF ConnectionStep, NoteRace, Add, BeginOpen, BeginActivate, BeginLock,
     BeginDisconnect, Drop, Connect, ConnectFails, CommitOpen, CommitLock, CommitActivate
<1>2. ASSUME NEW t \in Threads, StoreStep(t) PROVE mishaps \subseteq mishaps'
  BY <1>2 DEF StoreStep, Add, BeginRotate, BeginDestroy, Seal, Load, MakeWritable,
     Truncate, Write, WriteFails, CommitRotate, CommitDestroy
<1>3. ASSUME NEW t \in Threads, Abandon(t) PROVE mishaps \subseteq mishaps'
  BY <1>3 DEF Abandon
<1>4. ASSUME Crash \/ UNCHANGED vars PROVE mishaps \subseteq mishaps'
  BY <1>4 DEF Crash, vars
<1>5. mishaps \subseteq mishaps'
  BY <1>1, <1>2, <1>3, <1>4 DEF Next
<1>6. QED
  BY <1>5 DEF Free

(***************************************************************************)
(* The connection.                                                         *)
(***************************************************************************)

\* A step that leaves the connection alone and ends its request, or is not part
\* of a request for the connection.
LEMMA QuietKeepsConnection ==
  ASSUME ConnectionFollowsRequest, NEW t \in Threads,
         UNCHANGED <<connected, active, instance>>,
         \A u \in Threads \ {t} : thread'[u] = thread[u],
         InPhase(t)', ~ChangesConnection(t)', thread[t].pc # "dropping",
         Free({"race"})' => Free({"race"})
  PROVE  ConnectionFollowsRequest'
<1> SUFFICES ASSUME Free({"race"})' PROVE ConnectionFollowsRequest'
  BY DEF ConnectionFollowsRequest
<1> USE DEF ConnectionFollowsRequest, ChangesConnection
<1>1. \A u \in Threads : ChangesConnection(u)' => u # t /\ thread'[u] = thread[u]
  OBVIOUS
<1>2. \A u \in Threads : thread[u].pc = "dropping" => thread'[u] = thread[u]
  OBVIOUS
<1>3. ASSUME NEW u \in Threads PROVE ConnectionSuits(u)'
  <2>1. CASE u = t
    BY <2>1 DEF ConnectionSuits, InPhase, At
  <2>2. CASE u # t
    <3>1. thread'[u] = thread[u] /\ ConnectionSuits(u)
      BY <2>2
    <3>2. QED
      BY <3>1 DEF ConnectionSuits, At
  <2>3. QED
    BY <2>1, <2>2
<1>4. QED
  BY <1>1, <1>2, <1>3

\* The first request for the connection, when no other one is under way.
LEMMA OnlyRequest ==
  ASSUME NEW t \in Threads, NoteRace(t), Free({"race"})'
  PROVE  \A u \in Threads \ {t} : ~ChangesConnection(u)
BY DEF NoteRace, Add, Free

LEMMA BeginOpenKeepsConnection ==
  ASSUME TypeOK, RequestsAreInPhase, ConnectionFollowsRequest,
         NEW t \in Threads, NEW p \in Providers, BeginOpen(t, p),
         Free({"race"})' => Free({"race"})
  PROVE  ConnectionFollowsRequest'
<1> SUFFICES ASSUME Free({"race"})' PROVE ConnectionFollowsRequest'
  BY DEF ConnectionFollowsRequest
<1>1. \A u \in Threads \ {t} : ~ChangesConnection(u) /\ thread'[u] = thread[u]
  BY OnlyRequest, OthersUntouched DEF BeginOpen, Step, ConnectionStep
<1>2. /\ thread'[t].op = "open"
      /\ thread'[t].pc = IF connected = NoOne THEN "connecting" ELSE "committing"
  BY DEF BeginOpen, TypeOK, Thread
<1>3. UNCHANGED <<connected, active, instance>>
  BY DEF BeginOpen, connection
<1>4. \A u \in Threads : thread[u].pc # "dropping"
  BY <1>1 DEF BeginOpen, RequestsAreInPhase, InPhase
<1>5. ASSUME NEW u \in Threads PROVE ConnectionSuits(u)'
  <2>1. CASE u = t
    BY <1>2, <1>3, <2>1 DEF ConnectionSuits, At
  <2>2. CASE u # t
    BY <1>1, <1>3, <2>2 DEF ConnectionSuits, At, ConnectionFollowsRequest
  <2>3. QED
    BY <2>1, <2>2
<1>6. \A u \in Threads : ChangesConnection(u)' => u = t
  BY <1>1 DEF ChangesConnection
<1>7. QED
  BY <1>3, <1>4, <1>5, <1>6 DEF ConnectionFollowsRequest

LEMMA BeginDisconnectKeepsConnection ==
  ASSUME TypeOK, RequestsAreInPhase, ConnectionFollowsRequest, NEW t \in Threads,
         NEW op, NEW p \in Providers, NEW next, BeginDisconnect(t, op, p, next),
         <<op, next>> \in {<<"lock", "committing">>, <<"activate", "connecting">>},
         \A u \in Threads \ {t} : thread'[u] = thread[u],
         Free({"race"})' => Free({"race"})
  PROVE  ConnectionFollowsRequest'
<1> SUFFICES ASSUME Free({"race"})' PROVE ConnectionFollowsRequest'
  BY DEF ConnectionFollowsRequest
<1>1. \A u \in Threads \ {t} : ~ChangesConnection(u) /\ thread'[u] = thread[u]
  BY OnlyRequest DEF BeginDisconnect
<1>2. /\ thread'[t].op = op
      /\ thread'[t].pc = IF connected = NoOne THEN next ELSE "dropping"
      /\ thread'[t].object = connected
  BY DEF BeginDisconnect, TypeOK, Thread
<1>3. UNCHANGED <<connected, active>>
  BY DEF BeginDisconnect
<1>4. \A i \in Instances : instance'[i].root = "live" => i = connected
  <2>1. CASE connected = NoOne
    BY <2>1 DEF BeginDisconnect, ConnectionFollowsRequest
  <2>2. CASE connected # NoOne
    BY <2>2 DEF BeginDisconnect, ZeroConnected, ConnectionFollowsRequest, TypeOK
  <2>3. QED
    BY <2>1, <2>2
<1>5. ASSUME NEW u \in Threads PROVE ConnectionSuits(u)'
  <2>1. CASE u = t
    BY <1>2, <1>3, <2>1 DEF ConnectionSuits, At
  <2>2. CASE u # t
    <3>1. ~ChangesConnection(u) /\ thread'[u] = thread[u] /\ InPhase(u)
      BY <1>1, <2>2 DEF RequestsAreInPhase
    <3>2. QED
      BY <3>1 DEF ConnectionSuits, At, InPhase, ChangesConnection
  <2>3. QED
    BY <2>1, <2>2
<1>6. \A u \in Threads : ChangesConnection(u)' => u = t
  BY <1>1 DEF ChangesConnection
<1>7. connected' # NoOne => thread'[t].pc = "dropping"
  BY <1>2, <1>3
<1>8. QED
  BY <1>3, <1>4, <1>5, <1>6, <1>7 DEF ConnectionFollowsRequest

\* The request at work is the only one for the connection.
LEMMA OthersElsewhere ==
  ASSUME ConnectionFollowsRequest, RequestsAreInPhase, Free({"race"}),
         NEW t \in Threads, thread[t].pc \in {"dropping", "connecting"},
         NEW u \in Threads \ {t}
  PROVE  /\ ~ChangesConnection(u)
         /\ thread[u].pc \notin {"dropping", "connecting"}
BY DEF ConnectionFollowsRequest, RequestsAreInPhase, InPhase

LEMMA DropKeepsConnection ==
  ASSUME TypeOK, RequestsAreInPhase, ConnectionFollowsRequest,
         NEW t \in Threads, Drop(t), Free({"race"})' => Free({"race"})
  PROVE  ConnectionFollowsRequest'
<1> SUFFICES ASSUME Free({"race"}) PROVE ConnectionFollowsRequest'
  BY DEF ConnectionFollowsRequest
<1>1. ASSUME NEW u \in Threads \ {t}
      PROVE  /\ ~ChangesConnection(u) /\ thread'[u] = thread[u]
             /\ thread[u].pc \notin {"dropping", "connecting"}
  BY OthersElsewhere, OthersUntouched DEF Drop, Step, ConnectionStep
<1>2. /\ thread'[t].op = thread[t].op /\ thread[t].op \in {"open", "lock", "activate"}
      /\ thread'[t].pc = IF thread[t].op = "lock" THEN "committing" ELSE "connecting"
  BY DEF Drop, GoTo, TypeOK, Thread, RequestsAreInPhase, InPhase, ChangesConnection
<1>3. connected' = NoOne /\ connected # NoOne /\ thread[t].object = connected
  BY DEF Drop, ConnectionFollowsRequest, ConnectionSuits
<1>4. \A i \in Instances : instance'[i].root # "live"
  BY <1>3 DEF Drop, Absent, ConnectionFollowsRequest, TypeOK
<1>5. ASSUME NEW u \in Threads PROVE ConnectionSuits(u)'
  <2>1. CASE u = t
    BY <1>2, <1>3, <2>1 DEF ConnectionSuits, At
  <2>2. CASE u # t
    BY <1>1, <2>2 DEF ConnectionSuits, At, ChangesConnection
  <2>3. QED
    BY <2>1, <2>2
<1>6. \A u \in Threads : ChangesConnection(u)' => u = t
  BY <1>1 DEF ChangesConnection
<1>7. QED
  BY <1>3, <1>4, <1>5, <1>6 DEF ConnectionFollowsRequest

LEMMA ConnectKeepsConnection ==
  ASSUME TypeOK, RequestsAreInPhase, ConnectionFollowsRequest, NEW t \in Threads,
         NEW i \in Instances, Connect(t, i), Free({"race"})' => Free({"race"})
  PROVE  ConnectionFollowsRequest'
<1> SUFFICES ASSUME Free({"race"}) PROVE ConnectionFollowsRequest'
  BY DEF ConnectionFollowsRequest
<1>1. ASSUME NEW u \in Threads \ {t}
      PROVE  /\ ~ChangesConnection(u) /\ thread'[u] = thread[u]
             /\ thread[u].pc \notin {"dropping", "connecting"}
  BY OthersElsewhere, OthersUntouched DEF Connect, Step, ConnectionStep
<1>2. /\ thread'[t].op = thread[t].op /\ thread[t].op \in {"open", "lock", "activate"}
      /\ thread'[t].pc = "committing"
      /\ thread'[t].target = thread[t].target
  BY DEF Connect, TypeOK, Thread, RequestsAreInPhase, InPhase, ChangesConnection
<1>3. connected = NoOne /\ connected' = i /\ i # NoOne /\ active' = thread[t].target
  BY IdentityAssumption DEF Connect, ConnectionFollowsRequest, ConnectionSuits
<1>4. /\ instance'[i] = NewRoot(thread[t].target)
      /\ \A j \in Instances \ {i} : instance'[j] = instance[j]
  BY DEF Connect, TypeOK
<1>5. \A j \in Instances : instance'[j].root = "live" <=> j = i
  BY <1>3, <1>4, IdentityAssumption DEF ConnectionFollowsRequest, NewRoot
<1>6. ASSUME NEW u \in Threads PROVE ConnectionSuits(u)'
  <2>1. CASE u = t
    <3>1. thread[t].op # "lock"
      BY DEF Connect, RequestsAreInPhase, InPhase
    <3>2. QED
      BY <1>2, <1>3, <1>4, <2>1, <3>1 DEF ConnectionSuits, At, NewRoot
  <2>2. CASE u # t
    BY <1>1, <2>2 DEF ConnectionSuits, At, ChangesConnection
  <2>3. QED
    BY <2>1, <2>2
<1>7. \A u \in Threads : ChangesConnection(u)' => u = t
  BY <1>1 DEF ChangesConnection
<1>8. QED
  BY <1>3, <1>5, <1>6, <1>7 DEF ConnectionFollowsRequest

LEMMA NextConnectionFollowsRequest ==
  TypeOK /\ RequestsAreInPhase /\ ConnectionFollowsRequest /\ [Next]_vars
    => ConnectionFollowsRequest'
<1> SUFFICES ASSUME TypeOK, RequestsAreInPhase, ConnectionFollowsRequest, [Next]_vars
             PROVE  ConnectionFollowsRequest'
  OBVIOUS
<1>1. Free({"race"})' => Free({"race"})
  BY MishapsGrow
<1>2. ASSUME NEW t \in Threads, Step(t),
             UNCHANGED <<connected, active, instance>>,
             ~ChangesConnection(t)', thread[t].pc # "dropping"
      PROVE  ConnectionFollowsRequest'
  BY <1>1, <1>2, OthersUntouched, StepIsInPhase, QuietKeepsConnection
<1>3. ASSUME NEW t \in Threads, Finish(t) PROVE ~ChangesConnection(t)'
  BY <1>3, FinishIsIdle DEF ChangesConnection
<1>4. ASSUME NEW t \in Threads, ConnectionStep(t) PROVE ConnectionFollowsRequest'
  <2>1. Step(t)
    BY <1>4 DEF Step
  <2>2. ASSUME NEW p \in Providers, BeginOpen(t, p) PROVE ConnectionFollowsRequest'
    BY <1>1, <2>2, BeginOpenKeepsConnection
  <2>3. ASSUME NEW p \in Providers, BeginActivate(t, p) PROVE ConnectionFollowsRequest'
    <3>1. BeginDisconnect(t, "activate", p, "connecting")
      BY <2>3 DEF BeginActivate
    <3>2. QED
      BY <1>1, <2>1, <3>1, OthersUntouched, BeginDisconnectKeepsConnection
  <2>4. CASE BeginLock(t)
    <3>1. BeginDisconnect(t, "lock", Default, "committing")
      BY <2>4 DEF BeginLock
    <3>2. QED
      BY <1>1, <2>1, <3>1, IdentityAssumption, OthersUntouched,
         BeginDisconnectKeepsConnection
  <2>5. CASE Drop(t)
    BY <1>1, <2>5, DropKeepsConnection
  <2>6. ASSUME NEW i \in Instances, Connect(t, i) PROVE ConnectionFollowsRequest'
    BY <1>1, <2>6, ConnectKeepsConnection
  <2>7. CASE ConnectFails(t) \/ CommitOpen(t) \/ CommitLock(t) \/ CommitActivate(t)
    <3>1. Finish(t) /\ UNCHANGED <<connected, active, instance>>
          /\ thread[t].pc # "dropping"
      BY <2>7 DEF ConnectFails, CommitOpen, CommitLock, CommitActivate, At, connection
    <3>2. QED
      BY <1>2, <1>3, <2>1, <3>1
  <2>8. QED
    BY <1>4, <2>2, <2>3, <2>4, <2>5, <2>6, <2>7 DEF ConnectionStep
<1>5. ASSUME NEW t \in Threads, StoreStep(t) PROVE ConnectionFollowsRequest'
  <2>1. UNCHANGED <<connected, active, instance>> /\ thread[t].pc # "dropping"
    BY <1>5 DEF StoreStep, BeginRotate, BeginDestroy, Seal, Load, MakeWritable,
       Truncate, Write, WriteFails, CommitRotate, CommitDestroy, At, connection
  <2>2. ~ChangesConnection(t)'
    <3>1. CASE Finish(t)
      BY <1>3, <3>1
    <3>2. CASE ~Finish(t)
      <4>1. thread'[t].op \in {"rotate", "destroy"}
        <5>1. ASSUME NEW k \in Keks, BeginRotate(t, k) \/ BeginDestroy(t, k)
              PROVE  thread'[t].op \in {"rotate", "destroy"}
          BY <5>1 DEF BeginRotate, BeginDestroy, TypeOK, Thread
        <5>2. ASSUME Seal(t) \/ Load(t) \/ MakeWritable(t) \/ Truncate(t) \/ Write(t)
              PROVE  thread'[t].op = thread[t].op /\ OnKek(t)
          <6>1. InPhase(t) /\ thread \in [Threads -> Thread] /\ thread[t] \in Thread
            BY DEF RequestsAreInPhase, TypeOK
          <6>2. OnKek(t)
            BY <5>2, <6>1 DEF Seal, Load, MakeWritable, Truncate, Write, InPhase
          <6>3. thread'[t].op = thread[t].op
            <7>1. CASE Seal(t)
              BY <3>2, <6>1, <7>1 DEF Seal, Thread
            <7>2. CASE Load(t)
              BY <3>2, <6>1, <7>2 DEF Load, Thread
            <7>3. CASE MakeWritable(t) \/ Truncate(t)
              BY <3>2, <6>1, <7>3 DEF MakeWritable, Truncate, GoTo, Thread
            <7>4. CASE Write(t)
              BY <6>1, <7>4 DEF Write, Thread
            <7>5. QED
              BY <5>2, <7>1, <7>2, <7>3, <7>4
          <6>4. QED
            BY <6>2, <6>3
        <5>3. QED
          BY <1>5, <3>2, <5>1, <5>2 DEF StoreStep, OnKek, WriteFails, CommitRotate,
             CommitDestroy
      <4>2. QED
        BY <4>1 DEF ChangesConnection
    <3>3. QED
      BY <3>1, <3>2
  <2>3. QED
    BY <1>2, <1>5, <2>1, <2>2 DEF Step
<1>6. ASSUME NEW t \in Threads, Abandon(t) PROVE ConnectionFollowsRequest'
  <2>1. Finish(t) /\ UNCHANGED <<connected, active, instance>>
        /\ thread[t].pc # "dropping"
    BY <1>6 DEF Abandon, connection
  <2>2. QED
    BY <1>2, <1>3, <1>6, <2>1 DEF Step
<1>7. CASE Crash
  BY <1>7 DEF Crash, Idle, Absent, ConnectionFollowsRequest, ConnectionSuits, At,
     ChangesConnection
<1>8. CASE UNCHANGED vars
  <2>1. UNCHANGED <<connected, active, instance, thread, mishaps>>
    BY <1>8 DEF vars
  <2>2. QED
    BY <2>1 DEF ConnectionFollowsRequest, ConnectionSuits, At, ChangesConnection, Free
<1>9. QED
  BY <1>4, <1>5, <1>6, <1>7, <1>8 DEF Next

(***************************************************************************)
(* The store.                                                              *)
(***************************************************************************)

\* A step of one thread that leaves the entries and the rows alone, and is not
\* that of a thread that is saving.
LEMMA OneThreadKeepsStore ==
  ASSUME RequestsAreInPhase, StoreInv, NEW t \in Threads,
         UNCHANGED <<deleted, kek>>,
         file'.entries = file.entries, file'.whole = file.whole,
         file'.length = file.length,
         \A u \in Threads \ {t} : thread'[u] = thread[u],
         thread[t].pc # "saving", thread'[t].pc # "saving",
         \A hazards : Free(hazards)' => Free(hazards),
         AgreesWithRow(t)', KnowsItsEntry(t)', StoreLeftReadOnly',
         \A u \in Threads \ {t} :
           thread[u].op = "rotate" => thread[u].kek # thread'[t].kek,
         Free({"overlap", "torn"})' /\ HoldsCopy(t)' =>
           /\ \A u \in Threads \ {t} : ~HoldsCopy(u)
           /\ thread'[t].copy = file.entries
  PROVE  StoreInv'
<1>1. KekRequestsAgreeWithRows'
  <2>1. ASSUME NEW u \in Threads, u # t PROVE AgreesWithRow(u)'
    <3>1. thread'[u] = thread[u] /\ AgreesWithRow(u)
      BY <2>1 DEF StoreInv, KekRequestsAgreeWithRows
    <3>2. QED
      BY <2>1, <3>1 DEF AgreesWithRow
  <2>2. QED
    BY <2>1 DEF StoreInv, KekRequestsAgreeWithRows
<1>2. OneWriterAtATime'
  <2> SUFFICES ASSUME Free({"overlap", "torn"})'
               PROVE  OneWriterAtATime'
    BY DEF OneWriterAtATime
  <2>0. Free({"overlap", "torn"}) /\ OneWriterAtATime
    BY DEF StoreInv
  <2>1. \A u \in Threads \ {t} : HoldsCopy(u)' <=> HoldsCopy(u)
    BY DEF HoldsCopy
  <2>2. \A u, v \in Threads : HoldsCopy(u)' /\ HoldsCopy(v)' => u = v
    BY <2>0, <2>1 DEF OneWriterAtATime
  <2>3. (\A u \in Threads : thread[u].pc # "saving")
          <=> (\A u \in Threads : thread'[u].pc # "saving")
    OBVIOUS
  <2>4. \A u \in Threads : HoldsCopy(u)' => thread'[u].copy = file'.entries
    BY <2>0, <2>1 DEF OneWriterAtATime
  <2>5. QED
    BY <2>0, <2>2, <2>3, <2>4 DEF OneWriterAtATime
<1>3. RequestsKnowTheirEntry'
  <2>1. ASSUME NEW u \in Threads, u # t PROVE KnowsItsEntry(u)'
    <3>1. thread'[u] = thread[u] /\ KnowsItsEntry(u)
      BY <2>1 DEF StoreInv, RequestsKnowTheirEntry
    <3>2. QED
      BY <3>1 DEF KnowsItsEntry, HoldsCopy
  <2>2. QED
    BY <2>1 DEF RequestsKnowTheirEntry
<1>4. EntriesAgreeWithRows'
  <2> SUFFICES ASSUME Free({"overlap", "torn"})', NEW k \in Keks
               PROVE  /\ k \in deleted =>
                           \/ file.entries[k] = NoOne
                           \/ \E u \in Threads : At(u, "destroy", "saving")'
                                                /\ thread'[u].kek = k
                      /\ kek[k].state = "destroyed" => file.entries[k] = NoOne
                      /\ kek[k].state = "live" /\ k \notin deleted /\ Free({"zeroed"})' =>
                           file.entries[k] = kek[k].provider
    BY DEF EntriesAgreeWithRows
  <2>1. \A u \in Threads : At(u, "destroy", "saving") => u # t /\ thread'[u] = thread[u]
    BY DEF At
  <2>2. QED
    BY <2>1 DEF StoreInv, EntriesAgreeWithRows, At
<1>5. QED
  BY <1>1, <1>2, <1>3, <1>4 DEF StoreInv

\* Steps of threads that are not writing leave the mode of the file alone.
LEMMA NextStoreLeftReadOnly ==
  TypeOK /\ StoreLeftReadOnly /\ [Next]_vars => StoreLeftReadOnly'
<1> SUFFICES ASSUME TypeOK, StoreLeftReadOnly, [Next]_vars PROVE StoreLeftReadOnly'
  OBVIOUS
<1>1. Free({"crash", "torn"})' => Free({"crash", "torn"})
  BY MishapsGrow
<1>2. ASSUME NEW t \in Threads, Step(t), file' = file,
             thread[t].pc \notin {"writing", "saving"}
      PROVE  StoreLeftReadOnly'
  <2>1. \A u \in Threads : thread[u].pc \in {"writing", "saving"} => thread'[u] = thread[u]
    BY <1>2, OthersUntouched
  <2>2. QED
    BY <1>1, <1>2, <2>1 DEF StoreLeftReadOnly
<1>3. ASSUME NEW t \in Threads, ConnectionStep(t) \/ Abandon(t)
      PROVE  StoreLeftReadOnly'
  <2>1. file' = file /\ thread[t].pc \notin {"writing", "saving"}
    BY <1>3 DEF ConnectionStep, BeginOpen, BeginActivate, BeginLock, BeginDisconnect,
       Drop, Connect, ConnectFails, CommitOpen, CommitLock, CommitActivate, Abandon,
       At, store
  <2>2. QED
    BY <1>2, <1>3, <2>1 DEF Step
<1>4. ASSUME NEW t \in Threads, StoreStep(t) PROVE StoreLeftReadOnly'
  <2>0. thread \in [Threads -> Thread] /\ thread[t] \in Thread
    BY DEF TypeOK
  <2>1. CASE MakeWritable(t)
    <3>1. thread'[t].pc = "writing"
      BY <2>0, <2>1 DEF MakeWritable, GoTo, Thread
    <3>2. QED
      BY <3>1 DEF StoreLeftReadOnly
  <2>2. CASE Truncate(t)
    <3>1. CASE file.mode = "0400"
      BY <2>2, <3>1 DEF Truncate, StoreLeftReadOnly, store
    <3>2. CASE file.mode # "0400"
      <4>1. thread'[t].pc = "saving"
        BY <2>0, <2>2, <3>2 DEF Truncate, GoTo, Thread
      <4>2. QED
        BY <4>1 DEF StoreLeftReadOnly
    <3>3. QED
      BY <3>1, <3>2
  <2>3. CASE Write(t)
    <3>1. file'.mode = "0400"
      BY <2>3 DEF Write, SavedMode
    <3>2. QED
      BY <3>1 DEF StoreLeftReadOnly
  <2>4. CASE WriteFails(t)
    BY <2>4 DEF WriteFails, StoreLeftReadOnly, Free
  <2>5. ASSUME ~MakeWritable(t), ~Truncate(t), ~Write(t), ~WriteFails(t)
        PROVE  StoreLeftReadOnly'
    <3>1. file' = file /\ thread[t].pc \notin {"writing", "saving"}
      BY <1>4, <2>5 DEF StoreStep, BeginRotate, BeginDestroy, Seal, Load, CommitRotate,
         CommitDestroy, At, store
    <3>2. QED
      BY <1>2, <1>4, <3>1 DEF Step
  <2>6. QED
    BY <2>1, <2>2, <2>3, <2>4, <2>5
<1>5. CASE Crash
  BY <1>5 DEF Crash, StoreLeftReadOnly, Free
<1>6. CASE UNCHANGED vars
  BY <1>6 DEF vars, StoreLeftReadOnly, Free
<1>7. QED
  BY <1>3, <1>4, <1>5, <1>6 DEF Next

\* A step that ends the request or is not that of a KEK request.
LEMMA QuietKeepsStore ==
  ASSUME TypeOK, RequestsAreInPhase, StoreInv, NEW t \in Threads, Step(t),
         UNCHANGED <<file, deleted, kek>>, thread[t].pc # "saving",
         thread'[t].pc # "saving", ~OnKek(t)', ~HoldsCopy(t)',
         thread'[t].kek = NoOne, StoreLeftReadOnly',
         \A hazards : Free(hazards)' => Free(hazards)
  PROVE  StoreInv'
<1>1. \A u \in Threads \ {t} : thread'[u] = thread[u]
  BY OthersUntouched
<1>2. \A u \in Threads : thread[u].op = "rotate" => thread[u].kek # NoOne
  BY IdentityAssumption DEF RequestsAreInPhase, InPhase, OnKek
<1>3. AgreesWithRow(t)' /\ KnowsItsEntry(t)'
  BY DEF AgreesWithRow, KnowsItsEntry, OnKek
<1>4. QED
  BY <1>1, <1>2, <1>3, OneThreadKeepsStore

\* The requests for the connection, and a request that ends without a change.
LEMMA ConnectionStepKeepsStore ==
  ASSUME TypeOK, RequestsAreInPhase, StoreInv, NEW t \in Threads,
         ConnectionStep(t) \/ Abandon(t), StoreLeftReadOnly',
         \A hazards : Free(hazards)' => Free(hazards)
  PROVE  StoreInv'
<1>0. InPhase(t)' /\ thread \in [Threads -> Thread] /\ thread[t] \in Thread
  BY StepIsInPhase DEF Step, TypeOK
<1>1. UNCHANGED <<file, deleted, kek>> /\ thread[t].pc # "saving"
  BY DEF ConnectionStep, BeginOpen, BeginActivate, BeginLock, BeginDisconnect,
     Drop, Connect, ConnectFails, CommitOpen, CommitLock, CommitActivate, Abandon,
     At, store, rows
<1>2. ~OnKek(t)' /\ thread'[t].pc \in {"idle", "dropping", "connecting", "committing"}
  <2>1. ASSUME NEW p \in Providers, BeginOpen(t, p) \/ BeginActivate(t, p)
        PROVE  /\ thread'[t].op \in {"open", "activate"}
               /\ thread'[t].pc \in {"dropping", "connecting", "committing"}
    BY <1>0, <2>1 DEF BeginOpen, BeginActivate, BeginDisconnect, Thread
  <2>2. ASSUME BeginLock(t)
        PROVE  /\ thread'[t].op = "lock"
               /\ thread'[t].pc \in {"dropping", "committing"}
    BY <1>0, <2>2 DEF BeginLock, BeginDisconnect, Thread
  <2>3. ASSUME Drop(t) \/ \E i \in Instances : Connect(t, i)
        PROVE  /\ thread'[t].op \in {"open", "lock", "activate"}
               /\ thread'[t].pc \in {"connecting", "committing"}
    <3>1. thread[t].op \in {"open", "lock", "activate"}
      BY <2>3 DEF Drop, Connect, RequestsAreInPhase, InPhase, ChangesConnection
    <3>2. QED
      BY <1>0, <2>3, <3>1 DEF Drop, Connect, GoTo, Thread
  <2>4. ASSUME Finish(t) PROVE thread'[t].op = "none" /\ thread'[t].pc = "idle"
    BY <2>4, FinishIsIdle
  <2>5. QED
    BY <2>1, <2>2, <2>3, <2>4 DEF ConnectionStep, ConnectFails, CommitOpen, CommitLock,
       CommitActivate, Abandon, OnKek
<1>3. thread'[t].kek = NoOne /\ ~HoldsCopy(t)'
  BY <1>0, <1>2 DEF InPhase, HoldsCopy
<1>4. QED
  BY <1>1, <1>2, <1>3, QuietKeepsStore DEF Step

LEMMA FinishKeepsStore ==
  ASSUME TypeOK, RequestsAreInPhase, StoreInv, NEW t \in Threads, Step(t), Finish(t),
         UNCHANGED <<file, deleted, kek>>, thread[t].pc # "saving", StoreLeftReadOnly',
         \A hazards : Free(hazards)' => Free(hazards)
  PROVE  StoreInv'
BY FinishIsIdle, QuietKeepsStore DEF OnKek, HoldsCopy

LEMMA BeginRotateKeepsStore ==
  ASSUME TypeOK, RequestsAreInPhase, StoreInv, NEW t \in Threads, NEW k \in Keks,
         BeginRotate(t, k), StoreLeftReadOnly',
         \A hazards : Free(hazards)' => Free(hazards)
  PROVE  StoreInv'
<1>1. /\ thread'[t].op = "rotate" /\ thread'[t].pc = "sealing" /\ thread'[t].kek = k
      /\ thread[t].pc = "idle"
  BY DEF BeginRotate, TypeOK, Thread
<1>2. \A u \in Threads \ {t} : thread'[u] = thread[u]
  BY OthersUntouched DEF Step, StoreStep
<1>3. UNCHANGED <<file, deleted, kek>>
  BY DEF BeginRotate, store, rows
<1>4. /\ kek[k].state = "none" /\ k \notin deleted /\ file.entries[k] = NoOne
      /\ \A u \in Threads : thread[u].kek # k
  BY DEF BeginRotate
<1>5. AgreesWithRow(t)' /\ KnowsItsEntry(t)' /\ ~HoldsCopy(t)'
  BY <1>1, <1>2, <1>3, <1>4 DEF AgreesWithRow, KnowsItsEntry, HoldsCopy
<1>6. QED
  BY <1>1, <1>2, <1>3, <1>4, <1>5, OneThreadKeepsStore

LEMMA BeginDestroyKeepsStore ==
  ASSUME TypeOK, RequestsAreInPhase, StoreInv, NEW t \in Threads, NEW k \in Keks,
         BeginDestroy(t, k), StoreLeftReadOnly',
         \A hazards : Free(hazards)' => Free(hazards)
  PROVE  StoreInv'
<1>1. /\ thread'[t].op = "destroy" /\ thread'[t].pc = "loading" /\ thread'[t].kek = k
      /\ thread[t].pc = "idle"
  BY DEF BeginDestroy, TypeOK, Thread
<1>2. \A u \in Threads \ {t} : thread'[u] = thread[u]
  BY OthersUntouched DEF Step, StoreStep
<1>3. UNCHANGED <<file, deleted, kek>> /\ kek[k].state = "live"
  BY DEF BeginDestroy, store, rows
<1>4. \A u \in Threads : thread[u].op = "rotate" => thread[u].kek # k
  BY <1>3 DEF StoreInv, KekRequestsAgreeWithRows, AgreesWithRow
<1>5. AgreesWithRow(t)' /\ KnowsItsEntry(t)' /\ ~HoldsCopy(t)'
  BY <1>1, <1>3 DEF AgreesWithRow, KnowsItsEntry, HoldsCopy
<1>6. QED
  BY <1>1, <1>2, <1>3, <1>4, <1>5, OneThreadKeepsStore

LEMMA SealKeepsStore ==
  ASSUME TypeOK, RequestsAreInPhase, StoreInv, NEW t \in Threads, Seal(t),
         StoreLeftReadOnly', \A hazards : Free(hazards)' => Free(hazards)
  PROVE  StoreInv'
<1>0. thread \in [Threads -> Thread] /\ thread[t] \in Thread
  BY DEF TypeOK
<1>1. UNCHANGED <<file, deleted, kek>> /\ thread[t].pc = "sealing"
  BY DEF Seal, store, rows
<1>2. Step(t)
  BY DEF Step, StoreStep
<1>3. CASE Finish(t)
  BY <1>1, <1>2, <1>3, FinishKeepsStore
<1>4. CASE ~Finish(t)
  <2>1. PICK seal \in Seals :
          /\ thread' = [thread EXCEPT ![t].pc = "loading", ![t].object = NoOne,
                                      ![t].seal = seal]
          /\ Free({"zeroed"})' => seal = thread[t].target
    <3> DEFINE root == instance[thread[t].object].root
               seal == IF root = "live" THEN thread[t].target ELSE "zeroed"
    <3>1. root \in {"none", "live", "zeroed"}
      BY <1>1 DEF RequestsAreInPhase, InPhase, TypeOK
    <3>2. /\ root # "none"
          /\ thread' = [thread EXCEPT ![t].pc = "loading", ![t].object = NoOne,
                                      ![t].seal = seal]
          /\ Add("zeroed", root = "zeroed")
      BY <1>4 DEF Seal
    <3>3. seal \in Seals
      BY ThreadType DEF Seals
    <3> HIDE DEF root
    <3>4. Free({"zeroed"})' => seal = thread[t].target
      BY <3>1, <3>2 DEF Add, Free
    <3> HIDE DEF seal
    <3>5. QED
      BY <3>2, <3>3, <3>4
  <2>2. /\ thread'[t].op = thread[t].op /\ thread[t].op = "rotate"
        /\ thread'[t].kek = thread[t].kek /\ thread'[t].pc = "loading"
        /\ thread'[t].seal = seal /\ thread'[t].target = thread[t].target
    BY <1>0, <1>1, <2>1 DEF Thread, RequestsAreInPhase, InPhase
  <2>3. \A u \in Threads \ {t} : thread'[u] = thread[u]
    BY <1>2, OthersUntouched
  <2>4. AgreesWithRow(t) /\ KnowsItsEntry(t)
    BY DEF StoreInv, KekRequestsAgreeWithRows, RequestsKnowTheirEntry
  <2>5. AgreesWithRow(t)' /\ KnowsItsEntry(t)' /\ ~HoldsCopy(t)'
    <3>1. AgreesWithRow(t)'
      BY <1>1, <2>2, <2>3, <2>4 DEF AgreesWithRow
    <3>2. thread[t].pc = "sealing"
      BY <1>1
    <3>3. Free({"overlap", "torn"}) => file.entries[thread[t].kek] = NoOne
      BY <2>2, <2>4, <3>2 DEF KnowsItsEntry
    <3>4. KnowsItsEntry(t)'
      BY <1>1, <2>1, <2>2, <3>3 DEF KnowsItsEntry
    <3>5. QED
      BY <2>2, <3>1, <3>4 DEF HoldsCopy
  <2>6. \A u \in Threads \ {t} : thread[u].op = "rotate" => thread[u].kek # thread[t].kek
    BY <2>2, <2>4 DEF AgreesWithRow
  <2>7. QED
    BY <1>1, <2>2, <2>3, <2>5, <2>6, OneThreadKeepsStore
<1>5. QED
  BY <1>3, <1>4

LEMMA LoadKeepsStore ==
  ASSUME TypeOK, RequestsAreInPhase, StoreInv, NEW t \in Threads, Load(t),
         StoreLeftReadOnly', \A hazards : Free(hazards)' => Free(hazards)
  PROVE  StoreInv'
<1>0. thread \in [Threads -> Thread] /\ thread[t] \in Thread
  BY DEF TypeOK
<1>1. UNCHANGED <<file, deleted, kek>> /\ thread[t].pc = "loading"
  BY DEF Load, store, rows
<1>2. Step(t)
  BY DEF Step, StoreStep
<1>3. CASE ~file.whole
  BY <1>1, <1>2, <1>3, FinishKeepsStore DEF Load
<1>4. CASE file.whole
  <2>1. PICK pc \in {"loaded", "committing"} :
          /\ pc = "committing"
               <=> thread[t].op = "destroy" /\ file.entries[thread[t].kek] = NoOne
          /\ thread' = [thread EXCEPT ![t].copy = file.entries, ![t].pc = pc]
    BY <1>4 DEF Load
  <2>2. /\ thread'[t].op = thread[t].op /\ thread[t].op \in {"rotate", "destroy"}
        /\ thread'[t].kek = thread[t].kek /\ thread'[t].pc = pc
        /\ thread'[t].seal = thread[t].seal /\ thread'[t].target = thread[t].target
        /\ thread'[t].copy = file.entries
    BY <1>0, <1>1, <2>1 DEF Thread, RequestsAreInPhase, InPhase, OnKek
  <2>3. \A u \in Threads \ {t} : thread'[u] = thread[u]
    BY <1>2, OthersUntouched
  <2>4. AgreesWithRow(t) /\ KnowsItsEntry(t) /\ InPhase(t)
    BY DEF StoreInv, KekRequestsAgreeWithRows, RequestsKnowTheirEntry, RequestsAreInPhase
  <2>5. AgreesWithRow(t)'
    BY <1>1, <2>2, <2>3, <2>4 DEF AgreesWithRow
  <2>6. KnowsItsEntry(t)'
    <3>1. pc = "committing"
            <=> thread[t].op = "destroy" /\ file.entries[thread[t].kek] = NoOne
      BY <2>1
    <3>2. CASE thread[t].op = "rotate"
      BY <1>1, <2>2, <2>4, <3>1, <3>2 DEF KnowsItsEntry
    <3>3. CASE thread[t].op = "destroy"
      BY <1>1, <2>2, <3>1, <3>3 DEF KnowsItsEntry, HoldsCopy
    <3>4. QED
      BY <2>2, <3>2, <3>3
  <2>7. \A u \in Threads \ {t} : thread[u].op = "rotate" => thread[u].kek # thread[t].kek
    <3>1. \A u \in Threads \ {t} : AgreesWithRow(u)
      BY DEF StoreInv, KekRequestsAgreeWithRows
    <3>2. QED
      BY <3>1 DEF AgreesWithRow
  <2>8. Free({"overlap", "torn"})' => \A u \in Threads \ {t} : ~HoldsCopy(u)
    BY DEF Load, Add, Free, HoldsCopy
  <2>9. QED
    BY <1>1, <2>1, <2>2, <2>3, <2>5, <2>6, <2>7, <2>8, OneThreadKeepsStore
<1>5. QED
  BY <1>3, <1>4

LEMMA MakeWritableKeepsStore ==
  ASSUME TypeOK, RequestsAreInPhase, StoreInv, NEW t \in Threads, MakeWritable(t),
         StoreLeftReadOnly', \A hazards : Free(hazards)' => Free(hazards)
  PROVE  StoreInv'
<1>0. thread \in [Threads -> Thread] /\ thread[t] \in Thread /\ file \in File
  BY DEF TypeOK
<1>1. /\ UNCHANGED <<deleted, kek>> /\ thread[t].pc = "loaded"
      /\ file'.entries = file.entries /\ file'.whole = file.whole
      /\ file'.length = file.length
  BY <1>0 DEF MakeWritable, rows, File
<1>2. /\ thread'[t].op = thread[t].op /\ thread'[t].kek = thread[t].kek
      /\ thread'[t].pc = "writing" /\ thread'[t].copy = thread[t].copy
      /\ thread'[t].seal = thread[t].seal /\ thread'[t].target = thread[t].target
  BY <1>0 DEF MakeWritable, GoTo, Thread
<1>3. \A u \in Threads \ {t} : thread'[u] = thread[u]
  BY OthersUntouched DEF Step, StoreStep
<1>4. AgreesWithRow(t) /\ KnowsItsEntry(t)
  BY DEF StoreInv, KekRequestsAgreeWithRows, RequestsKnowTheirEntry
<1>5. AgreesWithRow(t)' /\ KnowsItsEntry(t)'
  BY <1>1, <1>2, <1>3, <1>4 DEF AgreesWithRow, KnowsItsEntry, HoldsCopy
<1>6. \A u \in Threads \ {t} : thread[u].op = "rotate" => thread[u].kek # thread[t].kek
  <2>1. \A u \in Threads \ {t} : AgreesWithRow(u)
    BY DEF StoreInv, KekRequestsAgreeWithRows
  <2>2. QED
    BY <2>1 DEF AgreesWithRow
<1>7. Free({"overlap", "torn"})' =>
        (\A u \in Threads \ {t} : ~HoldsCopy(u)) /\ thread[t].copy = file.entries
  BY <1>1 DEF StoreInv, OneWriterAtATime, HoldsCopy
<1>8. QED
  BY <1>1, <1>2, <1>3, <1>5, <1>6, <1>7, OneThreadKeepsStore

\* The file is emptied: from here on delete has taken the entry out.
LEMMA TruncateKeepsStore ==
  ASSUME TypeOK, RequestsAreInPhase, StoreInv, NEW t \in Threads, Truncate(t),
         StoreLeftReadOnly', \A hazards : Free(hazards)' => Free(hazards)
  PROVE  StoreInv'
<1>0. thread \in [Threads -> Thread] /\ thread[t] \in Thread /\ file \in File
  BY DEF TypeOK
<1>1. UNCHANGED kek /\ thread[t].pc = "writing" /\ Step(t)
  BY DEF Truncate, rows, Step, StoreStep
<1>2. CASE file.mode = "0400"
  <2>1. Finish(t) /\ UNCHANGED <<file, deleted>>
    BY <1>2 DEF Truncate, store
  <2>2. QED
    BY <1>1, <2>1, FinishKeepsStore
<1>3. CASE file.mode # "0400"
  <2>1. /\ file'.entries = file.entries /\ ~file'.whole /\ file'.length = 0
        /\ deleted' = IF thread[t].op = "destroy" THEN deleted \cup {thread[t].kek}
                                                  ELSE deleted
    BY <1>0, <1>3 DEF Truncate, File
  <2>2. /\ thread'[t].op = thread[t].op /\ thread'[t].kek = thread[t].kek
        /\ thread'[t].pc = "saving" /\ thread'[t].copy = thread[t].copy
        /\ thread'[t].seal = thread[t].seal /\ thread'[t].target = thread[t].target
    BY <1>0, <1>3 DEF Truncate, GoTo, Thread
  <2>3. \A u \in Threads \ {t} : thread'[u] = thread[u]
    BY <1>1, OthersUntouched
  <2>4. \A u \in Threads : AgreesWithRow(u) /\ KnowsItsEntry(u)
    BY DEF StoreInv, KekRequestsAgreeWithRows, RequestsKnowTheirEntry
  <2>5. \A u \in Threads : HoldsCopy(u)' <=> HoldsCopy(u)
    BY <1>1, <2>2, <2>3 DEF HoldsCopy
  <2>6. KekRequestsAgreeWithRows'
    <3>1. thread[t].op = "destroy" => kek[thread[t].kek].state # "none"
      BY <2>4 DEF AgreesWithRow
    <3>2. ASSUME NEW u \in Threads, thread[u].op = "rotate"
          PROVE  thread[u].kek \notin deleted'
      BY <2>1, <2>4, <3>1, <3>2 DEF AgreesWithRow
    <3>3. \A u \in Threads : thread'[u].op = thread[u].op /\ thread'[u].kek = thread[u].kek
      BY <2>2, <2>3
    <3>4. ASSUME NEW u \in Threads PROVE AgreesWithRow(u)'
      <4>1. thread[u].op = "destroy" /\ thread'[u].pc = "saving" => thread[u].kek \in deleted'
        BY <2>1, <2>3, <2>4 DEF AgreesWithRow
      <4>2. QED
        BY <1>1, <2>4, <3>2, <3>3, <4>1 DEF AgreesWithRow
    <3>5. \A k \in deleted' : kek[k].state # "none"
      BY <2>1, <3>1 DEF StoreInv, KekRequestsAgreeWithRows
    <3>6. QED
      BY <1>1, <3>4, <3>5 DEF KekRequestsAgreeWithRows
  <2>7. OneWriterAtATime'
    <3>1. Free({"overlap", "torn"})' => OneWriterAtATime /\ Free({"overlap", "torn"})
      BY DEF StoreInv
    <3>2. \A u \in Threads : thread'[u].copy = thread[u].copy
      BY <2>2, <2>3
    <3>3. QED
      BY <2>1, <2>2, <2>5, <3>1, <3>2 DEF OneWriterAtATime
  <2>8. RequestsKnowTheirEntry'
    <3>1. ASSUME NEW u \in Threads PROVE KnowsItsEntry(u)'
      <4>1. KnowsItsEntry(u)
        BY <2>4
      <4>2. CASE u = t
        BY <1>1, <2>1, <2>2, <2>5, <4>1, <4>2 DEF KnowsItsEntry
      <4>3. CASE u # t
        <5>1. thread'[u] = thread[u]
          BY <2>3, <4>3
        <5>2. QED
          BY <2>1, <2>5, <4>1, <5>1 DEF KnowsItsEntry
      <4>4. QED
        BY <4>2, <4>3
    <3>2. QED
      BY <3>1 DEF RequestsKnowTheirEntry
  <2>9. EntriesAgreeWithRows'
    <3> SUFFICES ASSUME Free({"overlap", "torn"})', NEW k \in Keks
                 PROVE  /\ k \in deleted' =>
                             \/ file.entries[k] = NoOne
                             \/ \E u \in Threads : At(u, "destroy", "saving")'
                                                  /\ thread'[u].kek = k
                        /\ kek[k].state = "destroyed" => file.entries[k] = NoOne
                        /\ kek[k].state = "live" /\ k \notin deleted'
                             /\ Free({"zeroed"})' => file.entries[k] = kek[k].provider
      BY <1>1, <2>1 DEF EntriesAgreeWithRows
    <3>1. \A u \in Threads : At(u, "destroy", "saving") => At(u, "destroy", "saving")'
                               /\ thread'[u].kek = thread[u].kek
      BY <1>1, <2>3 DEF At
    <3>2. k \in deleted' =>
            k \in deleted \/ (At(t, "destroy", "saving")' /\ thread'[t].kek = k)
      BY <2>1, <2>2 DEF At
    <3>3. k \in deleted => k \in deleted'
      BY <2>1
    <3>4. QED
      BY <3>1, <3>2, <3>3 DEF StoreInv, EntriesAgreeWithRows
  <2>10. QED
    BY <2>6, <2>7, <2>8, <2>9 DEF StoreInv
<1>4. QED
  BY <1>2, <1>3

\* The only writer finds the file empty, and writes what it holds but for the
\* entry of its KEK.
LEMMA WriteFits ==
  ASSUME TypeOK, OneWriterAtATime, NEW t \in Threads, Write(t), Free({"overlap", "torn"})
  PROVE  /\ file'.whole = TRUE /\ file'.mode = "0400" /\ file'.entries = Changed(t)
         /\ \A k \in Keks : Changed(t)[k] =
              IF k = thread[t].kek
                THEN IF thread[t].op = "rotate" THEN thread[t].seal ELSE NoOne
                ELSE file.entries[k]
         /\ \A u \in Threads \ {t} : ~HoldsCopy(u)
<1>1. thread[t].pc = "saving" /\ HoldsCopy(t)
  BY DEF Write, HoldsCopy
<1>2. /\ file.length = 0 /\ thread[t].copy = file.entries
      /\ \A u \in Threads \ {t} : ~HoldsCopy(u)
  BY <1>1 DEF OneWriterAtATime
<1>3. file.length <= Size(Changed(t))
  BY <1>2, SizeType
<1>4. file' = [whole |-> TRUE, mode |-> "0400", length |-> Size(Changed(t)),
               entries |-> Changed(t)]
  BY <1>3 DEF Write, SavedMode
<1>5. QED
  BY <1>2, <1>4, ChangedEntries

LEMMA WriteKeepsStore ==
  ASSUME TypeOK, RequestsAreInPhase, StoreInv, NEW t \in Threads, Write(t),
         StoreLeftReadOnly', \A hazards : Free(hazards)' => Free(hazards)
  PROVE  StoreInv'
<1>0. thread \in [Threads -> Thread] /\ thread[t] \in Thread
  BY DEF TypeOK
<1>1. UNCHANGED <<deleted, kek>> /\ thread[t].pc = "saving" /\ Step(t)
  BY DEF Write, rows, Step, StoreStep
<1>2. /\ thread'[t].op = thread[t].op /\ thread[t].op \in {"rotate", "destroy"}
      /\ thread'[t].kek = thread[t].kek /\ thread[t].kek \in Keks
      /\ thread'[t].pc = "committing"
      /\ thread'[t].seal = thread[t].seal /\ thread'[t].target = thread[t].target
  BY <1>0, <1>1 DEF Write, Thread, RequestsAreInPhase, InPhase, OnKek
<1>3. \A u \in Threads \ {t} : thread'[u] = thread[u]
  BY <1>1, OthersUntouched
<1>4. \A u \in Threads : AgreesWithRow(u) /\ KnowsItsEntry(u) /\ InPhase(u)
  BY DEF StoreInv, KekRequestsAgreeWithRows, RequestsKnowTheirEntry, RequestsAreInPhase
<1>5. ASSUME Free({"overlap", "torn"})
      PROVE  /\ file'.whole = TRUE
             /\ \A k \in Keks : file'.entries[k] =
                  IF k = thread[t].kek
                    THEN IF thread[t].op = "rotate" THEN thread[t].seal ELSE NoOne
                    ELSE file.entries[k]
             /\ \A u \in Threads \ {t} : ~HoldsCopy(u)
  <2>1. OneWriterAtATime
    BY DEF StoreInv
  <2>2. /\ file'.whole = TRUE /\ file'.entries = Changed(t)
        /\ \A k \in Keks : Changed(t)[k] =
             IF k = thread[t].kek
               THEN IF thread[t].op = "rotate" THEN thread[t].seal ELSE NoOne
               ELSE file.entries[k]
        /\ \A u \in Threads \ {t} : ~HoldsCopy(u)
    BY <1>5, <2>1, WriteFits
  <2>3. QED
    BY <2>2, Zenon
<1>6. KekRequestsAgreeWithRows'
  <2>1. \A u \in Threads : /\ thread'[u].op = thread[u].op
                           /\ thread'[u].kek = thread[u].kek
                           /\ thread'[u].pc = "saving" => thread[u].pc = "saving"
    BY <1>2, <1>3
  <2>2. ASSUME NEW u \in Threads PROVE AgreesWithRow(u)'
    <3>1. AgreesWithRow(u)
      BY <1>4
    <3>2. QED
      BY <1>1, <2>1, <3>1 DEF AgreesWithRow
  <2>3. \A k \in deleted' : kek'[k].state # "none"
    BY <1>1 DEF StoreInv, KekRequestsAgreeWithRows
  <2>4. QED
    BY <2>2, <2>3 DEF KekRequestsAgreeWithRows
<1>7. OneWriterAtATime'
  <2>1. ASSUME Free({"overlap", "torn"})'
        PROVE  file'.whole /\ \A u \in Threads : ~HoldsCopy(u)'
    BY <1>2, <1>3, <1>5, <2>1 DEF HoldsCopy
  <2>2. QED
    BY <2>1 DEF OneWriterAtATime, HoldsCopy
<1>8. RequestsKnowTheirEntry'
  <2>1. KnowsItsEntry(t)'
    BY <1>1, <1>2, <1>4, <1>5 DEF KnowsItsEntry, HoldsCopy
  <2>2. ASSUME NEW u \in Threads, u # t PROVE KnowsItsEntry(u)'
    <3>1. thread'[u] = thread[u]
      BY <1>3, <2>2
    <3>2. CASE Free({"overlap", "torn"})'
      <4>1. thread[u].op \in {"rotate", "destroy"} => thread[u].kek \in Keks
        BY <1>4 DEF InPhase, OnKek
      <4>2. ~HoldsCopy(u) /\ Free({"overlap", "torn"})
        BY <1>5, <2>2, <3>2
      <4>3. CASE thread[u].op = "rotate"
        <5>1. thread[u].kek # thread[t].kek
          BY <1>4, <2>2, <4>3 DEF AgreesWithRow
        <5>2. file'.entries[thread[u].kek] = file.entries[thread[u].kek]
          BY <1>5, <4>1, <4>2, <4>3, <5>1
        <5>3. QED
          BY <1>4, <3>1, <4>2, <4>3, <5>2 DEF KnowsItsEntry
      <4>4. CASE thread[u].op = "destroy"
        <5>1. thread[u].kek = thread[t].kek => thread[t].op = "destroy"
          BY <1>2, <1>4, <4>4 DEF AgreesWithRow
        <5>2. thread[u].pc = "committing" => file'.entries[thread[u].kek] = NoOne
          BY <1>4, <1>5, <4>1, <4>2, <4>4, <5>1 DEF KnowsItsEntry
        <5>3. QED
          BY <3>1, <4>2, <4>4, <5>2 DEF KnowsItsEntry, HoldsCopy
      <4>5. QED
        BY <3>1, <4>3, <4>4 DEF KnowsItsEntry
    <3>3. CASE ~Free({"overlap", "torn"})'
      <4>1. Free({"zeroed"})' => Free({"zeroed"})
        OBVIOUS
      <4>2. QED
        BY <1>4, <3>1, <3>3, <4>1 DEF KnowsItsEntry
    <3>4. QED
      BY <3>2, <3>3
  <2>3. QED
    BY <2>1, <2>2 DEF RequestsKnowTheirEntry
<1>9. EntriesAgreeWithRows'
  <2> SUFFICES ASSUME Free({"overlap", "torn"})', NEW k \in Keks
               PROVE  /\ k \in deleted => file'.entries[k] = NoOne
                      /\ kek[k].state = "destroyed" => file'.entries[k] = NoOne
                      /\ kek[k].state = "live" /\ k \notin deleted /\ Free({"zeroed"})' =>
                           file'.entries[k] = kek[k].provider
    BY <1>1 DEF EntriesAgreeWithRows
  <2>1. Free({"overlap", "torn"}) /\ EntriesAgreeWithRows
    BY DEF StoreInv
  <2>2. CASE k = thread[t].kek
    BY <1>1, <1>2, <1>4, <1>5, <2>1, <2>2 DEF AgreesWithRow
  <2>3. CASE k # thread[t].kek
    <3>1. file'.entries[k] = file.entries[k]
      BY <1>5, <2>1, <2>3
    <3>2. ~\E u \in Threads : At(u, "destroy", "saving") /\ thread[u].kek = k
      BY <1>5, <2>1, <2>3 DEF At, HoldsCopy
    <3>3. QED
      BY <2>1, <3>1, <3>2 DEF EntriesAgreeWithRows
  <2>4. QED
    BY <2>2, <2>3
<1>10. QED
  BY <1>6, <1>7, <1>8, <1>9 DEF StoreInv

LEMMA CommitKekKeepsStore ==
  ASSUME TypeOK, RequestsAreInPhase, StoreInv, NEW t \in Threads,
         CommitRotate(t) \/ CommitDestroy(t),
         StoreLeftReadOnly', \A hazards : Free(hazards)' => Free(hazards)
  PROVE  StoreInv'
<1> DEFINE k == thread[t].kek
<1>1. /\ UNCHANGED <<file, deleted>> /\ Finish(t) /\ thread[t].pc = "committing"
      /\ Step(t) /\ thread[t].op \in {"rotate", "destroy"}
  BY DEF CommitRotate, CommitDestroy, At, store, Step, StoreStep
<1>2. \A u \in Threads : AgreesWithRow(u) /\ KnowsItsEntry(u) /\ InPhase(u)
  BY DEF StoreInv, KekRequestsAgreeWithRows, RequestsKnowTheirEntry, RequestsAreInPhase
<1>3. k \in Keks
  BY <1>1, <1>2 DEF InPhase, OnKek
<1>4. CASE UNCHANGED kek
  BY <1>1, <1>4, FinishKeepsStore
<1>5. CASE ~UNCHANGED kek
  <2>1. /\ \A j \in Keks \ {k} : kek'[j] = kek[j]
        /\ thread[t].op = "rotate" =>
             kek'[k].state = "live" /\ kek'[k].provider = thread[t].target
        /\ thread[t].op = "destroy" => kek'[k].state = "destroyed"
    BY <1>3, <1>5 DEF CommitRotate, CommitDestroy, At, ProviderName, rows, TypeOK
  <2>2. /\ thread'[t].op = "none" /\ thread'[t].kek = NoOne /\ thread'[t].pc = "idle"
        /\ \A u \in Threads \ {t} : thread'[u] = thread[u]
    BY <1>1, FinishIsIdle, OthersUntouched
  <2>3. kek'[k].state # "none"
    BY <1>1, <2>1
  <2> HIDE DEF k
  <2>4. KekRequestsAgreeWithRows'
    <3>1. ASSUME NEW u \in Threads PROVE AgreesWithRow(u)'
      <4>1. CASE u = t
        BY <2>2, <4>1 DEF AgreesWithRow
      <4>2. CASE u # t
        <5>1. thread'[u] = thread[u] /\ AgreesWithRow(u)
          BY <1>2, <2>2, <4>2
        <5>2. thread[u].op \in {"rotate", "destroy"} => thread[u].kek \in Keks
          BY <1>2 DEF InPhase, OnKek
        <5>3. thread[u].op = "rotate" => thread[u].kek # k
          BY <1>1, <1>2, <4>2 DEF AgreesWithRow, k
        <5>4. thread[u].op = "rotate" =>
                \A v \in Threads \ {u} : thread'[v].kek # thread[u].kek
          BY <2>2, <5>1, <5>2, IdentityAssumption DEF AgreesWithRow
        <5>5. thread[u].op = "rotate" => AgreesWithRow(u)'
          BY <1>1, <2>1, <5>1, <5>2, <5>3, <5>4 DEF AgreesWithRow
        <5>6. thread[u].op = "destroy" => AgreesWithRow(u)'
          BY <1>1, <2>1, <2>3, <5>1, <5>2 DEF AgreesWithRow
        <5>7. QED
          BY <5>1, <5>5, <5>6 DEF AgreesWithRow
      <4>3. QED
        BY <4>1, <4>2
    <3>2. \A j \in deleted : kek'[j].state # "none"
      BY <2>1, <2>3 DEF StoreInv, KekRequestsAgreeWithRows, TypeOK
    <3>3. QED
      BY <1>1, <3>1, <3>2 DEF KekRequestsAgreeWithRows
  <2>5. OneWriterAtATime'
    BY <1>1, <2>2 DEF StoreInv, OneWriterAtATime, HoldsCopy
  <2>6. RequestsKnowTheirEntry'
    BY <1>1, <1>2, <2>2 DEF RequestsKnowTheirEntry, KnowsItsEntry, HoldsCopy
  <2>7. EntriesAgreeWithRows'
    <3> SUFFICES ASSUME Free({"overlap", "torn"})', NEW j \in Keks
                 PROVE  /\ j \in deleted =>
                             \/ file.entries[j] = NoOne
                             \/ \E u \in Threads : At(u, "destroy", "saving")'
                                                  /\ thread'[u].kek = j
                        /\ kek'[j].state = "destroyed" => file.entries[j] = NoOne
                        /\ kek'[j].state = "live" /\ j \notin deleted
                             /\ Free({"zeroed"})' => file.entries[j] = kek'[j].provider
      BY <1>1 DEF EntriesAgreeWithRows
    <3>1. \A u \in Threads : At(u, "destroy", "saving") => u # t /\ thread'[u] = thread[u]
      BY <1>1, <2>2 DEF At
    <3>2. Free({"overlap", "torn"}) /\ EntriesAgreeWithRows
      BY DEF StoreInv
    <3>3. CASE j # k
      BY <2>1, <3>1, <3>2, <3>3 DEF EntriesAgreeWithRows, At
    <3>4. CASE j = k
      <4>1. KnowsItsEntry(t) /\ AgreesWithRow(t)
        BY <1>2
      <4>2. CASE thread[t].op = "rotate"
        <5>1. k \notin deleted /\ file.entries[k] = thread[t].seal
              /\ (Free({"zeroed"}) => thread[t].seal = thread[t].target)
          BY <1>1, <3>2, <4>1, <4>2 DEF AgreesWithRow, KnowsItsEntry, k
        <5>2. QED
          BY <2>1, <3>4, <4>2, <5>1
      <4>3. CASE thread[t].op = "destroy"
        <5>1. file.entries[k] = NoOne
          BY <1>1, <3>2, <4>1, <4>3 DEF KnowsItsEntry, k
        <5>2. QED
          BY <2>1, <3>4, <4>3, <5>1
      <4>4. QED
        BY <1>1, <4>2, <4>3
    <3>5. QED
      BY <3>3, <3>4
  <2>8. QED
    BY <2>4, <2>5, <2>6, <2>7 DEF StoreInv
<1>6. QED
  BY <1>4, <1>5

\* A crash, in which no thread is saving unless the file is torn.
LEMMA CrashKeepsStore ==
  ASSUME TypeOK, StoreInv, Crash, StoreLeftReadOnly',
         \A hazards : Free(hazards)' => Free(hazards)
  PROVE  StoreInv'
<1>1. UNCHANGED <<file, deleted, kek>>
  BY DEF Crash, store, rows
<1>2. \A t \in Threads : /\ thread'[t].op = "none" /\ ~HoldsCopy(t)'
                          /\ thread'[t].pc # "saving"
  BY DEF Crash, Idle, HoldsCopy
<1>3. Free({"overlap", "torn"})' => \A t \in Threads : thread[t].pc # "saving"
  BY DEF Crash, Free
<1>4. KekRequestsAgreeWithRows' /\ RequestsKnowTheirEntry'
  BY <1>1, <1>2 DEF StoreInv, KekRequestsAgreeWithRows, RequestsKnowTheirEntry,
     AgreesWithRow, KnowsItsEntry
<1>5. OneWriterAtATime'
  BY <1>1, <1>2, <1>3 DEF StoreInv, OneWriterAtATime
<1>6. EntriesAgreeWithRows'
  BY <1>1, <1>3 DEF StoreInv, EntriesAgreeWithRows, At
<1>7. QED
  BY <1>4, <1>5, <1>6 DEF StoreInv

\* So does a failed write, after which the file is torn.
LEMMA WriteFailsKeepsStore ==
  ASSUME TypeOK, RequestsAreInPhase, StoreInv, NEW t \in Threads, WriteFails(t),
         StoreLeftReadOnly', \A hazards : Free(hazards)' => Free(hazards)
  PROVE  StoreInv'
<1>1. UNCHANGED <<file, deleted, kek>>
  BY DEF WriteFails, store, rows
<1>2. Step(t) /\ Finish(t)
  BY DEF WriteFails, Step, StoreStep
<1>3. /\ thread'[t].op = "none" /\ thread'[t].pc = "idle" /\ thread'[t].kek = NoOne
      /\ \A u \in Threads \ {t} : thread'[u] = thread[u]
  BY <1>2, FinishIsIdle, OthersUntouched
<1>4. ~Free({"overlap", "torn"})'
  BY DEF WriteFails, Free
<1>5. KekRequestsAgreeWithRows'
  <2>1. \A u \in Threads : thread[u].op = "rotate" => thread[u].kek # NoOne
    BY IdentityAssumption DEF RequestsAreInPhase, InPhase, OnKek
  <2>2. ASSUME NEW u \in Threads PROVE AgreesWithRow(u)'
    <3>1. CASE u = t
      BY <1>3, <3>1 DEF AgreesWithRow
    <3>2. CASE u # t
      <4>1. thread'[u] = thread[u] /\ AgreesWithRow(u)
        BY <1>3, <3>2 DEF StoreInv, KekRequestsAgreeWithRows
      <4>2. QED
        BY <1>1, <1>3, <2>1, <4>1 DEF AgreesWithRow
    <3>3. QED
      BY <3>1, <3>2
  <2>3. QED
    BY <1>1, <2>2 DEF StoreInv, KekRequestsAgreeWithRows
<1>6. RequestsKnowTheirEntry'
  <2>1. ASSUME NEW u \in Threads PROVE KnowsItsEntry(u)'
    <3>1. CASE u = t
      BY <1>3, <3>1 DEF KnowsItsEntry
    <3>2. CASE u # t
      <4>1. thread'[u] = thread[u] /\ KnowsItsEntry(u)
        BY <1>3, <3>2 DEF StoreInv, RequestsKnowTheirEntry
      <4>2. QED
        BY <1>4, <4>1 DEF KnowsItsEntry
    <3>3. QED
      BY <3>1, <3>2
  <2>2. QED
    BY <2>1 DEF RequestsKnowTheirEntry
<1>7. QED
  BY <1>4, <1>5, <1>6 DEF StoreInv, OneWriterAtATime, EntriesAgreeWithRows

LEMMA NextStoreInv ==
  TypeOK /\ RequestsAreInPhase /\ StoreInv /\ [Next]_vars => StoreInv'
<1> SUFFICES ASSUME TypeOK, RequestsAreInPhase, StoreInv, [Next]_vars PROVE StoreInv'
  OBVIOUS
<1>1. StoreLeftReadOnly' /\ \A hazards : Free(hazards)' => Free(hazards)
  BY NextStoreLeftReadOnly, MishapsGrow DEF StoreInv
<1>2. ASSUME NEW t \in Threads, ConnectionStep(t) \/ Abandon(t) PROVE StoreInv'
  BY <1>1, <1>2, ConnectionStepKeepsStore
<1>3. ASSUME NEW t \in Threads, StoreStep(t) PROVE StoreInv'
  BY <1>1, <1>3, BeginRotateKeepsStore, BeginDestroyKeepsStore, SealKeepsStore,
     LoadKeepsStore, MakeWritableKeepsStore, TruncateKeepsStore, WriteKeepsStore,
     WriteFailsKeepsStore, CommitKekKeepsStore DEF StoreStep
<1>4. CASE Crash
  BY <1>1, <1>4, CrashKeepsStore
<1>5. CASE UNCHANGED vars
  BY <1>5 DEF vars, StoreInv, KekRequestsAgreeWithRows, OneWriterAtATime,
     RequestsKnowTheirEntry, EntriesAgreeWithRows, StoreLeftReadOnly, AgreesWithRow,
     KnowsItsEntry, HoldsCopy, At, Free
<1>6. QED
  BY <1>2, <1>3, <1>4, <1>5 DEF Next

LEMMA InitIInv == Init => IInv
<1> SUFFICES ASSUME Init PROVE IInv
  OBVIOUS
<1>1. TypeOK
  BY InitTypeOK
<1>2. \A t \in Threads : /\ thread[t].op = "none" /\ thread[t].pc = "idle"
                          /\ thread[t].kek = NoOne
  BY DEF Init, Idle
<1>3. RequestsAreInPhase
  BY <1>2 DEF RequestsAreInPhase, InPhase, OnKek
<1>4. ConnectionFollowsRequest
  BY <1>2 DEF Init, Absent, ConnectionFollowsRequest, ChangesConnection,
     ConnectionSuits, At
<1>5. KekRequestsAgreeWithRows /\ RequestsKnowTheirEntry
  BY <1>2 DEF Init, KekRequestsAgreeWithRows, AgreesWithRow, RequestsKnowTheirEntry,
     KnowsItsEntry
<1>6. OneWriterAtATime /\ StoreLeftReadOnly
  BY <1>2 DEF Init, OneWriterAtATime, HoldsCopy, StoreLeftReadOnly
<1>7. EntriesAgreeWithRows
  BY IdentityAssumption DEF Init, EntriesAgreeWithRows, NoEntries
<1>8. QED
  BY <1>1, <1>3, <1>4, <1>5, <1>6, <1>7 DEF IInv, StoreInv

LEMMA NextIInv == IInv /\ [Next]_vars => IInv'
BY NextTypeOK, NextRequestsAreInPhase, NextConnectionFollowsRequest, NextStoreInv DEF IInv

\* The invariant that the other theorems rest on.
THEOREM ConnectionAndStoreInvariant == Spec => []IInv
BY InitIInv, NextIInv, PTL DEF Spec

\* Every value of the state has its type, whatever the requests do at once
\* (core/runtime.py, core/keystore.py).
THEOREM ConnectionTypeCorrect == Spec => []TypeOK
<1>1. IInv => TypeOK
  BY DEF IInv
<1>2. QED
  BY <1>1, ConnectionAndStoreInvariant, PTL

\* As long as requests for the connection do not overlap, only the connected
\* object has a root key in memory (runtime.disconnect before connect).
THEOREM RootOnlyInTheConnection == Spec => []RootOnlyWhileConnected
<1>1. IInv => RootOnlyWhileConnected
  BY DEF IInv, ConnectionFollowsRequest, RootOnlyWhileConnected
<1>2. QED
  BY <1>1, ConnectionAndStoreInvariant, PTL

\* Then unlock, lock and activate answer what is true of the connection when
\* they are about to commit.
THEOREM ConnectionAnswersAreTrue == Spec => []AnswersAreTrue
<1>1. IInv => AnswersAreTrue
  <2> SUFFICES ASSUME IInv, Free({"race"}), NEW t \in Threads, thread[t].pc = "committing"
               PROVE  /\ thread[t].op = "open" =>
                           connected # NoOne /\ instance[connected].root = "live"
                      /\ thread[t].op = "lock" => connected = NoOne
                      /\ thread[t].op = "activate" =>
                           /\ connected # NoOne
                           /\ instance[connected] = NewRoot(thread[t].target)
                           /\ active = thread[t].target
    BY DEF AnswersAreTrue, At
  <2>1. ConnectionFollowsRequest /\ \A u \in Threads : InPhase(u)
    BY DEF IInv, RequestsAreInPhase
  <2>2. ConnectionSuits(t)
    BY <2>1 DEF ConnectionFollowsRequest
  <2>3. ASSUME thread[t].op = "open" PROVE \A u \in Threads : thread[u].pc # "dropping"
    BY <2>1, <2>3 DEF ConnectionFollowsRequest, InPhase, ChangesConnection
  <2>4. QED
    BY <2>1, <2>2, <2>3 DEF ConnectionFollowsRequest, ConnectionSuits, At
<1>2. QED
  BY <1>1, ConnectionAndStoreInvariant, PTL

\* However requests overlap, the file is read-only again when nobody is writing
\* it, unless the process has died (os.chmod around write_text).
THEOREM StoreIsLeftReadOnly == Spec => []StoreLeftReadOnly
<1>1. IInv => StoreLeftReadOnly
  BY DEF IInv, StoreInv
<1>2. QED
  BY <1>1, ConnectionAndStoreInvariant, PTL

(***************************************************************************)
(* The entries of the file, and the store as KekMaterial.                  *)
(***************************************************************************)

\* What is in the file, or about to be written to it by the thread that has
\* emptied it.
SealsAreEntries ==
  Free({"overlap", "torn"}) =>
    \A k \in Keks :
      /\ file.whole => Sealed(k) = file.entries[k]
      /\ \A t \in Threads : thread[t].pc = "saving" =>
           Sealed(k) = IF k = thread[t].kek
                         THEN IF thread[t].op = "rotate" THEN thread[t].seal ELSE NoOne
                         ELSE file.entries[k]

LEMMA InvariantSealsEntries == IInv => SealsAreEntries
<1> SUFFICES ASSUME IInv, Free({"overlap", "torn"}), NEW k \in Keks
             PROVE  /\ file.whole => Sealed(k) = file.entries[k]
                    /\ \A t \in Threads : thread[t].pc = "saving" =>
                         Sealed(k) = IF k = thread[t].kek
                           THEN IF thread[t].op = "rotate" THEN thread[t].seal ELSE NoOne
                           ELSE file.entries[k]
  BY DEF SealsAreEntries
<1>1. file.whole => Sealed(k) = file.entries[k]
  BY DEF Sealed
<1>2. ASSUME NEW t \in Threads, thread[t].pc = "saving"
      PROVE  Sealed(k) = IF k = thread[t].kek
                           THEN IF thread[t].op = "rotate" THEN thread[t].seal ELSE NoOne
                           ELSE file.entries[k]
  <2> DEFINE savers == {u \in Threads : thread[u].pc = "saving"}
  <2>1. OneWriterAtATime /\ TypeOK
    BY DEF IInv, StoreInv
  <2>2. savers = {t} /\ ~file.whole /\ thread[t].copy = file.entries
    BY <1>2, <2>1 DEF OneWriterAtATime, HoldsCopy
  <2>3. Sealed(k) = Changed(CHOOSE u \in savers : TRUE)[k]
    BY <2>2 DEF Sealed
  <2>4. (CHOOSE u \in savers : TRUE) = t
    BY <2>2
  <2>5. Sealed(k) = Changed(t)[k]
    BY <2>3, <2>4
  <2>6. QED
    BY <2>1, <2>2, <2>5, ChangedEntries
<1>3. QED
  BY <1>1, <1>2

\* What the invariant says of the KEK that a thread is saving, and of the others.
LEMMA SavedKek ==
  ASSUME IInv, Free({"overlap", "torn"}), NEW k \in Keks
  PROVE  \/ file.whole /\ \A t \in Threads : thread[t].pc # "saving"
         \/ \E t \in Threads :
              /\ ~file.whole /\ thread[t].pc = "saving"
              /\ \A u \in Threads \ {t} : thread[u].pc # "saving"
              /\ \/ thread[t].op = "rotate" /\ kek[thread[t].kek].state = "none"
                                            /\ thread[t].kek \notin deleted
                 \/ thread[t].op = "destroy" /\ thread[t].kek \in deleted
<1>1. OneWriterAtATime /\ \A t \in Threads : InPhase(t) /\ AgreesWithRow(t)
  BY DEF IInv, StoreInv, RequestsAreInPhase, KekRequestsAgreeWithRows
<1>2. QED
  BY <1>1 DEF OneWriterAtATime, HoldsCopy, InPhase, OnKek, AgreesWithRow

\* Deleted material does not come back, and a destroyed KEK has none, as long as
\* no two requests are between load and save (keystore.delete, put).
THEOREM DestroyedKeksStayGone == Spec => []DestroyedKeksAreGone
<1>1. IInv /\ SealsAreEntries => DestroyedKeksAreGone
  <2> SUFFICES ASSUME IInv, SealsAreEntries, Free({"overlap", "torn"}), NEW k \in Keks,
                      k \in deleted \/ kek[k].state = "destroyed"
               PROVE  Sealed(k) = NoOne
    BY DEF DestroyedKeksAreGone
  <2>1. \/ file.entries[k] = NoOne
        \/ \E u \in Threads : thread[u].pc = "saving" /\ thread[u].kek = k
    BY DEF IInv, StoreInv, EntriesAgreeWithRows, At
  <2>2. QED
    BY <2>1, SavedKek DEF SealsAreEntries
<1>2. QED
  BY <1>1, InvariantSealsEntries, ConnectionAndStoreInvariant, PTL

\* A committed KEK has its entry, sealed by the provider its row names, whatever
\* connection is replaced in the meantime (service.rotate_kek, keystore.put).
THEOREM CommittedKeksStayStored == Spec => []CommittedKeksAreStored
<1>1. IInv /\ SealsAreEntries => CommittedKeksAreStored
  <2> SUFFICES ASSUME IInv, SealsAreEntries, Free({"overlap", "torn", "zeroed"}),
                      NEW k \in Keks \ deleted, kek[k].state = "live"
               PROVE  Sealed(k) = kek[k].provider
    BY DEF CommittedKeksAreStored
  <2>1. Free({"overlap", "torn"}) /\ Free({"zeroed"})
    BY DEF Free
  <2>2. file.entries[k] = kek[k].provider
    BY <2>1 DEF IInv, StoreInv, EntriesAgreeWithRows
  <2>3. QED
    BY <2>1, <2>2, SavedKek DEF SealsAreEntries
<1>2. QED
  BY <1>1, InvariantSealsEntries, ConnectionAndStoreInvariant, PTL

\* The status that the refinement mapping gives a KEK.
Status(k) == IF Sealed(k) # NoOne THEN "held" ELSE IF k \in deleted THEN "gone" ELSE "none"

Materials == [k \in Keks |-> Status(k)]
Spoiled == ~Free({"overlap", "torn"})

\* A step that leaves the entries alone, and the thread that is saving, if any.
LEMMA SameMaterial ==
  ASSUME IInv, SealsAreEntries, SealsAreEntries',
         Free({"overlap", "torn"}), Free({"overlap", "torn"})',
         UNCHANGED deleted, file'.whole = file.whole, file'.entries = file.entries,
         \A t \in Threads : thread[t].pc = "saving" => thread'[t] = thread[t]
  PROVE  Materials' = Materials
<1>1. ASSUME NEW k \in Keks PROVE Sealed(k)' = Sealed(k)
  BY <1>1, SavedKek DEF SealsAreEntries
<1>2. QED
  BY <1>1 DEF Materials, Status

\* A put or a delete takes effect when it empties the file.
LEMMA TruncateIsMaterialStep ==
  ASSUME IInv, SealsAreEntries, SealsAreEntries', NEW t \in Threads, Truncate(t),
         file.mode # "0400", Free({"overlap", "torn"}), Free({"overlap", "torn"})'
  PROVE  \E k \in Keks : \/ Materials[k] = "none"
                            /\ Materials' = [Materials EXCEPT ![k] = "held"]
                         \/ Materials[k] = "held"
                            /\ Materials' = [Materials EXCEPT ![k] = "gone"]
<1>0. TypeOK /\ OneWriterAtATime /\ InPhase(t) /\ AgreesWithRow(t) /\ KnowsItsEntry(t)
  BY DEF IInv, StoreInv, RequestsAreInPhase, KekRequestsAgreeWithRows,
     RequestsKnowTheirEntry
<1>1. thread \in [Threads -> Thread] /\ thread[t] \in Thread /\ file \in File
  BY <1>0 DEF TypeOK
<1>2. PICK k \in Keks : k = thread[t].kek
  BY <1>0 DEF Truncate, InPhase, OnKek
<1>3. /\ thread[t].pc = "writing" /\ thread[t].op \in {"rotate", "destroy"}
      /\ file'.entries = file.entries
      /\ deleted' = IF thread[t].op = "destroy" THEN deleted \cup {k} ELSE deleted
  BY <1>0, <1>1, <1>2 DEF Truncate, InPhase, OnKek, File
<1>4. /\ thread'[t].op = thread[t].op /\ thread'[t].kek = k /\ thread'[t].pc = "saving"
      /\ thread'[t].seal = thread[t].seal
  BY <1>1, <1>2 DEF Truncate, GoTo, Thread
<1>5. file.whole
  BY <1>0, <1>3 DEF OneWriterAtATime, HoldsCopy
<1>6. \A j \in Keks : Sealed(j) = file.entries[j]
  BY <1>5 DEF SealsAreEntries
<1>7. \A j \in Keks : Sealed(j)' =
        IF j = k THEN IF thread[t].op = "rotate" THEN thread[t].seal ELSE NoOne
                 ELSE file.entries[j]
  BY <1>3, <1>4 DEF SealsAreEntries
<1>8. \A j \in Keks \ {k} : Status(j)' = Status(j)
  BY <1>3, <1>6, <1>7 DEF Status
<1>9. CASE thread[t].op = "rotate"
  <2>1. file.entries[k] = NoOne /\ thread[t].seal # NoOne /\ k \notin deleted
    BY <1>0, <1>2, <1>3, <1>9, IdentityAssumption
       DEF KnowsItsEntry, AgreesWithRow, Seals
  <2>2. Status(k) = "none" /\ Status(k)' = "held"
    BY <1>6, <1>7, <1>9, <2>1 DEF Status
  <2>3. Materials[k] = "none" /\ Materials' = [Materials EXCEPT ![k] = "held"]
    BY <1>8, <2>2 DEF Materials
  <2>4. QED
    BY <2>3
<1>10. CASE thread[t].op = "destroy"
  <2>1. file.entries[k] # NoOne /\ k \in deleted'
    BY <1>0, <1>2, <1>3, <1>10 DEF KnowsItsEntry, HoldsCopy
  <2>2. Status(k) = "held" /\ Status(k)' = "gone"
    BY <1>6, <1>7, <1>10, <2>1 DEF Status
  <2>3. Materials[k] = "held" /\ Materials' = [Materials EXCEPT ![k] = "gone"]
    BY <1>8, <2>2 DEF Materials
  <2>4. QED
    BY <2>3
<1>11. QED
  BY <1>3, <1>9, <1>10

\* What was about to be written is what is in the file afterwards.
LEMMA WriteKeepsMaterial ==
  ASSUME IInv, SealsAreEntries, SealsAreEntries', NEW t \in Threads, Write(t),
         Free({"overlap", "torn"}), Free({"overlap", "torn"})'
  PROVE  Materials' = Materials
<1>1. TypeOK /\ OneWriterAtATime
  BY DEF IInv, StoreInv
<1>2. /\ file'.whole = TRUE /\ file'.entries = Changed(t)
      /\ \A k \in Keks : Changed(t)[k] =
           IF k = thread[t].kek
             THEN IF thread[t].op = "rotate" THEN thread[t].seal ELSE NoOne
             ELSE file.entries[k]
  BY <1>1, WriteFits
<1>3. thread[t].pc = "saving" /\ UNCHANGED deleted
  BY DEF Write
<1>4. ASSUME NEW k \in Keks PROVE Sealed(k)' = Sealed(k)
  <2>1. Sealed(k)' = Changed(t)[k]
    BY <1>2 DEF SealsAreEntries
  <2>2. Sealed(k) = IF k = thread[t].kek
                      THEN IF thread[t].op = "rotate" THEN thread[t].seal ELSE NoOne
                      ELSE file.entries[k]
    BY <1>3 DEF SealsAreEntries
  <2>3. QED
    BY <1>2, <2>1, <2>2
<1>5. QED
  BY <1>3, <1>4 DEF Materials, Status

\* Every step of the process is a step of the abstract store or leaves it alone.
LEMMA NextIsMaterialStep ==
  IInv /\ SealsAreEntries /\ SealsAreEntries' /\ [Next]_vars
    => [Material!MaterialNext]_<<Materials, Spoiled>>
<1> SUFFICES ASSUME IInv, SealsAreEntries, SealsAreEntries', [Next]_vars
             PROVE  \/ Material!MaterialNext
                    \/ Materials' = Materials /\ Spoiled' = Spoiled
  OBVIOUS
<1>0. TypeOK /\ OneWriterAtATime
  BY DEF IInv, StoreInv
<1>1. CASE Spoiled'
  <2>1. Materials' \in [Keks -> Material!Status]
    BY DEF Materials, Status, Material!Status
  <2>2. QED
    BY <1>1, <2>1 DEF Material!MaterialNext, Material!Spoil, Materials, Status, Spoiled
<1>2. CASE ~Spoiled'
  <2>0. Free({"overlap", "torn"}) /\ Free({"overlap", "torn"})'
    BY <1>2, MishapsGrow DEF Spoiled
  <2>1. Spoiled' = Spoiled
    BY <2>0 DEF Spoiled
  <2>2. ASSUME UNCHANGED deleted, file'.whole = file.whole, file'.entries = file.entries,
               \A t \in Threads : thread[t].pc = "saving" => thread'[t] = thread[t]
        PROVE  Materials' = Materials
    BY <2>0, <2>2, SameMaterial
  <2>3. ASSUME NEW t \in Threads, Step(t), UNCHANGED <<file, deleted>>,
               thread[t].pc # "saving"
        PROVE  Materials' = Materials
    BY <1>0, <2>2, <2>3, OthersUntouched
  <2>4. ASSUME NEW t \in Threads, ConnectionStep(t) \/ Abandon(t)
        PROVE  Materials' = Materials
    <3>1. UNCHANGED <<file, deleted>> /\ thread[t].pc # "saving"
      BY <2>4 DEF ConnectionStep, BeginOpen, BeginActivate, BeginLock, BeginDisconnect,
         Drop, Connect, ConnectFails, CommitOpen, CommitLock, CommitActivate, Abandon,
         At, store
    <3>2. QED
      BY <2>3, <2>4, <3>1 DEF Step
  <2>5. ASSUME NEW t \in Threads, StoreStep(t)
        PROVE  Materials' = Materials \/ Material!MaterialNext
    <3>0. Step(t)
      BY <2>5 DEF Step
    <3>1. CASE MakeWritable(t)
      <4>1. /\ file'.whole = file.whole /\ file'.entries = file.entries
            /\ UNCHANGED deleted /\ thread[t].pc = "loaded"
        BY <1>0, <3>1 DEF MakeWritable, TypeOK, File
      <4>2. QED
        BY <1>0, <2>2, <3>0, <4>1, OthersUntouched
    <3>2. CASE Truncate(t) /\ file.mode = "0400"
      BY <2>3, <3>0, <3>2 DEF Truncate, store
    <3>3. CASE Truncate(t) /\ file.mode # "0400"
      <4>1. PICK k \in Keks : \/ Materials[k] = "none"
                                 /\ Materials' = [Materials EXCEPT ![k] = "held"]
                              \/ Materials[k] = "held"
                                 /\ Materials' = [Materials EXCEPT ![k] = "gone"]
        BY <2>0, <3>3, TruncateIsMaterialStep
      <4>2. Material!Create(k) \/ Material!Destroy(k)
        BY <2>0, <4>1 DEF Material!Create, Material!Destroy, Materials, Status
      <4>3. QED
        BY <2>0, <4>2 DEF Material!MaterialNext
    <3>4. CASE Write(t)
      BY <2>0, <3>4, WriteKeepsMaterial
    <3>5. CASE WriteFails(t)
      BY <2>0, <3>5 DEF WriteFails, Free
    <3>6. ASSUME ~MakeWritable(t), ~Truncate(t), ~Write(t), ~WriteFails(t)
          PROVE  Materials' = Materials
      <4>1. UNCHANGED <<file, deleted>> /\ thread[t].pc # "saving"
        BY <2>5, <3>6 DEF StoreStep, BeginRotate, BeginDestroy, Seal, Load, CommitRotate,
           CommitDestroy, At, store
      <4>2. QED
        BY <2>3, <3>0, <4>1
    <3>7. QED
      BY <3>1, <3>2, <3>3, <3>4, <3>5, <3>6
  <2>6. CASE Crash
    <3>1. \A t \in Threads : thread[t].pc # "saving"
      BY <2>0, <2>6 DEF Crash, Free
    <3>2. QED
      BY <2>1, <2>2, <2>6, <3>1 DEF Crash, store
  <2>7. CASE UNCHANGED vars
    BY <2>1, <2>2, <2>7 DEF vars
  <2>8. QED
    BY <2>1, <2>4, <2>5, <2>6, <2>7 DEF Next
<1>3. QED
  BY <1>1, <1>2

\* The file keeps the promise of KekMaterial: material is created once, is there
\* until it is deleted, and does not come back, as long as no two requests are
\* between load and save and the process neither dies nor fails to write while
\* the file is empty.
THEOREM StoreImplementsKekMaterial == Spec => ImplementsKekMaterial
<1>1. Init => Material!MaterialInit
  BY IdentityAssumption
     DEF Init, Material!MaterialInit, Sealed, NoEntries, Free
<1>2. [Material!MaterialNext]_<<Materials, Spoiled>>
        => [Material!MaterialNext]_<<[k \in Keks |-> IF Sealed(k) # NoOne THEN "held"
                                        ELSE IF k \in deleted THEN "gone" ELSE "none"],
                                     ~Free({"overlap", "torn"})>>
  BY DEF Materials, Status, Spoiled
<1>3. QED
  BY <1>1, <1>2, NextIsMaterialStep, InvariantSealsEntries, ConnectionAndStoreInvariant, PTL
     DEF Spec, ImplementsKekMaterial, Material!MaterialSpec

=============================================================================
