------------------------- MODULE ProviderConnection -------------------------
(***************************************************************************)
(* The one provider connection of the process (core/runtime.py), shared by *)
(* all sessions, and the file in which the local providers keep the KEKs   *)
(* (core/keystore.py).                                                     *)
(*                                                                         *)
(* Requests run in threads and take no lock on either.  The connection is  *)
(* a module variable that is looked at and set in separate steps, and      *)
(* disconnecting zeroes a key others may be about to use.  put and delete  *)
(* load the file, change the copy and write all of it back.                *)
(*                                                                         *)
(* An entry of the file is modelled by the root key that sealed it, the    *)
(* only one that opens it: a provider's, or the zeroed one.                *)
(***************************************************************************)
EXTENDS Integers, FiniteSets

CONSTANTS
  Threads,    \* server threads; each has an operator with one session
  Instances,  \* provider objects
  Providers,  \* providers over the one store file: "file" and "env"
  Default,    \* the provider of a process that has just started
  Keks,       \* provider_refs
  First,      \* the KEK there is at first
  NoOne       \* no provider object, no KEK, no entry

ASSUME IdentityAssumption == /\ NoOne \notin Instances \cup Keks \cup Providers \cup {"zeroed"}
                             /\ First \in Keks
                             /\ Default \in Providers
                             /\ "zeroed" \notin Providers
ASSUME KeksAssumption == IsFiniteSet(Keks)

VARIABLES
  connected,  \* _provider
  active,     \* _provider_name
  instance,   \* the provider objects and their root keys
  file,       \* the store file: its entries, its length, its mode
  kek,        \* committed rows of keks: state and provider_name
  current,    \* the KEK whose row is active
  open,       \* threads whose operator has an unlocked session
  thread,     \* what each thread is doing
  deleted,    \* KEKs whose entry delete has taken out of the file
  mishaps     \* what has happened that the code does not guard against

vars == <<connected, active, instance, file, kek, current, open, thread,
          deleted, mishaps>>

connection == <<connected, active, instance, open>>
store == <<file, deleted>>
rows == <<kek, current>>

Seals == Providers \cup {"zeroed"}
Entries == [Keks -> Seals \cup {NoOne}]
Absent == [provider |-> Default, root |-> "none"]
NoEntries == [k \in Keks |-> NoOne]

\* whole: the file parses.  An emptied or garbled file does not.
File == [whole : BOOLEAN, entries : Entries, length : Nat, mode : {"0400", "0600"}]

Operation == {"none", "open", "lock", "activate", "rotate", "destroy"}

Thread == [op : Operation,
           pc : {"idle", "dropping", "connecting", "committing", "sealing", "loading",
                 "loaded", "writing", "saving"},
           object : Instances \cup {NoOne},
           target : Providers,
           kek : Keks \cup {NoOne},
           base : Keks \cup {NoOne},
           seal : Seals \cup {NoOne},
           copy : Entries]

Idle == [op |-> "none", pc |-> "idle", object |-> NoOne, target |-> Default,
         kek |-> NoOne, base |-> NoOne, seal |-> NoOne, copy |-> NoEntries]

\* race: two requests at the connection; zeroed: a KEK sealed with a zeroed key;
\* overlap: two requests between load and save of the file; torn: a crash or a
\* failed write while the file is empty; crash: any other crash.
Mishap == {"race", "zeroed", "overlap", "torn", "crash"}

TypeOK ==
  /\ connected \in Instances \cup {NoOne}
  /\ active \in Providers
  /\ instance \in [Instances -> [provider : Providers, root : {"none", "live", "zeroed"}]]
  /\ file \in File
  /\ kek \in [Keks -> [state : {"none", "live", "destroyed"}, provider : Providers]]
  /\ current \in Keks
  /\ open \in SUBSET Threads
  /\ thread \in [Threads -> Thread]
  /\ deleted \in SUBSET Keks
  /\ mishaps \in SUBSET Mishap

Init ==
  /\ connected = NoOne
  /\ active = Default
  /\ instance = [i \in Instances |-> Absent]
  /\ file = [whole |-> TRUE, entries |-> [NoEntries EXCEPT ![First] = Default],
             length |-> 1, mode |-> "0400"]
  /\ kek = [k \in Keks |-> [state |-> IF k = First THEN "live" ELSE "none",
                            provider |-> Default]]
  /\ current = First
  /\ open = {}
  /\ thread = [t \in Threads |-> Idle]
  /\ deleted = {}
  /\ mishaps = {}

-----------------------------------------------------------------------------
At(t, op, pc) == thread[t].op = op /\ thread[t].pc = pc

GoTo(t, pc) == thread' = [thread EXCEPT ![t].pc = pc]
Finish(t) == thread' = [thread EXCEPT ![t] = Idle]

Add(mishap, happened) ==
  mishaps' = IF happened THEN mishaps \cup {mishap} ELSE mishaps

ChangesConnection(t) == thread[t].op \in {"open", "lock", "activate"}

\* Two requests that concern the connection run at the same time.
NoteRace(t) == Add("race", \E u \in Threads \ {t} : ChangesConnection(u))

\* get_current_session, and get_service on top of it.
Admitted(t) == t \in open
HasService(t) == Admitted(t) /\ connected # NoOne

-----------------------------------------------------------------------------
(* Sessions and the connection.                                            *)

\* is_connected, and connect only when there is no provider; the provider the
\* body asks for is passed over when there is one.
BeginOpen(t, p) ==
  /\ thread[t].pc = "idle"
  /\ thread' = [thread EXCEPT ![t].op = "open", ![t].target = p,
       ![t].pc = IF connected = NoOne THEN "connecting" ELSE "committing"]
  /\ NoteRace(t)
  /\ UNCHANGED <<connection, store, rows>>

\* disconnect zeroes the root key of the object that _provider names.
ZeroConnected == instance' = [instance EXCEPT ![connected].root = "zeroed"]

BeginDisconnect(t, op, p, next) ==
  /\ thread[t].pc = "idle"
  /\ Admitted(t)
  /\ thread' = [thread EXCEPT ![t].op = op, ![t].target = p, ![t].object = connected,
       ![t].pc = IF connected = NoOne THEN next ELSE "dropping"]
  /\ IF connected = NoOne THEN UNCHANGED instance ELSE ZeroConnected
  /\ NoteRace(t)
  /\ UNCHANGED <<connected, active, open, store, rows>>

BeginLock(t) == BeginDisconnect(t, "lock", Default, "committing")

\* A slip: the new connection replaces the old one without disconnecting it.
ActivateAtOnce(t, p) ==
  /\ thread[t].pc = "idle" /\ Admitted(t)
  /\ thread' = [thread EXCEPT ![t].op = "activate", ![t].target = p, ![t].pc = "connecting"]
  /\ NoteRace(t)
  /\ UNCHANGED <<connection, store, rows>>

BeginActivate(t, p) == BeginDisconnect(t, "activate", p, "connecting")

\* The object forgets its key; _provider = None, whatever it names by now.
Drop(t) ==
  /\ thread[t].pc = "dropping"
  /\ instance' = [instance EXCEPT ![thread[t].object] = Absent]
  /\ connected' = NoOne
  /\ GoTo(t, IF thread[t].op = "lock" THEN "committing" ELSE "connecting")
  /\ UNCHANGED <<active, open, store, rows, mishaps>>

\* get_provider makes a new object for every connection.
Unused(i) ==
  /\ instance[i].root = "none"
  /\ \A t \in Threads : thread[t].object # i

\* The root key of a provider: from a passphrase file, or from an environment
\* variable.
NewRoot(p) == [provider |-> p, root |-> "live"]

\* A slip: _provider_name is left alone.
ConnectWithoutName(t, i) ==
  /\ thread[t].pc = "connecting"
  /\ Unused(i)
  /\ instance' = [instance EXCEPT ![i] = NewRoot(thread[t].target)]
  /\ connected' = i
  /\ thread' = [thread EXCEPT ![t].pc = "committing", ![t].object = NoOne]
  /\ UNCHANGED <<active, open, store, rows, mishaps>>

Connect(t, i) ==
  /\ thread[t].pc = "connecting"
  /\ Unused(i)
  /\ instance' = [instance EXCEPT ![i] = NewRoot(thread[t].target)]
  /\ connected' = i
  /\ active' = thread[t].target
  /\ thread' = [thread EXCEPT ![t].pc = "committing", ![t].object = NoOne]
  /\ UNCHANGED <<open, store, rows, mishaps>>

\* The secret is missing, not hex, or its file is not 0400: the request ends, and
\* what was disconnected stays so.
ConnectFails(t) ==
  /\ thread[t].pc = "connecting"
  /\ Finish(t)
  /\ UNCHANGED <<connection, store, rows, mishaps>>

\* What the requests write: a session, its lock, or the settings row.
CommitOpen(t) ==
  /\ At(t, "open", "committing")
  /\ open' = open \cup {t}
  /\ Finish(t)
  /\ UNCHANGED <<connected, active, instance, store, rows, mishaps>>

CommitLock(t) ==
  /\ At(t, "lock", "committing")
  /\ open' = open \ {t}
  /\ Finish(t)
  /\ UNCHANGED <<connected, active, instance, store, rows, mishaps>>

CommitActivate(t) ==
  /\ At(t, "activate", "committing")
  /\ Finish(t)
  /\ UNCHANGED <<connection, store, rows, mishaps>>

-----------------------------------------------------------------------------
(* KEK requests.  get_service takes the connected object once.             *)

BeginRotate(t, k) ==
  /\ thread[t].pc = "idle"
  /\ HasService(t)
  /\ kek[k].state = "none" /\ \A u \in Threads : thread[u].kek # k
  /\ file.entries[k] = NoOne /\ k \notin deleted
  /\ thread' = [thread EXCEPT ![t].op = "rotate", ![t].pc = "sealing", ![t].kek = k,
                              ![t].base = current, ![t].object = connected,
                              ![t].target = instance[connected].provider]
  /\ UNCHANGED <<connection, store, rows, mishaps>>

\* The endpoint asks for an approval and for a KEK without dependents, in a
\* state that may be destroyed (modules KeyHierarchy, DestructiveRequests).
BeginDestroy(t, k) ==
  /\ thread[t].pc = "idle"
  /\ HasService(t)
  /\ kek[k].state = "live" /\ k # current
  /\ thread' = [thread EXCEPT ![t].op = "destroy", ![t].pc = "loading", ![t].kek = k]
  /\ UNCHANGED <<connection, store, rows, mishaps>>

\* put: the entry is sealed with what the object's root key is at this moment.
\* Between zeroize and the assignment of None that is a key of zeroes.
Seal(t) ==
  LET root == instance[thread[t].object].root IN
  /\ thread[t].pc = "sealing"
  /\ IF root = "none" THEN Finish(t)
     ELSE thread' = [thread EXCEPT ![t].pc = "loading", ![t].object = NoOne,
            ![t].seal = IF root = "live" THEN thread[t].target ELSE "zeroed"]
  /\ Add("zeroed", root = "zeroed")
  /\ UNCHANGED <<connection, store, rows>>

\* _load_raw; a file that does not parse is an error of the request.
\* delete leaves the file alone when there is no such entry.
Load(t) ==
  /\ thread[t].pc = "loading"
  /\ IF file.whole
     THEN thread' = [thread EXCEPT ![t].copy = file.entries,
            ![t].pc = IF thread[t].op = "destroy" /\ file.entries[thread[t].kek] = NoOne
                      THEN "committing" ELSE "loaded"]
     ELSE Finish(t)
  /\ Add("overlap",
         \E u \in Threads \ {t} : thread[u].pc \in {"loaded", "writing", "saving"})
  /\ UNCHANGED <<connection, store, rows>>

MakeWritable(t) ==
  /\ thread[t].pc = "loaded"
  /\ file' = [file EXCEPT !.mode = "0600"]
  /\ GoTo(t, "writing")
  /\ UNCHANGED <<connection, rows, deleted, mishaps>>

\* write_text opens the file for writing, which empties it; that fails when
\* another request has made it read-only again.
Truncate(t) ==
  /\ thread[t].pc = "writing"
  /\ IF file.mode = "0400"
     THEN Finish(t) /\ UNCHANGED store
     ELSE /\ file' = [file EXCEPT !.whole = FALSE, !.length = 0]
          /\ deleted' = IF thread[t].op = "destroy" THEN deleted \cup {thread[t].kek}
                                                    ELSE deleted
          /\ GoTo(t, "saving")
  /\ UNCHANGED <<connection, rows, mishaps>>

\* Slips: the file is written afresh; delete forgets to take the entry out.
Afresh(t) == [NoEntries EXCEPT ![thread[t].kek] =
                IF thread[t].op = "rotate" THEN thread[t].seal ELSE NoOne]

Retained(t) == IF thread[t].op = "destroy" THEN thread[t].copy
               ELSE [thread[t].copy EXCEPT ![thread[t].kek] = thread[t].seal]

\* data[ref] = ... of put, del data[ref] of delete.
Changed(t) == [thread[t].copy EXCEPT ![thread[t].kek] =
                 IF thread[t].op = "rotate" THEN thread[t].seal ELSE NoOne]

Size(entries) == Cardinality({k \in Keks : entries[k] # NoOne})

\* A slip: the chmod after the write is missing.
LeftWritable == "0600"

SavedMode == "0400"

\* Each writer starts at offset 0; the tail of a longer text that another one
\* has written in the meantime stays behind it.
Write(t) ==
  LET fits == file.length <= Size(Changed(t)) IN
  /\ thread[t].pc = "saving"
  /\ file' = [whole |-> fits, mode |-> SavedMode,
              length |-> IF fits THEN Size(Changed(t)) ELSE file.length,
              entries |-> IF fits THEN Changed(t) ELSE NoEntries]
  /\ thread' = [thread EXCEPT ![t].pc = "committing", ![t].copy = NoEntries]
  /\ UNCHANGED <<connection, rows, deleted, mishaps>>

\* write_text fails after it has emptied the file, as on a full disk: the request
\* ends before the chmod, and the process lives on with the file as it is now.
WriteFails(t) ==
  /\ thread[t].pc = "saving"
  /\ mishaps' = mishaps \cup {"torn"}
  /\ Finish(t)
  /\ UNCHANGED <<connection, store, rows>>

\* Slips: the process's current provider; the provider of the seal.
ActiveName(t) == active
NameOfSeal(t) == thread[t].seal

\* self.provider.name
ProviderName(t) == thread[t].target

\* The row of the new KEK, unless another rotation has been committed: the
\* partial unique index admits one active KEK.
CommitRotate(t) ==
  LET k == thread[t].kek IN
  /\ At(t, "rotate", "committing")
  /\ IF thread[t].base = current
     THEN /\ kek' = [kek EXCEPT ![k] = [state |-> "live", provider |-> ProviderName(t)]]
          /\ current' = k
     ELSE UNCHANGED rows
  /\ Finish(t)
  /\ UNCHANGED <<connection, store, mishaps>>

CommitDestroy(t) ==
  /\ At(t, "destroy", "committing")
  /\ kek' = [kek EXCEPT ![thread[t].kek].state = "destroyed"]
  /\ Finish(t)
  /\ UNCHANGED <<connection, store, current, mishaps>>

\* The database refuses the request: get_db rolls the rows back, the connection
\* and the file stay as they are.
Abandon(t) ==
  /\ thread[t].pc = "committing"
  /\ Finish(t)
  /\ UNCHANGED <<connection, store, rows, mishaps>>

\* The process dies and is started again: it has no connection, and its
\* provider name is the default, whatever the settings row says.
Crash ==
  /\ mishaps \cap {"crash", "torn"} = {}
  /\ connected' = NoOne
  /\ active' = Default
  /\ instance' = [i \in Instances |-> Absent]
  /\ thread' = [t \in Threads |-> Idle]
  /\ mishaps' = mishaps \cup
       {IF \E t \in Threads : thread[t].pc = "saving" THEN "torn" ELSE "crash"}
  /\ UNCHANGED <<open, store, rows>>

ConnectionStep(t) ==
  \/ \E p \in Providers : BeginOpen(t, p) \/ BeginActivate(t, p)
  \/ BeginLock(t)
  \/ Drop(t)
  \/ \E i \in Instances : Connect(t, i)
  \/ ConnectFails(t)
  \/ CommitOpen(t) \/ CommitLock(t) \/ CommitActivate(t)

StoreStep(t) ==
  \/ \E k \in Keks : BeginRotate(t, k) \/ BeginDestroy(t, k)
  \/ Seal(t) \/ Load(t) \/ MakeWritable(t) \/ Truncate(t)
  \/ Write(t) \/ WriteFails(t)
  \/ CommitRotate(t) \/ CommitDestroy(t)

Next ==
  \/ \E t \in Threads : ConnectionStep(t) \/ StoreStep(t) \/ Abandon(t)
  \/ Crash

Spec == Init /\ [][Next]_vars

-----------------------------------------------------------------------------
(* What the connection and the store promise as long as nothing happens    *)
(* that the code does not guard against.                                   *)

Free(hazards) == mishaps \cap hazards = {}

\* As long as requests for the connection come one after another, no provider
\* object but the connected one has a root key in memory: what a lock or an
\* activation has replaced is zeroed (runtime.disconnect before connect).
RootOnlyWhileConnected ==
  Free({"race"}) => \A i \in Instances : instance[i].root = "live" => i = connected

\* Then, too, the answers are true when they are given: a session is opened over
\* a live provider, a lock has left none, an activated provider is the connected
\* one and the one the process names.
AnswersAreTrue ==
  Free({"race"}) =>
    \A t \in Threads :
      /\ At(t, "open", "committing") =>
           connected # NoOne /\ instance[connected].root = "live"
      /\ At(t, "lock", "committing") => connected = NoOne
      /\ At(t, "activate", "committing") =>
           /\ connected # NoOne
           /\ instance[connected] = NewRoot(thread[t].target)
           /\ active = thread[t].target

\* The seal of an entry in the file, or in what is about to be written to it.
Sealed(k) ==
  IF file.whole THEN file.entries[k]
  ELSE LET savers == {t \in Threads : thread[t].pc = "saving"} IN
       IF savers = {} THEN NoOne ELSE Changed(CHOOSE t \in savers : TRUE)[k]

\* A KEK whose row is committed has its material in the store, sealed with the
\* root key of the provider the row names, unless delete has taken it out;
\* whatever connection is locked or replaced while the KEK is being made.
CommittedKeksAreStored ==
  Free({"overlap", "torn", "zeroed"}) =>
    \A k \in Keks \ deleted : kek[k].state = "live" => Sealed(k) = kek[k].provider

\* Material that was deleted does not come back with a later write, and a KEK
\* whose row says destroyed has none.
DestroyedKeksAreGone ==
  Free({"overlap", "torn"}) =>
    \A k \in Keks : (k \in deleted \/ kek[k].state = "destroyed") => Sealed(k) = NoOne

\* However requests overlap, the store is read-only again once nobody is writing
\* it; only a crash or a failed write leaves it writable (0400, keystore.py).
StoreLeftReadOnly ==
  file.mode = "0600" => \/ \E t \in Threads : thread[t].pc \in {"writing", "saving"}
                        \/ ~Free({"crash", "torn"})

\* A put or a delete in its several steps is one step of the abstract store.
Material == INSTANCE KekMaterial WITH
  material <- [k \in Keks |-> IF Sealed(k) # NoOne THEN "held"
                              ELSE IF k \in deleted THEN "gone" ELSE "none"],
  spoiled <- ~Free({"overlap", "torn"})

\* The store implements what the key hierarchy takes for granted of a provider.
ImplementsKekMaterial == Material!MaterialSpec
=============================================================================
