---------------------------- MODULE LockedStorage -----------------------------
(***************************************************************************)
(* ConcurrentArtifactStorage (internal/storage/concurrent_artifact_        *)
(* storage.go) around SimpleFileStorage: concurrent calls, each choosing a *)
(* lock, waiting for it, and working on the files of an artifact one       *)
(* file-system step at a time.                                             *)
(*                                                                         *)
(* A call that names its artifact by a reference looks the reference up    *)
(* twice: the wrapper does to choose the lock (key), and the storage does  *)
(* again, once the lock is held, to find the files (at).                   *)
(*                                                                         *)
(* A file is absent, torn (created and not all written, or being changed   *)
(* in place) or whole.  Every artifact has a metaref shard of its own and  *)
(* tags are within their limits; both are the subject of SimpleFileStorage,*)
(* and Move is RegistryPush's.                                             *)
(***************************************************************************)
EXTENDS FiniteSets

CONSTANTS
    Calls,        \* the calls, each from a goroutine or process of its own
    Hashes,       \* artifacts
    Names,        \* references, by Registry::Name
    Binds,        \* the artifacts a reference may be created for: <<name, hash>>
    Looked,       \* references that calls name an artifact by
    Timeouts,     \* waiting for a lock may time out
    WriteFaults,  \* writing a blob may break off
    None          \* no artifact, no reference, no lock holder

ASSUME SetsAssumption == Binds \subseteq Names \X Hashes /\ Looked \subseteq Names
ASSUME FlagsAssumption == Timeouts \in BOOLEAN /\ WriteFaults \in BOOLEAN
ASSUME NoneAssumption == None \notin Calls \cup Hashes \cup Names

VARIABLES
    call,      \* what each call asks for
    pc,        \* its next step, or how it ended
    key,       \* the artifact whose lock it chose
    at,        \* the artifact it works on, with the lock held
    dropping,  \* the references a deletion has yet to drop
    blob, meta,        \* the files of each artifact
    metaref,           \* the reference files of each artifact
    lookup,            \* the artifact a reference leads to
    writer, readers    \* the holders of the lock of each artifact

store == <<blob, meta, metaref, lookup>>
locks == <<writer, readers>>
vars == <<call, pc, key, at, dropping, blob, meta, metaref, lookup, writer, readers>>

File == {"absent", "torn", "whole"}

\* The identifier of a call has a hash or (byName) a reference alone.  A creation
\* by reference has its hash in the metadata.
Creations ==
    {c \in [op : {"create"}, hash : Hashes, name : Names \cup {None}, byName : BOOLEAN] :
        IF c.name = None THEN ~c.byName ELSE <<c.name, c.hash>> \in Binds}
OnBlob == [op : {"update", "read", "getmeta"}, hash : Hashes, name : {None}, byName : {FALSE}]
Deletions == [op : {"delete"}, hash : Hashes, name : Names \cup {None}, byName : {FALSE}]
OnReference == [op : {"updateref", "getref"}, hash : Hashes, name : Names, byName : {FALSE}]
ByName == [op : {"update", "read", "getmeta", "delete"}, hash : {None}, name : Looked,
           byName : {TRUE}]
Requests == Creations \cup OnBlob \cup Deletions \cup OnReference \cup ByName

Ended == {"done", "failed", "garbled"}
MutatorLabels == {"stat", "existing", "create", "copy", "meta", "metawrite", "link",
                  "refcreate", "refwrite", "openupdate", "copyupdate", "getoldref",
                  "check", "drop", "trashblob", "trashmeta", "trashrefs"}
ReaderLabels == {"open", "stream", "readmeta", "readref"}
Label == Ended \cup MutatorLabels \cup ReaderLabels \cup {"idle", "lock"}

At(p, label) == pc[p] = label
Goto(p, label) == pc' = [pc EXCEPT ![p] = label]

References(k) == {r \in Names : metaref[k][r] # "absent"}

\* What a call that has the lock of k to itself may rely on: no file of k was left
\* half way, save a blob whose writing broke off; what is listed has its blob; and
\* every reference that leads to k is listed by k.
Consistent(k) ==
    /\ meta[k] # "torn"
    /\ meta[k] # "absent" => blob[k] # "absent"
    /\ \A r \in Names : /\ metaref[k][r] # "torn"
                        /\ metaref[k][r] # "absent" => blob[k] # "absent"
                        /\ lookup[r] = k => metaref[k][r] # "absent"

\* Calls begin on any files that earlier calls can have left.
Init ==
    /\ call \in [Calls -> Requests]
    /\ blob \in [Hashes -> {"absent", "whole"}]
    /\ meta = blob
    /\ metaref \in [Hashes -> [Names -> {"absent", "whole"}]]
    /\ \A k \in Hashes, r \in Names : metaref[k][r] = "whole" => <<r, k>> \in Binds
    /\ lookup \in [Names -> Hashes \cup {None}]
    /\ \A k \in Hashes : Consistent(k)
    /\ pc = [p \in Calls |-> "idle"]
    /\ key = [p \in Calls |-> None]
    /\ at = [p \in Calls |-> None]
    /\ dropping = [p \in Calls |-> {}]
    /\ writer = [k \in Hashes |-> None]
    /\ readers = [k \in Hashes |-> {}]

------------------------------------------------------------------------------
(* Choosing, taking and releasing the lock *)

\* resolveIdentifier; also the hash of a creation, whose lock is that of meta.Hash.
Resolve(c) == IF c.byName /\ c.op # "create" THEN lookup[c.name] ELSE c.hash

resolveLockHash(p) ==
    /\ At(p, "idle")
    /\ key' = [key EXCEPT ![p] = Resolve(call[p])]
    /\ Goto(p, IF Resolve(call[p]) = None THEN "failed" ELSE "lock")
    /\ UNCHANGED <<call, at, dropping, store, locks>>

\* The first step of each operation in the wrapped storage.
Entry(op) ==
    CASE op = "create" -> "stat"
      [] op = "update" -> "openupdate"
      [] op = "delete" -> "check"
      [] op = "updateref" -> "getoldref"
      [] op = "read" -> "open"
      [] op = "getmeta" -> "readmeta"
      [] op = "getref" -> "readref"

Exclusive(p) == call[p].op \in {"create", "update", "delete", "updateref"}

Free(p) == writer[key[p]] = None /\ (Exclusive(p) => readers[key[p]] = {})

\* Seeded fault: the operations that change an artifact take the shared lock.
AcquireShared(p) ==
    /\ At(p, "lock") /\ writer[key[p]] = None
    /\ Resolve(call[p]) # None
    /\ at' = [at EXCEPT ![p] = Resolve(call[p])]
    /\ readers' = [readers EXCEPT ![key[p]] = @ \cup {p}]
    /\ Goto(p, Entry(call[p].op))
    /\ UNCHANGED <<call, key, dropping, store, writer>>

\* Seeded fault: a reference that leads nowhere any more is not noticed.
AcquireUnresolved(p) ==
    /\ At(p, "lock") /\ Free(p)
    /\ at' = [at EXCEPT ![p] = Resolve(call[p])]
    /\ IF Exclusive(p)
       THEN writer' = [writer EXCEPT ![key[p]] = p] /\ UNCHANGED readers
       ELSE readers' = [readers EXCEPT ![key[p]] = @ \cup {p}] /\ UNCHANGED writer
    /\ Goto(p, Entry(call[p].op))
    /\ UNCHANGED <<call, key, dropping, store>>

\* The storage resolves the identifier right after the lock is taken: as one step,
\* since the lookup does not depend on the lock.  If it leads nowhere any more the
\* call fails, and the lock is released at once.
acquireLock(p) ==
    /\ At(p, "lock") /\ Free(p)
    /\ \/ /\ Resolve(call[p]) # None
          /\ at' = [at EXCEPT ![p] = Resolve(call[p])]
          /\ IF Exclusive(p)
             THEN writer' = [writer EXCEPT ![key[p]] = p] /\ UNCHANGED readers
             ELSE readers' = [readers EXCEPT ![key[p]] = @ \cup {p}] /\ UNCHANGED writer
          /\ Goto(p, Entry(call[p].op))
       \/ /\ Resolve(call[p]) = None
          /\ Goto(p, "failed")
          /\ UNCHANGED <<at, locks>>
    /\ UNCHANGED <<call, key, dropping, store>>

LockTimeout(p) ==
    /\ Timeouts /\ At(p, "lock") /\ ~Free(p)
    /\ Goto(p, "failed")
    /\ UNCHANGED <<call, key, at, dropping, store, locks>>

Continue(p, to) ==
    /\ Goto(p, to)
    /\ UNCHANGED <<call, key, at, dropping, locks>>

\* The call ends, and the deferred Unlock with it.
End(p, how) ==
    /\ Goto(p, how)
    /\ at' = [at EXCEPT ![p] = None]
    /\ dropping' = [dropping EXCEPT ![p] = {}]
    /\ writer' = [k \in Hashes |-> IF writer[k] = p THEN None ELSE writer[k]]
    /\ readers' = [k \in Hashes |-> readers[k] \ {p}]
    /\ UNCHANGED <<call, key>>

------------------------------------------------------------------------------
(* CreateArtifact *)

StatBlob(p) ==
    /\ At(p, "stat")
    /\ Continue(p, IF blob[at[p]] = "absent" THEN "create" ELSE "existing")
    /\ UNCHANGED store

\* With a reference the creation goes on, without one it is over.
Linked(p) == call[p].name # None

\* GetMeta of the identifier: by reference it is what the reference leads to.
ExistingMeta(c) ==
    IF c.byName THEN IF lookup[c.name] = None THEN "none" ELSE meta[lookup[c.name]]
                ELSE meta[c.hash]

\* Without a length on record it is that of the file; a creation of another size is
\* refused, and so is one whose reference leads nowhere.
ExistingArtifact(p) ==
    /\ At(p, "existing")
    /\ \/ /\ ExistingMeta(call[p]) \in {"absent", "whole"}
          /\ \/ Linked(p) /\ Continue(p, "link")
             \/ ~Linked(p) /\ End(p, "done")
       \/ ExistingMeta(call[p]) # "torn" /\ End(p, "failed")
       \/ ExistingMeta(call[p]) = "torn" /\ End(p, "garbled")
    /\ UNCHANGED store

CreateBlob(p) ==
    /\ At(p, "create")
    /\ Continue(p, "copy")
    /\ blob' = [blob EXCEPT ![at[p]] = "torn"]
    /\ UNCHANGED <<meta, metaref, lookup>>

\* A file that was moved to the trash meanwhile takes the bytes along.
Fill(files, k) == IF files[k] = "absent" THEN files ELSE [files EXCEPT ![k] = "whole"]

CopyBlob(p) ==
    /\ At(p, "copy")
    /\ \/ /\ Continue(p, "meta")
          /\ blob' = Fill(blob, at[p])
       \/ WriteFaults /\ End(p, "failed") /\ UNCHANGED blob
    /\ UNCHANGED <<meta, metaref, lookup>>

CreateMeta(p) ==
    /\ At(p, "meta")
    /\ Continue(p, "metawrite")
    /\ meta' = [meta EXCEPT ![at[p]] = "torn"]
    /\ UNCHANGED <<blob, metaref, lookup>>

WriteMeta(p) ==
    /\ At(p, "metawrite")
    /\ \/ Linked(p) /\ Continue(p, "link")
       \/ ~Linked(p) /\ End(p, "done")
    /\ meta' = Fill(meta, at[p])
    /\ UNCHANGED <<blob, metaref, lookup>>

createOrUpdateRef(p) ==
    /\ At(p, "link")
    /\ Continue(p, "refcreate")
    /\ lookup' = [lookup EXCEPT ![call[p].name] = at[p]]
    /\ UNCHANGED <<blob, meta, metaref>>

\* createOrUpdateMetaRefFile, of CreateArtifact and UpdateReference.
CreateMetaRef(p) ==
    /\ At(p, "refcreate")
    /\ Continue(p, "refwrite")
    /\ metaref' = [metaref EXCEPT ![at[p]][call[p].name] = "torn"]
    /\ UNCHANGED <<blob, meta, lookup>>

WriteMetaRef(p) ==
    /\ At(p, "refwrite")
    /\ End(p, "done")
    /\ metaref' = [metaref EXCEPT ![at[p]] = Fill(@, call[p].name)]
    /\ UNCHANGED <<blob, meta, lookup>>

------------------------------------------------------------------------------
(* UpdateBlob, UpdateReference *)

\* The file is changed in place: what is read before the call ends is neither the
\* old blob nor the new one.
OpenForUpdate(p) ==
    /\ At(p, "openupdate")
    /\ \/ /\ blob[at[p]] # "absent"
          /\ Continue(p, "copyupdate")
          /\ blob' = [blob EXCEPT ![at[p]] = "torn"]
       \/ blob[at[p]] = "absent" /\ End(p, "failed") /\ UNCHANGED blob
    /\ UNCHANGED <<meta, metaref, lookup>>

CopyUpdate(p) ==
    /\ At(p, "copyupdate")
    /\ \/ End(p, "done") /\ blob' = Fill(blob, at[p])
       \/ WriteFaults /\ End(p, "failed") /\ UNCHANGED blob
    /\ UNCHANGED <<meta, metaref, lookup>>

FindReference(p) ==
    /\ At(p, "getoldref")
    /\ LET found == metaref[at[p]][call[p].name]
       IN  \/ found = "whole" /\ Continue(p, "refcreate")
           \/ found = "absent" /\ End(p, "failed")
           \/ found = "torn" /\ End(p, "garbled")
    /\ UNCHANGED store

------------------------------------------------------------------------------
(* DeleteArtifact *)

\* The blob is there, and the reference to drop is registered and can be read.
CheckDeletion(p) ==
    LET k == at[p]
        r == call[p].name
    IN  /\ At(p, "check")
        /\ \/ /\ blob[k] # "absent"
              /\ r # None => metaref[k][r] = "whole"
              /\ Goto(p, "drop")
              /\ dropping' = [dropping EXCEPT ![p] = IF r = None THEN References(k) ELSE {r}]
              /\ UNCHANGED <<call, key, at, locks>>
           \/ /\ blob[k] = "absent" \/ (r # None /\ metaref[k][r] = "absent")
              /\ End(p, "failed")
           \/ /\ blob[k] # "absent" /\ r # None /\ metaref[k][r] = "torn"
              /\ End(p, "garbled")
        /\ UNCHANGED store

\* Seeded fault: the reference goes on leading to the artifact.
DropListing(p) ==
    /\ At(p, "drop")
    /\ \E r \in dropping[p] :
          /\ metaref' = [metaref EXCEPT ![at[p]][r] = "absent"]
          /\ dropping' = [dropping EXCEPT ![p] = @ \ {r}]
    /\ UNCHANGED <<call, pc, key, at, locks, blob, meta, lookup>>

\* deleteRef and deleteMetaRefFile of one reference: no step of another call that
\* has its lock could tell them apart.  Of a list, files that cannot be read are skipped.
DropReference(p) ==
    /\ At(p, "drop")
    /\ \E r \in dropping[p] :
          /\ IF call[p].name # None \/ metaref[at[p]][r] = "whole"
             THEN /\ lookup' = [lookup EXCEPT ![r] = None]
                  /\ metaref' = [metaref EXCEPT ![at[p]][r] = "absent"]
             ELSE UNCHANGED <<lookup, metaref>>
          /\ dropping' = [dropping EXCEPT ![p] = @ \ {r}]
    /\ UNCHANGED <<call, pc, key, at, locks, blob, meta>>

\* Seeded fault: the artifact is trashed whatever references it has left.
TrashAnyway(p) ==
    /\ At(p, "drop")
    /\ dropping[p] = {}
    /\ Continue(p, "trashblob")
    /\ UNCHANGED store

ListRemaining(p) ==
    /\ At(p, "drop")
    /\ dropping[p] = {}
    /\ \/ References(at[p]) = {} /\ Continue(p, "trashblob")
       \/ References(at[p]) # {} /\ End(p, "done")
    /\ UNCHANGED store

TrashBlob(p) ==
    /\ At(p, "trashblob")
    /\ Continue(p, "trashmeta")
    /\ blob' = [blob EXCEPT ![at[p]] = "absent"]
    /\ UNCHANGED <<meta, metaref, lookup>>

TrashMeta(p) ==
    /\ At(p, "trashmeta")
    /\ Continue(p, "trashrefs")
    /\ meta' = [meta EXCEPT ![at[p]] = "absent"]
    /\ UNCHANGED <<blob, metaref, lookup>>

\* The whole directory goes, with what was put into it since it was listed.
TrashMetaRefs(p) ==
    /\ At(p, "trashrefs")
    /\ End(p, "done")
    /\ metaref' = [metaref EXCEPT ![at[p]] = [r \in Names |-> "absent"]]
    /\ UNCHANGED <<blob, meta, lookup>>

------------------------------------------------------------------------------
(* ReadBlob, GetMeta, GetReference *)

\* Seeded fault: a ReadBlob that finds no blob keeps its lock.
OpenLocked(p) ==
    /\ At(p, "open")
    /\ \/ blob[at[p]] # "absent" /\ Continue(p, "stream")
       \/ blob[at[p]] = "absent" /\ Continue(p, "failed")
    /\ UNCHANGED store

\* Seeded fault: the lock is released when ReadBlob returns its stream.
OpenUnlocked(p) ==
    /\ At(p, "open")
    /\ \/ /\ blob[at[p]] # "absent"
          /\ Goto(p, "stream")
          /\ readers' = [k \in Hashes |-> readers[k] \ {p}]
          /\ UNCHANGED <<call, key, at, dropping, writer>>
       \/ blob[at[p]] = "absent" /\ End(p, "failed")
    /\ UNCHANGED store

OpenBlob(p) ==
    /\ At(p, "open")
    /\ \/ blob[at[p]] # "absent" /\ Continue(p, "stream")
       \/ blob[at[p]] = "absent" /\ End(p, "failed")
    /\ UNCHANGED store

\* lockReleasingReadCloser: the shared lock lasts until the client closes the stream.
CloseStream(p) == At(p, "stream") /\ End(p, "done") /\ UNCHANGED store

\* What a reader makes of a JSON file.
Decoded(file) == IF file = "torn" THEN "garbled" ELSE IF file = "absent" THEN "failed"
                                                  ELSE "done"

GetMeta(p) ==
    /\ At(p, "readmeta")
    /\ End(p, Decoded(meta[at[p]]))
    /\ UNCHANGED store
GetReference(p) ==
    /\ At(p, "readref")
    /\ End(p, Decoded(metaref[at[p]][call[p].name]))
    /\ UNCHANGED store

------------------------------------------------------------------------------
Creates(p) == StatBlob(p) \/ ExistingArtifact(p) \/ CreateBlob(p) \/ CopyBlob(p)
              \/ CreateMeta(p) \/ WriteMeta(p) \/ createOrUpdateRef(p)
              \/ CreateMetaRef(p) \/ WriteMetaRef(p)
Updates(p) == OpenForUpdate(p) \/ CopyUpdate(p) \/ FindReference(p)
Deletes(p) == CheckDeletion(p) \/ DropReference(p) \/ ListRemaining(p)
              \/ TrashBlob(p) \/ TrashMeta(p) \/ TrashMetaRefs(p)
Reads(p) == OpenBlob(p) \/ CloseStream(p) \/ GetMeta(p) \/ GetReference(p)

Proceed(p) == resolveLockHash(p) \/ acquireLock(p)
              \/ Creates(p) \/ Updates(p) \/ Deletes(p) \/ Reads(p)

AllEnded == \A p \in Calls : pc[p] \in Ended
Quiet == AllEnded /\ UNCHANGED vars

Next == (\E p \in Calls : Proceed(p) \/ LockTimeout(p)) \/ Quiet

\* Calls run on goroutines, which are not starved; a lock that stays free is taken
\* by a call that polls for it; streams are read to their end and closed.
Spec == Init /\ [][Next]_vars /\ \A p \in Calls : WF_vars(Proceed(p))

------------------------------------------------------------------------------
(* Properties.  They are those of a storage where the references that calls name  *)
(* artifacts by do not move from one artifact to another (NamesStay): otherwise   *)
(* the second lookup may lead to an artifact whose lock the call does not have.   *)

NamesStay == \A r \in Looked, j, k \in Hashes :
                 <<r, j>> \in Binds /\ <<r, k>> \in Binds => j = k

TypeOK ==
    /\ call \in [Calls -> Requests]
    /\ pc \in [Calls -> Label]
    /\ key \in [Calls -> Hashes \cup {None}]
    /\ at \in [Calls -> Hashes \cup {None}]
    /\ dropping \in [Calls -> SUBSET Names]
    /\ blob \in [Hashes -> File]
    /\ meta \in [Hashes -> File]
    /\ metaref \in [Hashes -> [Names -> File]]
    /\ lookup \in [Names -> Hashes \cup {None}]
    /\ writer \in [Hashes -> Calls \cup {None}]
    /\ readers \in [Hashes -> SUBSET Calls]
    /\ \A p \in Calls : /\ pc[p] = "lock" => key[p] # None
                        /\ pc[p] \in MutatorLabels \cup ReaderLabels => at[p] # None

Mutates(p, k) == at[p] = k /\ pc[p] \in MutatorLabels
Observes(p, k) == at[p] = k /\ pc[p] \in ReaderLabels

\* "A write is never interleaved with a concurrent read or another write of the same
\* hash": a call at work on the files of an artifact to change them is the only one
\* at work there, whatever hash or reference each of them named it by.
WritersAlone ==
    \A p, q \in Calls, k \in Hashes :
        p # q /\ Mutates(p, k) => ~Mutates(q, k) /\ ~Observes(q, k)

\* Whoever takes the lock of an artifact finds it consistent: calls that failed half
\* way, deletions, and creations that moved a reference of the artifact elsewhere
\* under the lock of another leave no half-written file, no listed reference without
\* its blob, and no reference leading to an artifact that does not list it.
ConsistentWhenUnlocked ==
    \A k \in Hashes : writer[k] = None => Consistent(k)

\* No call decodes a metadata or reference file that another one is writing.
NothingGarbled == \A p \in Calls : pc[p] # "garbled"

\* A blob that a client streams does not change under it until the stream is closed.
StreamStable ==
    [][\A p \in Calls : pc[p] = "stream" => blob'[at[p]] = blob[at[p]]]_vars

\* An artifact goes to the trash only when no reference is registered for it: a
\* creation that adds one and a deletion that drops the last one cannot overlap.
TrashedUnreferenced ==
    [][\A k \in Hashes : blob[k] # "absent" /\ blob'[k] = "absent" => References(k) = {}]_vars

\* Every call ends: each path through the wrapper, errors included, gives its lock back.
EveryCallEnds == \A p \in Calls : <>(pc[p] \in Ended)

==============================================================================
