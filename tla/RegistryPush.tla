---------------------------- MODULE RegistryPush -----------------------------
(***************************************************************************)
(* Pushing to and pulling from the private registry                        *)
(* (internal/registry/docker/private/service.go), step by step over the    *)
(* files of SimpleFileStorage, with or without ConcurrentArtifactStorage   *)
(* around it.  Every request is a process:                                 *)
(*   BlobPuts      PutBlob: stage under a key of its own, verify the       *)
(*                 digest, Move to the content key, add the reference      *)
(*   ManifestPuts  PutManifest: create under the content key, then two     *)
(*                 references, of the tag and of the repository            *)
(*   BlobGets      GetBlob by digest                                       *)
(*   ManifestGets  GetManifest by tag                                      *)
(* A step is one file-system call, or several where no other step can fall *)
(* between them.  A crash of the server ends every running request.        *)
(*                                                                         *)
(* A content key is the body it is the digest of; the staging key          *)
(* "upload-<uuid>" of a PutBlob is its process.  All staging keys live in  *)
(* the same two directories, blob/up and meta/up.  A file name and the     *)
(* file behind it are told apart (file, data): rename replaces a name      *)
(* while os.Create truncates the file that is there.                       *)
(***************************************************************************)
EXTENDS Naturals, FiniteSets

CONSTANTS
    BlobPuts, ManifestPuts, BlobGets, ManifestGets,  \* the requests
    Bodies,      \* what is pushed; also the content keys
    Named,       \* the content keys the requests of this instance name
    Tags,        \* manifest tags
    Locked,      \* ConcurrentArtifactStorage is in use
    Timeouts,    \* waiting for a lock may time out
    WriteFaults, \* io.Copy into a blob may fail
    MaxCrashes,  \* bound on the crashes of the server
    Torn,        \* a file cut short
    None         \* no file, no lookup, no lock holder

Puts == BlobPuts \cup ManifestPuts
Gets == BlobGets \cup ManifestGets
Procs == Puts \cup Gets
Keys == BlobPuts \cup Bodies

ASSUME ProcsAssumption ==
    /\ BlobPuts \cap ManifestPuts = {} /\ Puts \cap Gets = {} /\ BlobGets \cap ManifestGets = {}
    /\ Procs \cap Bodies = {} /\ Named \subseteq Bodies
ASSUME FlagsAssumption ==
    /\ Locked \in BOOLEAN /\ Timeouts \in BOOLEAN /\ WriteFaults \in BOOLEAN
    /\ MaxCrashes \in Nat
ASSUME TornAssumption ==
    /\ Torn # None
    /\ Torn \notin Procs \cup Bodies /\ None \notin Procs \cup Bodies

VARIABLES
    req,      \* what each request asks for: body, digest, tag
    pc,       \* the next step of each request, or how it ended
    file,     \* the file under each blob key (named by its creator), None
    data,     \* the contents of each file
    meta,     \* the Hash field of each metadata file, Torn, or None
    lookup,   \* the ref/ file of each tag: a content key, Torn, or None
    dirs,     \* which of the directories blob/up and meta/up exist
    writer, readers,   \* holders of the lock of each content key
    fd,       \* the blob file a request has open
    seen,     \* what that file held when a reader opened it
    at,       \* the key a reader resolved
    got,      \* what a reader returned to its client
    linked,   \* writers whose open metadata file still is the one at their key
    crashes

disk == <<file, data, meta, lookup, dirs>>
locks == <<writer, readers>>
handles == <<fd, seen, at, got, linked>>
vars == <<req, pc, file, data, meta, lookup, dirs, writer, readers,
          fd, seen, at, got, linked, crashes>>

Request == [body : Bodies, digest : Bodies, tag : Tags]
Ended == {"acked", "served", "notfound", "rejected", "failed", "crashed"}
Label == Ended \cup
    { "idle", "create", "copy", "metadir", "meta", "metawrite", "verify",
      "move", "movemeta", "rmblobdir", "rmmetadir", "movefailed",
      "existing", "tag", "tagwrite", "ref", "getmeta", "open", "read" }

\* getStorageKey of the digest a request names or, for a manifest, computes.
Key(p) == req[p].digest

Goto(p, label) == pc' = [pc EXCEPT ![p] = label]
At(p, label) == pc[p] = label

------------------------------------------------------------------------------
(* The lock of a content key: shared for reads, exclusive for writes.  Staging *)
(* keys are unique to their request, so their locks are never contended.       *)

CanWrite(k) == Locked => writer[k] = None /\ readers[k] = {}
CanRead(k) == Locked /\ k \in Bodies => writer[k] = None

LockWrite(p, k) == writer' = IF Locked THEN [writer EXCEPT ![k] = p] ELSE writer
Unlock(k) == writer' = [writer EXCEPT ![k] = None]

Init ==
    /\ req \in [Procs -> Request]
    /\ \A p \in Procs : req[p].digest \in Named
    /\ \A p \in Procs \ BlobPuts : req[p].body = req[p].digest
    /\ pc = [p \in Procs |-> "idle"]
    /\ file = [k \in Keys |-> None]
    /\ data = [p \in Puts |-> Torn]
    /\ meta = [k \in Keys |-> None]
    /\ lookup = [t \in Tags |-> None]
    /\ dirs = {}
    /\ writer = [k \in Bodies |-> None]
    /\ readers = [k \in Bodies |-> {}]
    /\ fd = [p \in Procs |-> None]
    /\ seen = [p \in Gets |-> Torn]
    /\ at = [p \in Gets |-> None]
    /\ got = [p \in Gets |-> None]
    /\ linked = {}
    /\ crashes = 0

------------------------------------------------------------------------------
(* PutBlob: CreateArtifact under the staging key.                            *)

StagedFiles == {p \in BlobPuts : file[p] # None}
StagedMetas == {p \in BlobPuts : meta[p] # None}

\* MkdirAll(blob/up), then os.Create in it: another request may have removed the
\* directory in between, and CreateArtifact fails.
StageMkdir(p) ==
    /\ p \in BlobPuts /\ At(p, "idle")
    /\ dirs' = dirs \cup {"blob"}
    /\ Goto(p, "create")
    /\ UNCHANGED <<req, file, data, meta, lookup, locks, handles, crashes>>

StageCreate(p) ==
    /\ p \in BlobPuts /\ At(p, "create")
    /\ \/ /\ "blob" \in dirs
          /\ file' = [file EXCEPT ![p] = p]
          /\ data' = [data EXCEPT ![p] = Torn]
          /\ fd' = [fd EXCEPT ![p] = p]
          /\ Goto(p, "copy")
       \/ "blob" \notin dirs /\ Goto(p, "failed") /\ UNCHANGED <<file, data, fd>>
    /\ UNCHANGED <<req, meta, lookup, dirs, locks, seen, at, got, linked, crashes>>

\* Seeded fault: the error of io.Copy is not looked at.
CopyUnchecked(p) ==
    /\ At(p, "copy")
    /\ \/ data' = [data EXCEPT ![fd[p]] = req[p].body]
       \/ WriteFaults /\ UNCHANGED data
    /\ Goto(p, "metadir")
    /\ fd' = [fd EXCEPT ![p] = None]
    /\ UNCHANGED <<req, file, meta, lookup, dirs, locks, seen, at, got, linked, crashes>>

\* io.Copy into the file the request holds open; shared with PutManifest, which
\* still has the lock and lets go of it on an error.  What a failed copy wrote stays.
Copy(p) ==
    /\ At(p, "copy")
    /\ \/ /\ data' = [data EXCEPT ![fd[p]] = req[p].body]
          /\ Goto(p, "metadir")
          /\ UNCHANGED locks
       \/ /\ WriteFaults
          /\ Goto(p, "failed")
          /\ IF p \in ManifestPuts THEN Unlock(Key(p)) ELSE UNCHANGED writer
          /\ UNCHANGED <<data, readers>>
    /\ fd' = [fd EXCEPT ![p] = None]
    /\ UNCHANGED <<req, file, meta, lookup, dirs, seen, at, got, linked, crashes>>

StageMetaMkdir(p) ==
    /\ p \in BlobPuts /\ At(p, "metadir")
    /\ dirs' = dirs \cup {"meta"}
    /\ Goto(p, "meta")
    /\ UNCHANGED <<req, file, data, meta, lookup, locks, handles, crashes>>

StageMetaCreate(p) ==
    /\ p \in BlobPuts /\ At(p, "meta")
    /\ \/ /\ "meta" \in dirs
          /\ meta' = [meta EXCEPT ![p] = Torn]
          /\ Goto(p, "metawrite")
       \/ "meta" \notin dirs /\ Goto(p, "failed") /\ UNCHANGED meta
    /\ UNCHANGED <<req, file, data, lookup, dirs, locks, handles, crashes>>

\* The metadata of a staged blob names the staging key, and goes on naming it.
StageMetaWrite(p) ==
    /\ p \in BlobPuts /\ At(p, "metawrite")
    /\ meta' = [meta EXCEPT ![p] = p]
    /\ Goto(p, "verify")
    /\ UNCHANGED <<req, file, data, lookup, dirs, locks, handles, crashes>>

\* DeleteArtifact of the staging key: into the trash, which is never read.
DiscardStaged(p) ==
    /\ file' = [file EXCEPT ![p] = None]
    /\ meta' = [meta EXCEPT ![p] = None]

\* Seeded fault: the staged digest is not compared with the one asked for.
VerifyNothing(p) ==
    /\ At(p, "verify")
    /\ Goto(p, "move")
    /\ UNCHANGED <<req, disk, locks, handles, crashes>>

VerifyDigest(p) ==
    /\ At(p, "verify")
    /\ \/ req[p].body = req[p].digest /\ Goto(p, "move") /\ UNCHANGED <<file, meta>>
       \/ req[p].body # req[p].digest /\ Goto(p, "rejected") /\ DiscardStaged(p)
    /\ UNCHANGED <<req, data, lookup, dirs, locks, handles, crashes>>

------------------------------------------------------------------------------
(* publishStagedBlob: Move, which locks the content key only.                *)

MoveBlob(p) ==
    /\ At(p, "move") /\ CanWrite(Key(p))
    /\ LockWrite(p, Key(p))
    /\ file' = [file EXCEPT ![Key(p)] = file[p], ![p] = None]
    /\ Goto(p, "movemeta")
    /\ UNCHANGED <<req, data, meta, lookup, dirs, readers, handles, crashes>>

\* Seeded fault: the staged metadata is not taken along.
MoveMetaLost(p) ==
    /\ At(p, "movemeta")
    /\ meta' = [meta EXCEPT ![Key(p)] = None, ![p] = None]
    /\ linked' = {q \in linked : Key(q) # Key(p)}
    /\ Goto(p, "rmblobdir")
    /\ UNCHANGED <<req, file, data, lookup, dirs, locks, fd, seen, at, got, crashes>>

\* A manifest writer that has the replaced metadata file open keeps writing to it.
MoveMeta(p) ==
    /\ At(p, "movemeta")
    /\ meta' = [meta EXCEPT ![Key(p)] = meta[p], ![p] = None]
    /\ linked' = {q \in linked : Key(q) # Key(p)}
    /\ Goto(p, "rmblobdir")
    /\ UNCHANGED <<req, file, data, lookup, dirs, locks, fd, seen, at, got, crashes>>

\* os.Remove of the source directories: does nothing while a file is in them.
RemoveBlobDir(p) ==
    /\ At(p, "rmblobdir")
    /\ dirs' = IF StagedFiles = {} THEN dirs \ {"blob"} ELSE dirs
    /\ Goto(p, "rmmetadir")
    /\ UNCHANGED <<req, file, data, meta, lookup, locks, handles, crashes>>

RemoveMetaDir(p) ==
    /\ At(p, "rmmetadir")
    /\ dirs' = IF StagedMetas = {} THEN dirs \ {"meta"} ELSE dirs
    /\ Unlock(Key(p))
    /\ Goto(p, "ref")
    /\ UNCHANGED <<req, file, data, meta, lookup, readers, handles, crashes>>

\* Seeded fault: a failed Move is a success if there is a blob, whole or not.
MoveFailedOnBlob(p) ==
    /\ At(p, "movefailed")
    /\ DiscardStaged(p)
    /\ Goto(p, IF CanRead(Key(p)) /\ file[Key(p)] # None THEN "ref" ELSE "failed")
    /\ UNCHANGED <<req, data, lookup, dirs, locks, handles, crashes>>

\* Seeded fault: a failed Move always means that somebody else was first.
MoveFailedAlways(p) ==
    /\ At(p, "movefailed")
    /\ DiscardStaged(p)
    /\ Goto(p, "ref")
    /\ UNCHANGED <<req, data, lookup, dirs, locks, handles, crashes>>

\* Move timed out on the lock: if GetMeta finds the content, the staged copy is a
\* duplicate and the upload succeeds, else (or if GetMeta times out too) it fails.
MoveFailed(p) ==
    /\ At(p, "movefailed")
    /\ DiscardStaged(p)
    /\ \/ CanRead(Key(p)) /\ meta[Key(p)] \notin {None, Torn} /\ Goto(p, "ref")
       \/ CanRead(Key(p)) /\ meta[Key(p)] \in {None, Torn} /\ Goto(p, "failed")
       \/ ~CanRead(Key(p)) /\ Goto(p, "failed")
    /\ UNCHANGED <<req, data, lookup, dirs, locks, handles, crashes>>

------------------------------------------------------------------------------
(* PutManifest: CreateArtifact under the content key.                        *)

StatManifest(p) ==
    /\ p \in ManifestPuts /\ At(p, "idle") /\ CanWrite(Key(p))
    /\ LockWrite(p, Key(p))
    /\ Goto(p, IF file[Key(p)] # None THEN "existing" ELSE "create")
    /\ UNCHANGED <<req, disk, readers, handles, crashes>>

\* GetMeta inside CreateArtifact: metadata that does not decode is an error; with
\* none at all the length comes from the file.  Equal lengths or a
\* HashConflictError, PutManifest takes the artifact as stored.
ExistingManifest(p) ==
    /\ At(p, "existing")
    /\ Goto(p, IF meta[Key(p)] = Torn THEN "failed" ELSE "tag")
    /\ Unlock(Key(p))
    /\ UNCHANGED <<req, disk, readers, handles, crashes>>

\* os.Create: a new file, or the one somebody published since, cut to nothing.
CreateManifest(p) ==
    /\ p \in ManifestPuts /\ At(p, "create")
    /\ LET f == IF file[Key(p)] = None THEN p ELSE file[Key(p)]
       IN  /\ file' = [file EXCEPT ![Key(p)] = f]
           /\ data' = [data EXCEPT ![f] = Torn]
           /\ fd' = [fd EXCEPT ![p] = f]
    /\ Goto(p, "copy")
    /\ UNCHANGED <<req, meta, lookup, dirs, locks, seen, at, got, linked, crashes>>

ManifestMetaCreate(p) ==
    /\ p \in ManifestPuts /\ At(p, "metadir")
    /\ meta' = [meta EXCEPT ![Key(p)] = Torn]
    /\ linked' = linked \cup {p}
    /\ Goto(p, "metawrite")
    /\ UNCHANGED <<req, file, data, lookup, dirs, locks, fd, seen, at, got, crashes>>

ManifestMetaWrite(p) ==
    /\ p \in ManifestPuts /\ At(p, "metawrite")
    /\ meta' = IF p \in linked THEN [meta EXCEPT ![Key(p)] = Key(p)] ELSE meta
    /\ linked' = linked \ {p}
    /\ Unlock(Key(p))
    /\ Goto(p, "tag")
    /\ UNCHANGED <<req, file, data, lookup, dirs, readers, fd, seen, at, got, crashes>>

\* The tag reference: CreateArtifact on the stored artifact, then os.WriteFile of
\* the lookup file, which empties it before it writes.  The lock is that of the
\* content key: the lookup file of a tag is shared by all contents.
TagCreate(p) ==
    /\ At(p, "tag") /\ CanWrite(Key(p))
    /\ \/ /\ meta[Key(p)] # Torn
          /\ LockWrite(p, Key(p))
          /\ lookup' = [lookup EXCEPT ![req[p].tag] = Torn]
          /\ Goto(p, "tagwrite")
       \/ meta[Key(p)] = Torn /\ Goto(p, "failed") /\ UNCHANGED <<writer, lookup>>
    /\ UNCHANGED <<req, file, data, meta, dirs, readers, handles, crashes>>

\* Seeded fault: the lookup of a tag names the tag.
TagWriteName(p) ==
    /\ At(p, "tagwrite")
    /\ lookup' = [lookup EXCEPT ![req[p].tag] = req[p].tag]
    /\ Unlock(Key(p))
    /\ Goto(p, "ref")
    /\ UNCHANGED <<req, file, data, meta, dirs, readers, handles, crashes>>

TagWrite(p) ==
    /\ At(p, "tagwrite")
    /\ lookup' = [lookup EXCEPT ![req[p].tag] = Key(p)]
    /\ Unlock(Key(p))
    /\ Goto(p, "ref")
    /\ UNCHANGED <<req, file, data, meta, dirs, readers, handles, crashes>>

\* The repository reference, last call of PutBlob and PutManifest: its lookup is
\* read by no request, so that only whether the call succeeds matters here.
AddReference(p) ==
    /\ At(p, "ref") /\ CanWrite(Key(p))
    /\ Goto(p, IF meta[Key(p)] = Torn THEN "failed" ELSE "acked")
    /\ UNCHANGED <<req, disk, locks, handles, crashes>>


------------------------------------------------------------------------------
(* GetBlob and GetManifest                                                   *)

LockRead(p, k) ==
    readers' = IF Locked /\ k \in Bodies THEN [readers EXCEPT ![k] = @ \cup {p}] ELSE readers

\* Seeded fault: GetBlob reads without asking for the metadata.
GetBlobBlindly(p) ==
    /\ p \in BlobGets /\ At(p, "idle") /\ CanRead(Key(p))
    /\ at' = [at EXCEPT ![p] = Key(p)]
    /\ Goto(p, "open")
    /\ UNCHANGED <<req, disk, locks, fd, seen, got, linked, crashes>>

\* GetMeta by digest; then ReadBlob of the same key.
GetBlobMeta(p) ==
    /\ p \in BlobGets /\ At(p, "idle") /\ CanRead(Key(p))
    /\ \/ /\ meta[Key(p)] \notin {None, Torn}
          /\ at' = [at EXCEPT ![p] = Key(p)]
          /\ Goto(p, "open")
       \/ meta[Key(p)] \in {None, Torn} /\ Goto(p, "notfound") /\ UNCHANGED at
    /\ UNCHANGED <<req, disk, locks, fd, seen, got, linked, crashes>>

\* GetMeta by reference resolves the tag.  ConcurrentArtifactStorage does so once
\* to choose the lock and leaves the storage to resolve it again under the lock.
ResolveTag(p) ==
    /\ p \in ManifestGets /\ At(p, "idle")
    /\ \/ /\ lookup[req[p].tag] \notin {None, Torn}
          /\ at' = [at EXCEPT ![p] = lookup[req[p].tag]]
          /\ Goto(p, "getmeta")
       \/ lookup[req[p].tag] \in {None, Torn} /\ Goto(p, "notfound") /\ UNCHANGED at
    /\ UNCHANGED <<req, disk, locks, fd, seen, got, linked, crashes>>

\* GetManifest goes on with the key that the metadata, not the lookup, names.
GetManifestMeta(p) ==
    /\ At(p, "getmeta") /\ CanRead(at[p])
    /\ LET k == IF Locked THEN lookup[req[p].tag] ELSE at[p]
           found == IF k \in {None, Torn} THEN None ELSE meta[k]
       IN  \/ /\ found \notin {None, Torn}
              /\ at' = [at EXCEPT ![p] = found]
              /\ Goto(p, "open")
           \/ /\ found \in {None, Torn}
              /\ at' = [at EXCEPT ![p] = None]
              /\ Goto(p, "notfound")
    /\ UNCHANGED <<req, disk, locks, fd, seen, got, linked, crashes>>

\* ReadBlob: open, and take the size of the file, which bounds what is read.  The
\* shared lock is kept until the stream is closed.
OpenBlob(p) ==
    /\ At(p, "open") /\ CanRead(at[p])
    /\ \/ /\ file[at[p]] # None
          /\ LockRead(p, at[p])
          /\ fd' = [fd EXCEPT ![p] = file[at[p]]]
          /\ seen' = [seen EXCEPT ![p] = data[file[at[p]]]]
          /\ Goto(p, "read")
          /\ UNCHANGED at
       \/ /\ file[at[p]] = None
          /\ at' = [at EXCEPT ![p] = None]
          /\ Goto(p, "notfound")
          /\ UNCHANGED <<readers, fd, seen>>
    /\ UNCHANGED <<req, disk, writer, got, linked, crashes>>

\* A file cut short since it was opened reads short, and so does one that has
\* grown beyond the size it was opened with.
ReadBlob(p) ==
    /\ At(p, "read")
    /\ got' = [got EXCEPT ![p] = IF seen[p] = data[fd[p]] THEN seen[p] ELSE Torn]
    /\ readers' = [k \in Bodies |-> readers[k] \ {p}]
    /\ fd' = [fd EXCEPT ![p] = None]
    /\ seen' = [seen EXCEPT ![p] = Torn]
    /\ at' = [at EXCEPT ![p] = None]
    /\ Goto(p, "served")
    /\ UNCHANGED <<req, disk, writer, linked, crashes>>

------------------------------------------------------------------------------
\* acquireLock gives up on a lock it cannot get: the key a request waits for.
Waiting(p) ==
    \/ At(p, "move") \/ At(p, "tag") \/ At(p, "ref")
    \/ p \in ManifestPuts /\ At(p, "idle")
LockTimeout(p) ==
    /\ Timeouts
    /\ \/ Waiting(p) /\ ~CanWrite(Key(p))
          /\ Goto(p, IF At(p, "move") THEN "movefailed" ELSE "failed")
       \/ p \in BlobGets /\ At(p, "idle") /\ ~CanRead(Key(p)) /\ Goto(p, "failed")
       \/ (At(p, "getmeta") \/ At(p, "open")) /\ ~CanRead(at[p]) /\ Goto(p, "failed")
    /\ at' = [q \in Gets |-> IF q = p THEN None ELSE at[q]]
    /\ UNCHANGED <<req, disk, locks, fd, seen, got, linked, crashes>>

Running(p) == pc[p] \notin {"idle"} \cup Ended

\* The process dies and is started again: files stay, locks of the dead go.
Crash ==
    /\ crashes < MaxCrashes
    /\ \E p \in Procs : Running(p)
    /\ crashes' = crashes + 1
    /\ pc' = [p \in Procs |-> IF Running(p) THEN "crashed" ELSE pc[p]]
    /\ writer' = [k \in Bodies |-> None]
    /\ readers' = [k \in Bodies |-> {}]
    /\ fd' = [p \in Procs |-> None]
    /\ seen' = [p \in Gets |-> Torn]
    /\ at' = [p \in Gets |-> None]
    /\ linked' = {}
    /\ UNCHANGED <<req, disk, got>>

PutStep(p) ==
    \/ StageMkdir(p) \/ StageCreate(p) \/ StageMetaMkdir(p) \/ StageMetaCreate(p)
    \/ StageMetaWrite(p) \/ VerifyDigest(p) \/ MoveBlob(p) \/ MoveMeta(p)
    \/ RemoveBlobDir(p) \/ RemoveMetaDir(p) \/ MoveFailed(p)
    \/ StatManifest(p) \/ ExistingManifest(p) \/ CreateManifest(p)
    \/ ManifestMetaCreate(p) \/ ManifestMetaWrite(p) \/ TagCreate(p) \/ TagWrite(p)
    \/ Copy(p) \/ AddReference(p)
GetStep(p) ==
    \/ GetBlobMeta(p) \/ ResolveTag(p) \/ GetManifestMeta(p)
    \/ OpenBlob(p) \/ ReadBlob(p)
Step(p) == PutStep(p) \/ GetStep(p) \/ LockTimeout(p)

AllEnded == \A p \in Procs : pc[p] \in Ended

Quiet == AllEnded /\ UNCHANGED vars

Next == (\E p \in Procs : Step(p)) \/ Crash \/ Quiet

Spec == Init /\ [][Next]_vars

------------------------------------------------------------------------------
(* Properties *)

TypeOK ==
    /\ req \in [Procs -> Request]
    /\ pc \in [Procs -> Label]
    /\ file \in [Keys -> Puts \cup {None}]
    /\ data \in [Puts -> Bodies \cup {Torn}]
    /\ meta \in [Keys -> Keys \cup {Torn, None}]
    /\ lookup \in [Tags -> Bodies \cup {Torn, None}]
    /\ dirs \subseteq {"blob", "meta"}
    /\ writer \in [Bodies -> Puts \cup {None}]
    /\ readers \in [Bodies -> SUBSET Gets]
    /\ fd \in [Procs -> Puts \cup {None}]
    /\ seen \in [Gets -> Bodies \cup {Torn}]
    /\ at \in [Gets -> Keys \cup {None}]
    /\ got \in [Gets -> Bodies \cup {Torn, None}]
    /\ linked \subseteq ManifestPuts
    /\ crashes \in 0 .. MaxCrashes

\* Whole(k): the blob under content key k is all there.
Whole(k) == file[k] # None /\ data[file[k]] = k

\* PutBlob's promise: content is never stored, or left stored, under a digest it
\* does not match.  A file under a content key holds that content or a part of it,
\* whatever crashes, failed copies and concurrent uploads of it or of others do.
ContentAddressed ==
    \A k \in Bodies : file[k] # None => data[file[k]] \in {k, Torn}

\* With locks, metadata that can be read under a content key says that the whole
\* content is there: what GetBlob and HEAD conclude from it is true, also after a
\* crash between any two steps of a push.
MetaMeansWhole ==
    \A k \in Bodies : meta[k] \notin {None, Torn} => Whole(k)

\* With locks, a blob whose upload was acknowledged stays whole for good.
AckedBlobKept ==
    \A p \in BlobPuts : pc[p] = "acked" => Whole(Key(p))

\* With locks, no client is ever served a part of a blob or manifest, and a GET by
\* digest serves the content of that digest.
ServedWhole ==
    \A p \in Gets : pc[p] = "served" =>
        got[p] # Torn /\ (p \in BlobGets => got[p] = Key(p))

\* Without locks (the default configuration) a manifest push may cut a published
\* file down for a while; once every request has ended, without crashes and failed
\* copies, all that was acknowledged is whole again and can be read.
AckedWholeWhenQuiet ==
    AllEnded => \A p \in Puts : pc[p] = "acked" =>
        Whole(Key(p)) /\ meta[Key(p)] \notin {None, Torn}

\* The references are added with a nil reader, which CreateArtifact must not touch:
\* it never finds the artifact missing at that point.
ReferenceFindsArtifact ==
    \A p \in Puts : pc[p] \in {"tag", "ref"} => file[Key(p)] # None

\* An acknowledged manifest is stored whole ("hash conflict is OK, artifact already
\* exists").
AckedManifestWhole ==
    \A p \in ManifestPuts : pc[p] = "acked" => Whole(Key(p))

\* An upload whose digest matches is published or found published already: it does
\* not fail for what other uploads do.
MatchingUploadSucceeds ==
    \A p \in BlobPuts : req[p].body = req[p].digest => pc[p] # "failed"

\* The contents that a GET finds, and how far a client knows a request to be.
Stored == {k \in Bodies : meta[k] \notin {None, Torn}}
State(p) ==
    IF pc[p] \notin Ended THEN "open"
    ELSE IF pc[p] = "crashed" THEN "failed"
    ELSE pc[p]
States == [p \in Procs |-> State(p)]

Abstract == INSTANCE Registry WITH stored <- Stored, state <- States, answer <- got

\* With locks, the registry is the abstract one: among its many file-system steps
\* each push has one at which its content appears, never to go away; nothing is
\* acknowledged, served or missed against it, whatever steps of other requests,
\* timeouts, failed copies and crashes fall in between.
ImplementsRegistry == Abstract!Spec

==============================================================================
