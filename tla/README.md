# Formal models of brm-server

TLA+ modules of the parts of brm-server that carry its logic: where artifacts
are stored and locked, how they are pushed and pulled, how chunked uploads are
kept, what HTTP clients see of it, and how the server starts and stops. TLC checks them on small instances
(`tlc -config <run>.cfg MC<module>.tla`), TLAPS proves the `*_proofs.tla`
modules for all values of their constants (`tlapm <module>.tla`).
`PROJECT.json` holds the runs, the lines each definition models, the hazards
and the findings.

## 1. The system

| Component | Source (under `src/`) | State | Operations |
|---|---|---|---|
| File storage | `internal/storage/simple_file_storage.go` | a directory tree: `blob/`, `meta/`, `ref/` (name to hash), `metaref/` (references of a hash), `.trash/` | CreateArtifact, ReadBlob, UpdateBlob, DeleteArtifact, GetMeta, GetReference, UpdateReference, ListReferenceHashes, Exists, Move |
| Locking wrapper | `internal/storage/concurrent_artifact_storage.go` | one flock file per hash | every storage operation under the shared or exclusive lock of its hash, with a timeout |
| Hash-computing wrapper | `internal/storage/hash_computing_artifact_storage.go` | none of its own; `temp-<uuid>` artifacts in the storage | CreateArtifact with an unknown hash: stage, look up, move, clean up, read back; all else delegated |
| Private registry: content | `internal/registry/docker/private/service.go` | `upload-<uuid>` artifacts in the storage | PutBlob, GetBlob, PutManifest, GetManifest, the HEAD checks |
| Private registry: uploads | same file | map of sessions under `sessionsMutex`; per session a temp file and `mu` | StartBlobUpload, UploadBlobChunk, CompleteBlobUpload, discard, hourly cleanup |
| HTTP handlers | `internal/registry/docker/private/handlers.go`, `docker/errors.go` | none | routing by the separators in a path, parsing, the calls of the service, answers |
| Server process | `main.go`, `internal/storage/manager.go`, `internal/registry/manager.go`, `private/registry.go`, `proxy/registry.go` | alias maps, list of servers, listeners | load, StartAllServers, signal, Shutdown |
| Proxy and compound registry | `proxy/registry.go`, `pkg/models/registry.go` | - | stubs |

A request runs on its own goroutine: handler, service, then storage through the
wrappers the configuration chose. The service shares the storage with all other
requests, and with other server processes on the same directory: the lock files
exist for those. The default configuration (`configs/application.yaml`) has no
locking wrapper. Upload sessions end in PutBlob, which stages the bytes under a
key of its own, compares digests, and moves them to the content key.

What is hard, and what each component owes:

* **File storage.** A call makes several file-system steps and may fail between
  any two. Owed: metadata only for blobs that are there; references and lookups
  that lead somewhere; nothing but an update or a move destroys bytes; deleting
  one artifact leaves the others alone.
* **Locking wrapper.** Locks are per hash, names are looked up before locking,
  staging directories are shared, a stream keeps its lock after ReadBlob has
  returned. Owed: who changes an artifact is alone at it; no reader sees half a
  write; whoever gets a lock finds the files consistent; a request ends; a timeout
  loses nothing that was published.
* **Pushes and pulls.** Many requests for one content; crashes; retries. Owed:
  content under a digest matches it, an acknowledged push stays readable.
* **Upload sessions.** Two kinds of mutex and a file that is rewound while late
  chunks arrive. Owed: a completion has the file to itself, what it stores is
  what was acknowledged, every temp file is removed.
* **HTTP interface.** Separators are searched for anywhere in a path, HEAD and GET
  answer from different files, sessions live in memory only. Owed: the locations
  in answers lead back; what is acknowledged is served there, also after a
  restart; an error changes nothing that can be read.
* **Hash-computing wrapper.** Five storage calls without a common lock. Owed:
  success means that the content is there; no temporary artifact stays.
* **Server process.** Servers start before signals are handled and fail to
  listen in the background. Owed: requests are drained, a signal ends it.

`PROJECT.json` lists the hazards line by line, each with the properties that
watch it.

## 2. The modules

| Module | Models | One step is |
|---|---|---|
| `SimpleFileStorage` | the file storage | a whole call, with each way it can end |
| `LockedStorage` | the locking wrapper around it: concurrent calls of every operation but Move | a file-system step |
| `Registry` | abstract: what a registry that stores by digest promises | a publication, or the end of a request |
| `RegistryPush` | blob and manifest pushes and pulls over the storage, with or without the locking wrapper | a file-system step |
| `BlobUpload` | abstract: what chunked uploads promise | the moment a request takes effect, or its refusal |
| `UploadSessions` | upload sessions and their cleanup | a mutex, file or map operation |
| `RegistryHttp` | the HTTP interface over the private registry | a whole request, an expiry, a restart |
| `HashComputing` | the hash-computing wrapper over the locking wrapper | a call of the wrapped storage |
| `ContentStore` | abstract: what a hash-computing storage promises | a store, an answer, a failure, an insertion or a removal |
| `ServerLifecycle` | loading, StartAllServers, listeners, shutdown | a visit of main's loops, an event of a server |
| `*_proofs` of the modules above that are not abstract | theorems and their proofs (`Registry_proofs`: that `RegistryPush` implements `Registry`) | |
| `MC*` | definitions TLC needs: assignments of shards, small payloads, paths, symmetry | |

Operators that begin with a comment "Seeded fault" are variants of the
definition below them, as a plausible bug would have it. Nothing uses them in a
run; each property is known to fail when one of them takes the definition's
place (`mutants` in `PROJECT.json`).

### SimpleFileStorage

The tree is six functions (`blob`, `meta`, `ref`, `metaref`, and the trash)
and the set `shardDirs` of first-level directories of `metaref/`, which is what
moveToTrash really renames. A name's file is the SHA-256 of `Registry::Name`, so
a reference is its name; timestamps and descriptions are dropped, tags are a
value that is within the limits or not. `out` is how the last call ended.
CreateArtifact is four actions by its branches: refused, on an existing
artifact, new, and torn (io.Copy failed, or the nil reader panicked, after the
file was created). A staged upload has no reference: `Creations` says so, as
the two callers that stage do. ReadBlob changes nothing and is an operator: its
range arithmetic in integers of width `MaxInt`, whose sum wraps around as int64's
does, and the SectionReader that streams. `Asked` is the reference definition it
is compared with.

### LockedStorage

A call is a process. `resolveLockHash` chooses the lock (`key`), `acquireLock`
waits for it and resolves the identifier a second time (`at`), as the wrapped
storage does; in between the reference may have moved. Files are absent, torn
(created and not yet written out, or being changed in place) or whole. Each
operation is then its sequence of file-system steps up to the deferred Unlock,
or, for ReadBlob, to the client's Close. Calls begin on any files that earlier
calls can have left. `Binds` says which references may be created for which
artifacts, `Looked` by which ones calls name an artifact.

What the wrapper promises it keeps only under `NamesStay`: a reference that calls
name artifacts by does not move between artifacts. Otherwise the second lookup
leads to an artifact whose lock the call does not have, and with `moving` in `Looked`
in `LockedCalls.cfg` TLC shows `WritersAlone` violated in a few steps: a deletion by
tag waits for the lock of one artifact, a push moves the tag to another, and the
deletion goes to work on that one. The private registry names artifacts by tag
only in GetMeta, and GetMeta of a moved tag is in `RegistryPush`.

### RegistryPush

A request is a process with a program counter; the label is the next file-system
call. Files and file names are apart (`file`, `data`), because rename replaces a
name and os.Create truncates the file that a name has, even while readers have
it open. `linked` are manifest writers whose open metadata file has not been
replaced by a rename. `Crash` ends every request and releases locks. The body a
client sends for a blob and the digest it claims are independent, so wrong
digests occur. GetMeta's decoding error for a half-written file is `Torn`.

`Registry` is what it promises with locks: a set of stored contents that only
grows, and requests that are open or have ended. A push has one moment of
publication; a blob is acknowledged when it is stored, a manifest also when an
earlier push of it broke off (what `PushTornManifest` shows). A pull by digest
misses only what is not stored; a pull serves stored content, by digest that one
and by tag one that was pushed under the tag. The mapping (`Stored`, `States`):
content is stored when its metadata can be read, and a crash is a failure of all
open requests at once.

### UploadSessions

A block is a chunk's body; a temp file is a sequence of blocks with a position,
since Seek of the completion and Write of a chunk share one offset. `mu` and
`sweeping` are the two kinds of mutex. What PutBlob does with the bytes is
RegistryPush's subject: here it reads the file to its end or gives up.
`accepted` and `disturbed` are history. A stranger names another repository.

`BlobUpload` is what it promises: a session is open from one moment to another and
never again; a chunk is in its log when it is acknowledged and not otherwise; a
completion ends the session, and stores the whole log and its own chunk or fails.
A session in which a chunk broke off, or was acknowledged after the session had ended,
promises nothing of what is stored (`damaged`), and a stranger gets nothing, although
its completion ends the session (service.go:401). The mapping (`State`, `Claims`,
`Results`, `Blobs`): a session is open while it is in the map, a completion has claimed
the session it took, and a blob is stored when its request has discarded the temp
file; mutexes, temp files, offsets and the sweep are not seen.

### RegistryHttp

A path is the sequence of its segments, and `Cuts` does to it what strings.Split
does at a separator, so that repository names with `manifests`, `blobs` or
`uploads` in them are routed as the code routes them. `dispatchRequest` is a
function of method and path; each handler is an action with every way it can end:
bodies that break off, digests that do not match or have another algorithm,
sessions that are gone or belong to another repository. A content is its own
storage key. `meta` keeps of a metadata file what the answers depend on: whether
it names its own key or, after a Move, the staging key. Sessions expire, and
`Restart` forgets them all. `acked` and `published` are history.

### HashComputing and ContentStore

`HashComputing` takes each call on a content hash as one step, which the lock of
that hash justifies; calls on a temporary hash, which only its own request
knows, join the step they follow. `ContentStore` has a set of stored contents
and the state of each call. The mapping: an artifact is stored when its blob is
whole and it has metadata; a call is `kept` between its Move and its read-back,
and otherwise `asked` until it ends.

### ServerLifecycle

The configuration is chosen in `Init`: which storages are configured and usable,
each registry's kind, address and storage, and which addresses other processes
hold. A main that ended keeps `busy`: the requests it cut off. A wildcard address
that overlaps another registry's is, for the registry that comes second, an
address taken.

## 3. The runs

Runs that pass:

| Run | Question | Bounds |
|---|---|---|
| `StorageReferences` | What is kept, looked up and trashed | 2 artifacts in shards of their own, 2 references, 1 payload |
| `StorageStaging` | Staging, moves, updates, refused tags; ranges of ReadBlob | 1 staging key, 1 artifact, 1 reference, oversized tags, 2 patches; every offset and length of 3-bit integers |
| `LockedCalls` | Exclusion, consistency and progress under the locking wrapper | any 2 calls, 2 artifacts, 2 references, of which one moves between them |
| `PushLockedFaults` | Pushes and pulls with locks under every failure; do they implement `Registry` | 2 blob pushes, 1 manifest push, 1 pull by digest, 1 by tag, all naming one digest, 2 contents to push under it, 2 crashes |
| `PushUnlocked` | The default configuration, once it is quiet | 1 blob push, 2 manifest pushes, 1 pull by tag, 2 contents |
| `Sessions` | Ownership of sessions, what is stored, do they implement `BlobUpload`, do requests end, are temp files reclaimed | 1 session, 2 chunks and 2 completions with a stranger among each |
| `Http` | What clients are answered | 12 paths of 5 repositories, contents of at most 1 byte, 1 upload session |
| `HashStore` | Does the wrapper implement `ContentStore` | 3 creates, 2 contents, deletions and timeouts |
| `Servers` | What is served, how it stops, does a signal end it | 2 registries, 2 storages, 2 addresses, 1 request each |

Why these bounds are enough for the cases to happen: two requests on one content
are what every race in the code needs (one holds, moves or truncates, the other
reads or waits), a third request publishes in between; two artifacts in
one shard (`StorageShardSweep`) make the directory that moveToTrash renames a shared
one, and the properties that hold all the same are proved for every assignment of
shards; a crash can fall between any two steps, and what it leaves is then met by
requests that start afterwards and may meet a second crash. The requests of
`PushLockedFaults` all name the same digest (`Named`), because keys have locks and
files of their own and only requests for the same key interfere; the second content
is the wrong body a client may push under it, and in `PushUnlocked` the requests
name either of two; two completions and two chunks of a session give a late chunk
and a lost race. Two calls suffice for `LockedCalls`: exclusion, garbling and a
lock that is never given back are matters of a pair, and the starting files are
arbitrary, so that no third call is needed to prepare them. In `Http` a repository
is plain or has one of the separators in its name, in front of or behind another;
requests do not overlap, so a second session would only repeat the first. ReadBlob
is compared on blobs of up to three bytes with integers up to `MaxInt` = 3, so
that every sum of an offset and a length that can overflow does. `StorageStaging` takes states that differ in the
way the last call ended (`out`) for one: it has no effect, and neither property of
the run reads it (`VIEW files`). `MaxCrashes`, `MaxRequests`, `MaxLength` (of what a session collects) and the sets
of requests are the only bounds on behaviours; payloads have at most a few bytes, since the storage
tells lengths apart and nothing else. Deadlock is checked in the storage, locking, push, HTTP
and session runs; creates (`HashStore`) and a server that has ended (`Servers`) really
come to rest.

Two sessions share only the mutex of the map, behind which one session's requests
and the cleanup already queue; two registries share an address, a storage, or
nothing, which is all that StartAllServers tells apart.

Runs that show a disagreement, each with the line it disagrees with in
`findings`:

| Run | Shown |
|---|---|
| `StorageShardSweep` | deleting an artifact takes the references of all artifacts with the same two first characters away |
| `PushTornManifest` | a retry of a manifest push that broke off acknowledges a torn manifest |
| `PushStagingDir` | a move removes the directory another upload is about to create its file in |

Other places where code and documentation part. The modules model what the code
does there; no run is spent on them (lines under `src/internal/`, unless given):

| Code | What it does | What is said |
|---|---|---|
| `storage/simple_file_storage.go:147` | deleting an artifact removes the lookup of a tag that has moved on to another artifact | `pkg/models/artifact.go:129`, "removes a specific reference" |
| `storage/simple_file_storage.go:353` | a create refused for the limits of its tags has already written the lookup | line 350, "Atomically create/update reference files" |
| `storage/simple_file_storage.go:322` | a create by reference, with the hash in its metadata only, fails on an artifact that exists | `pkg/models/artifact.go:113`, "merges references without writing data" |
| `storage/simple_file_storage.go:499` | UpdateBlob may lengthen the blob and leaves the length in the metadata | line 391, "ensure it has the correct hash and length" |
| `storage/simple_file_storage.go:472` | offset plus length may overflow, and the reported length is then not that of the stream (whose bytes are right) | `pkg/models/artifact.go:119`, "the actual range being returned" |
| `storage/simple_file_storage.go:722` | metadata that was moved names the staging key: HEAD of a manifest that was also pushed as a blob answers 200 with `sha256:upload-...`, and GET 404, since GetManifest (`registry/docker/private/service.go:164`) looks for the blob there | `service.go:163`, "Retrieve manifest by digest" |
| `storage/concurrent_artifact_storage.go:90` | the lookup file of a tag is read before the lock is taken and again after it: a call by a tag that moves meanwhile works on an artifact whose lock it does not have | lines 27 to 31, "never interleaved" |
| `registry/docker/private/service.go:379` | what a chunk that breaks off has written stays in the file and Offset does not count it | line 376, "offset matching the current end of the file" |
| `registry/docker/private/handlers.go:388` | Content-Range is parsed and not used: a chunk that is sent again is appended again | line 388, "Parse Range header for offset" |
| `registry/docker/private/handlers.go:418` | the Range of an upload without bytes is `0--1` | line 415, "per Docker Registry HTTP API V2 spec" |
| `registry/docker/private/handlers.go:67` | a repository whose name has a segment `blobs` takes uploads and answers with a Location that is routed nowhere; of one with `manifests`, uploads are refused and a completion's PUT stores a manifest | lines 46, 65 and 82, the endpoints that are matched |
| `registry/docker/private/service.go:152` | a manifest pushed under a tag is not found by its digest, unless it was also pushed under the digest; what is pushed under a digest is not compared with it | `handlers.go:131`, the reference of a manifest |
| `registry/docker/private/service.go:115` | reads cut the algorithm off: `sha512:` and the sha256 hex of a blob finds it | line 113, "write paths additionally require the algorithm to be sha256" |
| `registry/docker/private/service.go:401` | a completion that names another repository ends the session it does not own | line 402 does so on purpose; a chunk (line 365) leaves it alone |
| `registry/docker/private/service.go:369` | a chunk that found its session before a completion took it is written and accepted afterwards, while the file is open | line 373, "upload session already completed or discarded" |
| `storage/hash_computing_artifact_storage.go:188` | the reference given with an unknown hash is dropped | line 201, "merge references" |
| `registry/manager.go:505` | a failed listen is logged and the server runs on without it | lines 443 and 444, each registry is served |
| `main.go:130` | a signal between StartAllServers and signal.Notify kills the process with requests in flight | line 126, "gracefully shuts down" |

### Fairness

* `LockedStorage`: weak fairness of every call. Each has a goroutine, which the Go
  scheduler does not starve, and a stream is read to its end and closed.
  acquireLock polls every 10 ms, so a lock that stays free is taken. No more is
  needed, since each lock is asked for a bounded number of times; timeouts may
  happen and never have to. `RegistryPush` takes and releases locks by the same
  rules around single steps, and states safety only.
* `UploadSessions`: weak fairness of steps that need no lock; strong fairness of
  those that wait for a mutex, since sync.Mutex in starvation mode and
  sync.RWMutex hand over to who waits. A chunk's body ends: `readTimeout`
  (15 s by default) ends it otherwise. The ticker ticks. Nothing makes a client
  complete or a session grow old: expiry is not fair.
* `ServerLifecycle`: weak fairness of main, of the goroutines that listen and
  shut down, and of the 30 second deadline. None of requests or signals.

## 4. The proofs

From the ASSUMEs of the modules alone (the sets of keys, requests and special
values are apart), for any number of artifacts, sessions, requests and contents:

* `SimpleFileStorage_proofs`. `TypeCorrect`; `MetadataHasBlob`; `ReferencedKept`;
  `NothingLost`; `RangesExact` (for every integer width and blob, by arithmetic from
  `TypeCorrect`). The argument of each is by actions; a reference has its blob because
  references are written last and removed before the files go, and the shard sweep only
  removes references. Under hypotheses, since they are false without: `LookupsBacked`
  (each artifact has a shard of its own and no tags are oversized: the sweep of
  `StorageShardSweep`; a create refused for its tags, line 353), and
  `DeletesOnlyItsOwn`, that with a shard of its own for each artifact a deletion leaves
  the references of the others alone, so that sharing one is all that is wrong in
  `StorageShardSweep`. `LengthsKept`: the length on record is the blob's as long as no
  call is one of two (`LengthKept`), an UpdateBlob of an artifact that has metadata,
  which rewrites bytes and not the length (line 499), and a Move of a source without
  metadata (a torn stage) over an artifact of another length, which no caller does,
  since both compute the digest of what they stage first. `LengthsExact` is the case
  without staging and updates, the one `StorageReferences` checks. That metadata has a
  blob is part of the induction: a length on record without a blob would be wrong as
  soon as a torn upload puts bytes there.
* `RegistryPush_proofs`. With or without locks: `TypeCorrect`, and
  `ContentUnderItsDigest`, because a file is written only by requests that carry
  its body (`ContentInv`). For `Locked` (the hypothesis of each theorem):
  `MetadataTruthful`, `AcknowledgedKept`, `ServedIsWhole` and
  `ReferencesFindArtifact`. None of these is inductive: the invariant `LockedInv`
  adds which kinds of request reach a label (`LabelsFit`), that a writer inside its
  critical section has the lock (`HoldsLock`), that files are written by their
  creators, which start over no more (`OwnFiles`, `WrittenOnce`), that what is
  published is whole (`Published`), that moved metadata names a staging key without a
  file (`StagedMeta`, `MetaNames`), and what a reader between its steps relies on
  (`ReadWhole`). The pivot is `WholeKept`: no step takes a whole blob from its key.
  The shared lock of readers is not used: a complete file is never written
  again, so that locks between writers are all that integrity needs while nothing
  is deleted.
  Three theorems bound what the findings and the missing locks cost.
  `WholeWhenQuiet`, with or without locks, for `WriteFaults = FALSE` and `MaxCrashes = 0`
  (what `PushUnlocked` sets; with a copy that breaks off it is false): while
  pushes run, one may cut another's file down, but whoever did refills it
  (`CutIsRefilled`), metadata that is half written is written out (`TornIsRewritten`), and
  a file without metadata has a request that brings it (`MetaFollows`); none of the three is
  left when all have ended. `ManifestsWhole`, with locks and the same two
  hypotheses: what `PushTornManifest` shows needs a push that broke off. `UploadsSucceed`,
  with locks, without lock timeouts and failed copies, for behaviours in which no step
  removes a directory between the MkdirAll and the os.Create of an upload (`DirsKept`, a
  hypothesis on steps, which `PushStagingDir` violates): matching uploads succeed, so that
  the shared staging directory is all that is wrong there. The invariant
  is that nothing late makes moved metadata unreadable (`NoLateManifest`,
  `MovedReadable`). Crashes are allowed.
* `Registry_proofs`. `Implements`: with locks, `RegistryPush` implements `Registry`.
  To `LockedInv` the invariant `PromiseInv` adds what ties a request to what is
  stored: a push past its Move, or acknowledged, has its content stored or meets
  what a failed push of it left (`PushesFit`, `Leftovers`), a tag leads only to what
  was pushed under it (`Lookups`), and a pull between its steps holds what it may
  serve (`PullsFit`). Each step then maps to one abstract step or to none; the
  pivot is `Grows`, that no step takes stored content away.
* `LockedStorage_proofs`. `TypeCorrect` for all constants; under `NamesStay` also
  `WorksAlone`, `StaysConsistent`, `ReadsWholeFiles`, `StreamsUnchanged` and
  `TrashesUnreferenced`. The invariant says that a call at work has the lock of the
  artifact it works on, `key = at`, which is where the hypothesis is used, that
  locks exclude each other, and what each label of a call says of the files of its
  artifact; an artifact whose lock nobody has to write is `Consistent`. Creations
  that move a tag away from an artifact whose lock they do not have only weaken what
  its lookups say.
* `RegistryHttp_proofs`. `TypeCorrect`, `LocationsLeadBack`, `HeadsAgree`,
  `ManifestsServed`, `BlobsServed`, `ErrorsAreHarmless`, for any set of paths and
  repository names. Lemmas about cutting a path (`CutInside`, `Recompose`,
  `CutsOfFront`, `UploadLocation`, `BlobPathRouted`) say where the pieces that a
  handler took from a path are routed when they are put together again; the
  invariant adds that an acknowledged path is stored or tagged, and that a session
  carries a name that routing has let through.
* `UploadSessions_proofs`. `TypeCorrect`, `FileOwned`, `NoOrphanFile`, `UploadsIntact`
  and `UploadsRefine`, for all constants. That the
  file is open while a completion reads it is not inductive. The invariant adds
  that the session a completion holds was taken from the map (`HeldIsTaken`), that
  only one holds it (`HolderUnique`), that sessions in the map are open
  (`MappedIsOpen`) and that the sweep's remaining sessions are in the map
  (`SweepInMap`): then neither cleanup nor another completion can close it.
  For `UploadsIntact` the invariant `Collected` follows the bytes: while an undisturbed
  session is in the map its file is what was acknowledged, with the offset at the end
  (`FileIsAccepted`), a completion has read as far as the offset has come
  (`ReadSoFar`), and what it stored is all of it (`StoredIsAll`). `UploadsRefine` is that
  `UploadSessions` implements `BlobUpload`: with `RequestsFit`, which ties a request to what became
  of its session, each step is one of `BlobUpload`'s or none. EnterSession opens, RemoveExpired
  and TakeSession end, the last step of a chunk accepts or breaks, the deferred discard
  stores or fails; a closed file is met only in a session that has ended.
* `ServerLifecycle_proofs`. `TypeCorrect`, `ServedAsConfigured`, `StopsCleanly`, for every
  configuration. The invariant (`ServerInv`) is the order main works in: created storages
  are configured and usable (`StoragesUsable`), StartAllServers is reached only when every
  registry has its storage (`StoragesFirst`), what listens or has requests is on the list of
  servers (`ServersListed`), each with an address of its own (`OwnAddress`), so that only
  others can make it fail (`FailsForOthers`), and main is done only when each of
  them has shut down (`AllShutDown`).
* `HashComputing_proofs`. `TypeCorrect`, `NoTempLeft`, and `Refines`: the wrapper
  implements `ContentStore`. The invariant says that a staged artifact is whole
  and has metadata until it is moved, and that metadata at a content hash means
  the whole content. Each step then maps to one abstract step (`MoveKeeps`,
  `Answers`, `Fails`) or to none (`Stutter`).

Model-checked only: liveness (`EveryCallEnds`, `EveryRequestEnds`, `ExpiredReclaimed`,
`SignalStops`), which is beyond this prover. Every other property of the runs that pass
is a theorem, those under a hypothesis as said above. The properties of the runs
that show a disagreement are false of the code; the theorems about them say under which
hypothesis they hold.

## 5. What is not modelled

JSON formats, media types, error texts and the Range header of GET (which the
handlers do not read, `PLAN.md:157`); requests that overlap, at the HTTP level:
`RegistryPush` and `UploadSessions` interleave them below it; errors of the file
system other than failed copies; the temp files that a restart leaves behind, which
nothing collects (the sessions themselves are gone in `RegistryHttp`); Windows
semantics of rename; `Exists`, which nothing calls; several artifacts in one shard
under the locking wrapper (`StorageShardSweep` shows what goes wrong without any
concurrency); SaveToConfig and the wording of configuration errors; the proxy and
compound registries, which are stubs, the external configuration library and the
subsystems that the repository's README only plans.

## 6. Plan

Built, in this order: `SimpleFileStorage` (what everything rests on),
`RegistryPush`, `UploadSessions`, `HashComputing` over `ContentStore`,
`ServerLifecycle`, then `LockedStorage`, `RegistryHttp`, ReadBlob's ranges, and
`Registry` as what `RegistryPush` implements, `BlobUpload` as what `UploadSessions`
implements; proofs for all of them.

Next:

1. Deletions in `RegistryPush`, once the registry has a DELETE endpoint: so far
   nothing in it deletes published content.
2. The whole-call sessions of `RegistryHttp` as an implementation of `BlobUpload` too.
3. An abstract storage of whole calls that `LockedStorage` implements under `NamesStay`:
   `RegistryHttp` and `HashComputing` rely on calls being atomic.
