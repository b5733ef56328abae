-------------------------- MODULE SimpleFileStorage --------------------------
(***************************************************************************)
(* SimpleFileStorage (internal/storage/simple_file_storage.go): artifacts  *)
(* kept in a directory tree.  One action is one whole call of the storage; *)
(* the interleaving of the steps inside calls is the subject of the        *)
(* modules RegistryPush and UploadSessions.                                *)
(*                                                                         *)
(* On disk           Here                                                  *)
(*   blob/ab/cd..      blob[k]       the bytes, None if there is no file   *)
(*   meta/ab/cd..      meta[k]       the JSON metadata, None if no file    *)
(*   ref/xy/..         ref[r]        the hash a Registry::Name leads to    *)
(*   metaref/ab/cd../x metaref[k][r] the reference r of k (its tags)       *)
(*   metaref/ab        shardDirs     the first-level directories of it     *)
(*   .trash/...        trashBlob, trashMeta, trashRefs                     *)
(*                                                                         *)
(* A reference is identified by its Registry::Name, of which its file name *)
(* is the SHA-256; the timestamps and the description are left out.        *)
(***************************************************************************)
EXTENDS Integers, Sequences, FiniteSets

CONSTANTS
    StagingKeys,   \* keys of unpublished uploads ("upload-<uuid>", "temp-<uuid>")
    ContentKeys,   \* keys of published artifacts (hex digests)
    Shards,        \* the first two characters of a key
    ShardOf,       \* the shard of every key
    Refs,          \* references, by Registry::Name
    ValidTags,     \* tag maps within the limits on keys and values
    OversizeTags,  \* tag maps beyond them
    Byte,          \* the bytes blobs are made of
    Payloads,      \* what callers write
    Patches,       \* [offset, length, data]: the arguments of UpdateBlob
    MaxInt,        \* the largest int64
    None           \* no file / a field left empty / a nil reader

Keys == StagingKeys \cup ContentKeys
Tags == ValidTags \cup OversizeTags

ASSUME KeysAssumption ==
    /\ StagingKeys \cap ContentKeys = {}
    /\ ShardOf \in [Keys -> Shards]
    /\ ValidTags \cap OversizeTags = {}
ASSUME DataAssumption ==
    /\ 0 \in Byte
    /\ Payloads \subseteq Seq(Byte)
    /\ Patches \subseteq [offset : Nat, length : Int, data : Seq(Byte)]
    /\ MaxInt \in Nat
ASSUME NoneAssumption ==
    /\ None \notin Keys /\ None \notin Refs /\ None \notin Tags
    /\ None \notin Seq(Byte)
    /\ None \notin [hash : Keys, length : Nat]

VARIABLES blob, meta, ref, metaref, shardDirs, trashBlob, trashMeta, trashRefs,
          out      \* how the last call ended

files == <<blob, meta, ref, metaref, shardDirs, trashBlob, trashMeta, trashRefs>>
vars == <<blob, meta, ref, metaref, shardDirs, trashBlob, trashMeta, trashRefs, out>>

Meta == [hash : Keys, length : Nat]

\* models.ArtifactIdentifier: a hash, a reference or both.
Identifiers == [hash : Keys \cup {None}, ref : Refs \cup {None}]
HasHash(id) == id.hash # None
HasReference(id) == id.ref # None

\* The references registered for k, and the ones a directory listing of the
\* whole shard of k holds.
listMetaRefFiles(k) == {r \in Refs : metaref[k][r] # None}
ShardRefs(k) ==
    {kr \in Keys \X Refs : ShardOf[kr[1]] = ShardOf[k] /\ metaref[kr[1]][kr[2]] # None}

resolveIdentifier(id) ==
    IF HasHash(id) THEN id.hash ELSE IF HasReference(id) THEN ref[id.ref] ELSE None

\* There is a blob under what an identifier resolved to.
Stored(k) == k # None /\ blob[k] # None

Init ==
    /\ blob = [k \in Keys |-> None]
    /\ meta = [k \in Keys |-> None]
    /\ ref = [r \in Refs |-> None]
    /\ metaref = [k \in Keys |-> [r \in Refs |-> None]]
    /\ shardDirs = {}
    /\ trashBlob = [k \in Keys |-> None]
    /\ trashMeta = [k \in Keys |-> None]
    /\ trashRefs = [k \in Keys |-> {}]
    /\ out = "ok"

\* A call that returns an error before it touched any file.
Refused(result) == out' = result /\ UNCHANGED files

------------------------------------------------------------------------------
(* CreateArtifact(id, reader, size, meta): tags are those of id.Reference, data *)
(* what the reader yields (None: a nil reader), mh is meta.Hash (None: no meta).*)

createOrUpdateRef(k, r) == ref' = [ref EXCEPT ![r] = k]

createOrUpdateMetaRefFile(k, r, tags) ==
    \/ /\ tags \in ValidTags
       /\ metaref' = [metaref EXCEPT ![k][r] = tags]
       /\ shardDirs' = shardDirs \cup {ShardOf[k]}
       /\ out' = "ok"
    \/ /\ tags \notin ValidTags
       /\ out' = "error"
       /\ UNCHANGED <<metaref, shardDirs>>

\* The loop over newReferences, which holds id.Reference or nothing.
AddReferences(id, k, tags) ==
    \/ HasReference(id) /\ createOrUpdateRef(k, id.ref)
                        /\ createOrUpdateMetaRefFile(k, id.ref, tags)
    \/ ~HasReference(id) /\ out' = "ok" /\ UNCHANGED <<ref, metaref, shardDirs>>

CreateHash(id, mh) == IF HasHash(id) THEN id.hash ELSE mh
ValidCreate(id, mh) == IF HasHash(id) THEN mh \in {None, id.hash}
                                      ELSE HasReference(id) /\ mh # None

CreateInvalid(id, mh) == ~ValidCreate(id, mh) /\ Refused("error")

\* The metadata of what id resolves to: for an id without a hash that is what
\* the reference leads to, whatever artifact the caller is creating.
GetMeta(id) ==
    LET k == resolveIdentifier(id) IN IF k = None THEN None ELSE meta[k]

\* Without metadata the length is taken from the file itself.
ExistingLength(id, k) ==
    IF GetMeta(id) # None THEN GetMeta(id).length ELSE Len(blob[k])

CreateOnExisting(id, tags, size, mh) ==
    LET k == CreateHash(id, mh) IN
    /\ ValidCreate(id, mh)
    /\ blob[k] # None
    /\ \/ resolveIdentifier(id) = None /\ Refused("error")
       \/ /\ resolveIdentifier(id) # None
          /\ size \notin {-1, ExistingLength(id, k)}
          /\ Refused("conflict")
       \/ /\ resolveIdentifier(id) # None
          /\ size \in {-1, ExistingLength(id, k)}
          /\ AddReferences(id, k, tags)
          /\ UNCHANGED <<blob, meta, trashBlob, trashMeta, trashRefs>>

\* Seeded faults: the length is the caller's (-1, unknown), or is taken before the
\* data is written.
CreateNewMeasured(id, tags, data, mh, length) ==
    LET k == CreateHash(id, mh) IN
    /\ ValidCreate(id, mh)
    /\ blob[k] = None /\ data # None
    /\ blob' = [blob EXCEPT ![k] = data]
    /\ meta' = [meta EXCEPT ![k] = [hash |-> k, length |-> length]]
    /\ AddReferences(id, k, tags)
    /\ UNCHANGED <<trashBlob, trashMeta, trashRefs>>
CreateNewUnmeasured(id, tags, data, mh) == CreateNewMeasured(id, tags, data, mh, -1)
CreateNewEarlyStat(id, tags, data, mh) == CreateNewMeasured(id, tags, data, mh, 0)

\* Blob first, metadata next, the references last.
CreateNew(id, tags, data, mh) ==
    LET k == CreateHash(id, mh) IN
    /\ ValidCreate(id, mh)
    /\ blob[k] = None /\ data # None
    /\ blob' = [blob EXCEPT ![k] = data]
    /\ meta' = [meta EXCEPT ![k] = [hash |-> k, length |-> Len(data)]]
    /\ AddReferences(id, k, tags)
    /\ UNCHANGED <<trashBlob, trashMeta, trashRefs>>

\* Seeded fault: the references come first, and the blob is never created.
CreateReferencesFirst(id, data, mh) ==
    LET k == CreateHash(id, mh) IN
    /\ ValidCreate(id, mh)
    /\ blob[k] = None
    /\ \E tags \in ValidTags : AddReferences(id, k, tags)
    /\ UNCHANGED <<blob, meta, trashBlob, trashMeta, trashRefs>>

\* io.Copy fails after n bytes (or the process dies before the metadata is
\* written): the bytes stay under the key.  A nil reader panics at once.
CreateTorn(id, data, mh) ==
    LET k == CreateHash(id, mh) IN
    /\ ValidCreate(id, mh)
    /\ blob[k] = None
    /\ \/ /\ data # None
          /\ \E n \in 0 .. Len(data) : blob' = [blob EXCEPT ![k] = SubSeq(data, 1, n)]
          /\ out' = "error"
       \/ /\ data = None
          /\ blob' = [blob EXCEPT ![k] = << >>]
          /\ out' = "panic"
    /\ UNCHANGED <<meta, ref, metaref, shardDirs, trashBlob, trashMeta, trashRefs>>

CreateArtifact(id, tags, data, size, mh) ==
    \/ CreateInvalid(id, mh)
    \/ CreateOnExisting(id, tags, size, mh)
    \/ CreateNew(id, tags, data, mh)
    \/ CreateTorn(id, data, mh)

------------------------------------------------------------------------------
(* DeleteArtifact *)

\* The references a call removes: the one it names, else all of the artifact.
DroppedRefs(id, k) == IF HasReference(id) THEN {id.ref} ELSE listMetaRefFiles(k)

\* deleteRef removes the lookup file of a name, whatever artifact it leads to.
deleteRef(rs) == ref' = [r \in Refs |-> IF r \in rs THEN None ELSE ref[r]]

\* metaref with the entries rs of k removed.
WithoutMetaRefs(k, rs) ==
    [metaref EXCEPT ![k] = [r \in Refs |-> IF r \in rs THEN None ELSE metaref[k][r]]]

\* What the shard of k holds once the references of k itself are gone.
Bystanders(k) == {kr \in ShardRefs(k) : kr[1] # k}

\* Seeded fault: the blob is removed for good.
RemoveFiles(k) ==
    /\ blob' = [blob EXCEPT ![k] = None]
    /\ meta' = [meta EXCEPT ![k] = None]
    /\ UNCHANGED <<trashBlob, trashMeta>>

TrashFiles(k) ==
    /\ blob' = [blob EXCEPT ![k] = None]
    /\ trashBlob' = [trashBlob EXCEPT ![k] = blob[k]]
    /\ meta' = [meta EXCEPT ![k] = None]
    /\ trashMeta' = [trashMeta EXCEPT ![k] = IF meta[k] = None THEN @ ELSE meta[k]]

\* The directory renamed into the trash is filepath.Dir of the artifact's own
\* metaref directory: the shard's.  Renaming onto a directory that an earlier
\* deletion of k filled fails, after the blob and metadata have moved.
TrashMetaRefs(k) ==
    \/ /\ ShardOf[k] \notin shardDirs
       /\ metaref' = WithoutMetaRefs(k, Refs)
       /\ out' = "ok"
       /\ UNCHANGED <<shardDirs, trashRefs>>
    \/ /\ ShardOf[k] \in shardDirs /\ trashRefs[k] = {}
       /\ metaref' = [x \in Keys |-> IF ShardOf[x] = ShardOf[k]
                                     THEN [r \in Refs |-> None] ELSE metaref[x]]
       /\ trashRefs' = [trashRefs EXCEPT ![k] = Bystanders(k)]
       /\ shardDirs' = shardDirs \ {ShardOf[k]}
       /\ out' = "ok"
    \/ /\ ShardOf[k] \in shardDirs /\ trashRefs[k] # {}
       /\ metaref' = WithoutMetaRefs(k, Refs)
       /\ out' = "error"
       /\ UNCHANGED <<shardDirs, trashRefs>>

moveToTrash(k) == TrashFiles(k) /\ TrashMetaRefs(k)

\* Seeded fault: an artifact that has one reference left is trashed.
AlmostUnreferenced(k, dropped) == Cardinality(listMetaRefFiles(k) \ dropped) <= 1

\* No reference of k remains once dropped are gone.
Unreferenced(k, dropped) == listMetaRefFiles(k) \subseteq dropped

Deletable(id) ==
    LET k == resolveIdentifier(id)
    IN  /\ Stored(k)
        /\ HasReference(id) => metaref[k][id.ref] # None

DeleteArtifact(id) ==
    LET k == resolveIdentifier(id)
        dropped == DroppedRefs(id, k)
    IN  \/ ~Deletable(id) /\ Refused("error")
        \/ /\ Deletable(id)
           /\ deleteRef(dropped)
           /\ \/ Unreferenced(k, dropped) /\ moveToTrash(k)
              \/ /\ ~Unreferenced(k, dropped)
                 /\ metaref' = WithoutMetaRefs(k, dropped)
                 /\ out' = "ok"
                 /\ UNCHANGED <<blob, meta, shardDirs, trashBlob, trashMeta, trashRefs>>

------------------------------------------------------------------------------
(* UpdateReference, UpdateBlob, Move *)

UpdateReference(k, r, tags) ==
    \/ metaref[k][r] = None /\ Refused("error")
    \/ /\ metaref[k][r] # None
       /\ createOrUpdateMetaRefFile(k, r, tags)
       /\ UNCHANGED <<blob, meta, ref, trashBlob, trashMeta, trashRefs>>

\* Bytes d written at an offset of b: a gap past the end reads as zeros.
Overwrite(b, offset, d) ==
    IF d = << >> THEN b
    ELSE LET end == offset + Len(d)
         IN  [i \in 1 .. (IF Len(b) > end THEN Len(b) ELSE end) |->
                IF i \in offset + 1 .. end THEN d[i - offset]
                ELSE IF i <= Len(b) THEN b[i] ELSE 0]

\* io.CopyN stops at the length asked for, and fails on a shorter reader after
\* writing what there was; a length of zero or less copies everything.
Copied(p) == IF p.length > 0 /\ p.length < Len(p.data) THEN SubSeq(p.data, 1, p.length)
                                                      ELSE p.data

UpdateBlob(id, p) ==
    LET k == resolveIdentifier(id) IN
    \/ ~Stored(k) /\ Refused("error")
    \/ /\ Stored(k)
       /\ blob' = [blob EXCEPT ![k] = Overwrite(blob[k], p.offset, Copied(p))]
       /\ out' = IF p.length > Len(p.data) THEN "error" ELSE "ok"
       /\ UNCHANGED <<meta, ref, metaref, shardDirs, trashBlob, trashMeta, trashRefs>>

\* Seeded fault: the metadata stays under the source.
MoveBlobOnly(src, dest) ==
    /\ blob[src] # None
    /\ blob' = [blob EXCEPT ![dest] = blob[src], ![src] = None]
    /\ out' = "ok"
    /\ UNCHANGED <<meta, ref, metaref, shardDirs, trashBlob, trashMeta, trashRefs>>

\* rename(2) replaces what the destination held; the metadata follows only if
\* the source has some.  (Removing emptied directories: see RegistryPush.)
Move(src, dest) ==
    \/ blob[src] = None /\ Refused("error")
    \/ /\ blob[src] # None
       /\ blob' = [blob EXCEPT ![dest] = blob[src], ![src] = None]
       /\ meta' = IF meta[src] = None THEN meta
                  ELSE [meta EXCEPT ![dest] = meta[src], ![src] = None]
       /\ out' = "ok"
       /\ UNCHANGED <<ref, metaref, shardDirs, trashBlob, trashMeta, trashRefs>>

------------------------------------------------------------------------------
(* ReadBlob changes no file: it is the range it reports and the bytes it streams. *)

Int64 == -MaxInt - 1 .. MaxInt

\* The int64 sum of an offset (not negative) and a length.
Wrap(n) == IF n > MaxInt THEN n - 2 * (MaxInt + 1) ELSE n

Least(m, n) == IF m < n THEN m ELSE n

\* Seeded fault: an offset past the end leaves a negative length.
ReadRangeUnclamped(size, offset, length) ==
    LET from == IF offset < 0 THEN 0 ELSE offset
    IN  [offset |-> from,
         length |-> IF length = -1 \/ Wrap(from + length) > size THEN size - from ELSE length]

\* The range read from a file of a size: up to its end for a length of -1, or one
\* that reaches beyond it.
ReadRange(size, offset, length) ==
    LET from == IF offset < 0 THEN 0 ELSE offset
        upto == IF length = -1 \/ Wrap(from + length) > size THEN size - from ELSE length
    IN  [offset |-> from, length |-> IF upto < 0 THEN 0 ELSE upto]

\* io.NewSectionReader: n bytes from an offset, or as many as the file has; a sum
\* beyond int64 means all of them.
SectionReader(b, from, n) ==
    SubSeq(b, from + 1, IF from > MaxInt - n THEN Len(b) ELSE Least(from + n, Len(b)))

ReadBlob(id, offset, length) ==
    LET b == blob[resolveIdentifier(id)]
        actual == ReadRange(Len(b), offset, length)
    IN  [range |-> actual, stream |-> SectionReader(b, actual.offset, actual.length)]

------------------------------------------------------------------------------
Sizes == {-1} \cup {Len(p) : p \in Payloads}

\* A staged upload carries no reference: PutBlob and the hash-computing wrapper
\* name it by hash alone, and only published artifacts get references.
Creations == {c \in [id : Identifiers, mh : Keys \cup {None}] :
                HasReference(c.id) => CreateHash(c.id, c.mh) \notin StagingKeys}

Next ==
    \/ \E c \in Creations, tags \in Tags, data \in Payloads \cup {None}, size \in Sizes :
          CreateArtifact(c.id, tags, data, size, c.mh)
    \/ \E id \in Identifiers : DeleteArtifact(id)
    \/ \E k \in Keys, r \in Refs, tags \in Tags : UpdateReference(k, r, tags)
    \/ \E id \in Identifiers, p \in Patches : UpdateBlob(id, p)
    \/ \E src \in StagingKeys, dest \in ContentKeys : Move(src, dest)

Spec == Init /\ [][Next]_vars

------------------------------------------------------------------------------
(* Properties *)

TypeOK ==
    /\ blob \in [Keys -> Seq(Byte) \cup {None}]
    /\ meta \in [Keys -> Meta \cup {None}]
    /\ ref \in [Refs -> Keys \cup {None}]
    /\ metaref \in [Keys -> [Refs -> ValidTags \cup {None}]]
    /\ shardDirs \subseteq Shards
    /\ trashBlob \in [Keys -> Seq(Byte) \cup {None}]
    /\ trashMeta \in [Keys -> Meta \cup {None}]
    /\ trashRefs \in [Keys -> SUBSET (Keys \X Refs)]
    /\ out \in {"ok", "error", "conflict", "panic"}

\* Metadata never outlives the bytes it describes: no order of creations that
\* fail half way, deletions and moves leaves a metadata file without a blob, so
\* a successful GetMeta (a HEAD request) means that there is something to read.
MetaHasBlob == \A k \in Keys : meta[k] # None => blob[k] # None

\* The reference list of an artifact never outlives it: whatever order uploads
\* fail, artifacts are deleted, trashed and created again in, no reference is left
\* for a blob that is gone, and none is there before its blob.
ReferencedArtifactKept ==
    \A k \in Keys : listMetaRefFiles(k) # {} => blob[k] # None

\* The lookup file of a name and the reference list of the artifact it leads to
\* agree: a name that resolves is listed by its artifact.  With
\* ReferencedArtifactKept, every name that resolves leads to a stored blob, and
\* DeleteArtifact trashes nothing a name still leads to.
\* It needs one artifact per metaref shard and tags within their limits.
LookupBacked ==
    \A r \in Refs : ref[r] # None => metaref[ref[r]][r] # None

\* The length that CreateArtifact validates repeated uploads against, and that
\* the registry sends as Content-Length, is the length of the blob.
MetaLengthExact ==
    \A k \in Keys : meta[k] # None /\ blob[k] # None => meta[k].length = Len(blob[k])

\* A key does not lose its blob without trace: when a call takes the blob of a key
\* away, the same bytes are in the trash under that key or published under another.
NoDataLost ==
    [][\A k \in Keys : blob[k] # None /\ blob'[k] = None =>
          trashBlob'[k] = blob[k] \/ \E dest \in ContentKeys : blob'[dest] = blob[k]]_vars

\* Deleting an artifact leaves the references of every other artifact alone.
DeleteKeepsOtherArtifacts ==
    [][\A id \in Identifiers : DeleteArtifact(id) =>
          \A k \in Keys : k # resolveIdentifier(id) => metaref'[k] = metaref[k]]_vars

\* What a caller asks for: from an offset, or the start for a negative one, so many
\* bytes, or all for -1, as far as the blob has them.
Asked(b, offset, length) ==
    LET from == IF offset < 0 THEN 0 ELSE offset
    IN  SubSeq(b, from + 1, IF length = -1 THEN Len(b) ELSE Least(from + length, Len(b)))

\* ReadBlob streams exactly the bytes asked for, whatever the offset and length,
\* past the end, negative, or with a sum that overflows; and but for an overflow
\* the length it reports is the number of them.
ReadExact ==
    \A k \in Keys, offset \in Int64, length \in Int64 :
        blob[k] # None /\ Len(blob[k]) <= MaxInt =>
            LET got == ReadBlob([hash |-> k, ref |-> None], offset, length)
            IN  /\ got.stream = Asked(blob[k], offset, length)
                /\ offset + length <= MaxInt => got.range.length = Len(got.stream)

==============================================================================
