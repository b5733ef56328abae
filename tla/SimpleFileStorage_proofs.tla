---------------------- MODULE SimpleFileStorage_proofs -----------------------
(* What every sequence of SimpleFileStorage calls preserves, for every set of *)
(* keys, references, tags, payloads and patches.                              *)
EXTENDS SimpleFileStorage, TLAPS

\* An identifier leads to a key, or to none.
LEMMA ResolvedKey ==
    ASSUME TypeOK, NEW id \in Identifiers
    PROVE  resolveIdentifier(id) \in Keys \cup {None}
  BY DEF TypeOK, Identifiers, resolveIdentifier, HasHash, HasReference

\* The key of a valid creation, and that a reference never goes to a staged one.
LEMMA CreatedKey ==
    ASSUME NEW c \in Creations, ValidCreate(c.id, c.mh)
    PROVE  /\ CreateHash(c.id, c.mh) \in Keys
           /\ HasReference(c.id) => CreateHash(c.id, c.mh) \notin StagingKeys
           /\ HasReference(c.id) => c.id.ref \in Refs
  BY NoneAssumption DEF Creations, Identifiers, ValidCreate, CreateHash, HasHash, HasReference

\* A prefix of a payload is one.
LEMMA PrefixType ==
    ASSUME NEW d \in Seq(Byte), NEW n \in 0 .. Len(d)
    PROVE  SubSeq(d, 1, n) \in Seq(Byte)
  OBVIOUS

\* Bytes written into a blob leave a blob.
LEMMA OverwriteType ==
    ASSUME NEW b \in Seq(Byte), NEW offset \in Nat, NEW d \in Seq(Byte)
    PROVE  Overwrite(b, offset, d) \in Seq(Byte)
<1>1. CASE d = << >>
  BY <1>1 DEF Overwrite
<1>2. CASE d # << >>
  <2> DEFINE end == offset + Len(d)
             last == IF Len(b) > end THEN Len(b) ELSE end
             at(i) == IF i \in offset + 1 .. end THEN d[i - offset]
                      ELSE IF i <= Len(b) THEN b[i] ELSE 0
  <2>1. end \in Nat /\ last \in Nat
    OBVIOUS
  <2>2. ASSUME NEW i \in 1 .. last PROVE at(i) \in Byte
    <3>1. CASE i \in offset + 1 .. end
      <4>1. i - offset \in 1 .. Len(d)
        BY <3>1, <2>1
      <4> QED BY <4>1, <3>1
    <3>2. CASE i \notin offset + 1 .. end /\ i <= Len(b)
      <4>1. i \in 1 .. Len(b)
        BY <3>2, <2>1
      <4> QED BY <4>1, <3>2
    <3>3. CASE i \notin offset + 1 .. end /\ ~(i <= Len(b))
      BY <3>3, DataAssumption
    <3> QED BY <3>1, <3>2, <3>3
  <2>3. [i \in 1 .. last |-> at(i)] \in [1 .. last -> Byte]
    BY <2>2
  <2>4. [i \in 1 .. last |-> at(i)] \in Seq(Byte)
    BY <2>1, <2>3
  <2> QED BY <1>2, <2>4 DEF Overwrite
<1> QED BY <1>1, <1>2

\* What a patch copies is a part of its data.
LEMMA CopiedType ==
    ASSUME NEW p \in Patches
    PROVE  Copied(p) \in Seq(Byte) /\ p.offset \in Nat /\ p.length \in Int
<1>1. p \in [offset : Nat, length : Int, data : Seq(Byte)]
  BY DataAssumption
<1>2. p.data \in Seq(Byte) /\ p.offset \in Nat /\ p.length \in Int
  BY <1>1
<1>3. p.length > 0 /\ p.length < Len(p.data) => SubSeq(p.data, 1, p.length) \in Seq(Byte)
  <2> SUFFICES ASSUME p.length > 0, p.length < Len(p.data)
               PROVE  SubSeq(p.data, 1, p.length) \in Seq(Byte)
    OBVIOUS
  <2>1. p.length \in 0 .. Len(p.data)
    BY <1>2
  <2> QED BY <2>1, <1>2, PrefixType
<1> QED BY <1>2, <1>3 DEF Copied

\* The part of TypeOK about references, which AddReferences and UpdateReference
\* touch, is preserved by each.
LEMMA MetaRefFileType ==
    ASSUME TypeOK, NEW k \in Keys, NEW r \in Refs, NEW tags \in Tags,
           createOrUpdateMetaRefFile(k, r, tags)
    PROVE  /\ metaref' \in [Keys -> [Refs -> ValidTags \cup {None}]]
           /\ shardDirs' \subseteq Shards
           /\ out' \in {"ok", "error", "conflict", "panic"}
<1>1. CASE tags \in ValidTags /\ metaref' = [metaref EXCEPT ![k][r] = tags]
           /\ shardDirs' = shardDirs \cup {ShardOf[k]} /\ out' = "ok"
  BY <1>1, KeysAssumption DEF TypeOK
<1>2. CASE out' = "error" /\ UNCHANGED <<metaref, shardDirs>>
  BY <1>2 DEF TypeOK
<1> QED BY <1>1, <1>2 DEF createOrUpdateMetaRefFile

\* A create's references keep lookups and reference lists in their types.
LEMMA AddReferencesType ==
    ASSUME TypeOK, NEW k \in Keys, NEW id, HasReference(id) => id.ref \in Refs,
           NEW tags \in Tags, AddReferences(id, k, tags)
    PROVE  /\ ref' \in [Refs -> Keys \cup {None}]
           /\ metaref' \in [Keys -> [Refs -> ValidTags \cup {None}]]
           /\ shardDirs' \subseteq Shards
           /\ out' \in {"ok", "error", "conflict", "panic"}
<1>1. CASE HasReference(id) /\ createOrUpdateRef(k, id.ref)
           /\ createOrUpdateMetaRefFile(k, id.ref, tags)
  <2>1. id.ref \in Refs
    BY <1>1
  <2>2. ref' \in [Refs -> Keys \cup {None}]
    BY <1>1, <2>1 DEF TypeOK, createOrUpdateRef
  <2> QED BY <1>1, <2>1, <2>2, MetaRefFileType
<1>2. CASE out' = "ok" /\ UNCHANGED <<ref, metaref, shardDirs>>
  BY <1>2 DEF TypeOK
<1> QED BY <1>1, <1>2 DEF AddReferences

\* Every way a create can end keeps the types.
LEMMA CreateType ==
    ASSUME TypeOK, NEW c \in Creations, NEW tags \in Tags,
           NEW data \in Payloads \cup {None}, NEW size,
           CreateArtifact(c.id, tags, data, size, c.mh)
    PROVE  TypeOK'
<1> DEFINE k == CreateHash(c.id, c.mh)
<1>0. ValidCreate(c.id, c.mh) => /\ k \in Keys
                                 /\ HasReference(c.id) => c.id.ref \in Refs
  BY CreatedKey
<1>1. CASE CreateInvalid(c.id, c.mh)
  BY <1>1 DEF CreateInvalid, Refused, files, TypeOK
<1>2. CASE CreateOnExisting(c.id, tags, size, c.mh)
  <2>1. CASE UNCHANGED files /\ out' \in {"error", "conflict"}
    BY <2>1 DEF files, TypeOK
  <2>2. CASE AddReferences(c.id, k, tags)
             /\ UNCHANGED <<blob, meta, trashBlob, trashMeta, trashRefs>>
    <3>1. ValidCreate(c.id, c.mh)
      BY <1>2 DEF CreateOnExisting
    <3>2. /\ ref' \in [Refs -> Keys \cup {None}]
          /\ metaref' \in [Keys -> [Refs -> ValidTags \cup {None}]]
          /\ shardDirs' \subseteq Shards
          /\ out' \in {"ok", "error", "conflict", "panic"}
      BY <1>0, <2>2, <3>1, AddReferencesType
    <3> QED BY <2>2, <3>2 DEF TypeOK
  <2> QED BY <1>2, <2>1, <2>2 DEF CreateOnExisting, Refused
<1>3. CASE CreateNew(c.id, tags, data, c.mh)
  <2>1. ValidCreate(c.id, c.mh) /\ data \in Seq(Byte)
    BY <1>3, DataAssumption DEF CreateNew
  <2>2. /\ ref' \in [Refs -> Keys \cup {None}]
        /\ metaref' \in [Keys -> [Refs -> ValidTags \cup {None}]]
        /\ shardDirs' \subseteq Shards
        /\ out' \in {"ok", "error", "conflict", "panic"}
    BY <1>0, <1>3, <2>1, AddReferencesType DEF CreateNew
  <2>3. blob' \in [Keys -> Seq(Byte) \cup {None}]
    BY <1>0, <1>3, <2>1 DEF CreateNew, TypeOK
  <2>4. [hash |-> k, length |-> Len(data)] \in Meta
    BY <1>0, <2>1 DEF Meta
  <2>5. meta' \in [Keys -> Meta \cup {None}]
    BY <1>3, <2>4 DEF CreateNew, TypeOK
  <2> QED BY <1>3, <2>2, <2>3, <2>5 DEF CreateNew, TypeOK
<1>4. CASE CreateTorn(c.id, data, c.mh)
  <2>1. k \in Keys
    BY <1>0, <1>4 DEF CreateTorn
  <2>2. blob' \in [Keys -> Seq(Byte) \cup {None}] /\ out' \in {"error", "panic"}
    <3>1. CASE data # None
               /\ \E n \in 0 .. Len(data) : blob' = [blob EXCEPT ![k] = SubSeq(data, 1, n)]
               /\ out' = "error"
      BY <2>1, <3>1, PrefixType, DataAssumption DEF TypeOK
    <3>2. CASE blob' = [blob EXCEPT ![k] = << >>] /\ out' = "panic"
      BY <2>1, <3>2 DEF TypeOK
    <3> QED BY <1>4, <3>1, <3>2 DEF CreateTorn
  <2> QED BY <1>4, <2>2 DEF CreateTorn, TypeOK
<1> QED BY <1>1, <1>2, <1>3, <1>4 DEF CreateArtifact

\* Moving files to the trash keeps the types.
LEMMA TrashType ==
    ASSUME TypeOK, NEW k \in Keys, moveToTrash(k)
    PROVE  /\ blob' \in [Keys -> Seq(Byte) \cup {None}]
           /\ meta' \in [Keys -> Meta \cup {None}]
           /\ trashBlob' \in [Keys -> Seq(Byte) \cup {None}]
           /\ trashMeta' \in [Keys -> Meta \cup {None}]
           /\ metaref' \in [Keys -> [Refs -> ValidTags \cup {None}]]
           /\ shardDirs' \subseteq Shards
           /\ trashRefs' \in [Keys -> SUBSET (Keys \X Refs)]
           /\ out' \in {"ok", "error"}
<1>1. /\ blob' \in [Keys -> Seq(Byte) \cup {None}]
      /\ trashBlob' \in [Keys -> Seq(Byte) \cup {None}]
  BY DEF moveToTrash, TrashFiles, TrashMetaRefs, TypeOK
<1>2. /\ meta' \in [Keys -> Meta \cup {None}]
      /\ trashMeta' \in [Keys -> Meta \cup {None}]
  BY DEF moveToTrash, TrashFiles, TrashMetaRefs, TypeOK
<1>3. WithoutMetaRefs(k, Refs) \in [Keys -> [Refs -> ValidTags \cup {None}]]
  BY DEF WithoutMetaRefs, TypeOK
<1>4. [x \in Keys |-> IF ShardOf[x] = ShardOf[k] THEN [r \in Refs |-> None] ELSE metaref[x]]
        \in [Keys -> [Refs -> ValidTags \cup {None}]]
  BY DEF TypeOK
<1>5. Bystanders(k) \in SUBSET (Keys \X Refs)
  BY DEF Bystanders, ShardRefs
<1>6. /\ metaref' \in [Keys -> [Refs -> ValidTags \cup {None}]]
      /\ shardDirs' \subseteq Shards
      /\ out' \in {"ok", "error"}
  BY <1>3, <1>4 DEF moveToTrash, TrashFiles, TrashMetaRefs, TypeOK
<1>7. trashRefs' \in [Keys -> SUBSET (Keys \X Refs)]
  BY <1>5 DEF moveToTrash, TrashFiles, TrashMetaRefs, TypeOK
<1> QED BY <1>1, <1>2, <1>6, <1>7

\* DeleteArtifact goes on only with a key that has a blob.
LEMMA StoredKey ==
    ASSUME TypeOK, NEW id \in Identifiers, Stored(resolveIdentifier(id))
    PROVE  resolveIdentifier(id) \in Keys /\ blob[resolveIdentifier(id)] \in Seq(Byte)
  BY ResolvedKey DEF Stored, TypeOK

\* Every way a deletion can end keeps the types.
LEMMA DeleteType ==
    ASSUME TypeOK, NEW id \in Identifiers, DeleteArtifact(id)
    PROVE  TypeOK'
<1> DEFINE k == resolveIdentifier(id)
           dropped == DroppedRefs(id, k)
<1>1. CASE Refused("error")
  BY <1>1 DEF Refused, files, TypeOK
<1>2. CASE Deletable(id) /\ deleteRef(dropped)
  <2>1. k \in Keys
    BY <1>2, StoredKey DEF Deletable
  <2>2. ref' \in [Refs -> Keys \cup {None}]
    BY <1>2 DEF deleteRef, TypeOK
  <2>3. CASE moveToTrash(k)
    BY <2>1, <2>2, <2>3, TrashType DEF TypeOK
  <2>4. CASE /\ metaref' = WithoutMetaRefs(k, dropped) /\ out' = "ok"
             /\ UNCHANGED <<blob, meta, shardDirs, trashBlob, trashMeta, trashRefs>>
    <3>1. metaref' \in [Keys -> [Refs -> ValidTags \cup {None}]]
      BY <2>1, <2>4 DEF WithoutMetaRefs, TypeOK
    <3> QED BY <2>2, <2>4, <3>1 DEF TypeOK
  <2>5. moveToTrash(k) \/ /\ metaref' = WithoutMetaRefs(k, dropped) /\ out' = "ok"
                          /\ UNCHANGED <<blob, meta, shardDirs, trashBlob, trashMeta, trashRefs>>
    <3>1. CASE ~Deletable(id) /\ Refused("error")
      BY <1>2, <3>1
    <3> QED BY <3>1 DEF DeleteArtifact
  <2> QED BY <2>3, <2>4, <2>5
<1> QED BY <1>1, <1>2 DEF DeleteArtifact

\* UpdateReference rewrites one entry of a reference list.
LEMMA UpdateReferenceType ==
    ASSUME TypeOK, NEW k \in Keys, NEW r \in Refs, NEW tags \in Tags,
           UpdateReference(k, r, tags)
    PROVE  TypeOK'
<1>1. CASE Refused("error")
  BY <1>1 DEF Refused, files, TypeOK
<1>2. CASE /\ createOrUpdateMetaRefFile(k, r, tags)
           /\ UNCHANGED <<blob, meta, ref, trashBlob, trashMeta, trashRefs>>
  BY <1>2, MetaRefFileType DEF TypeOK
<1> QED BY <1>1, <1>2 DEF UpdateReference

\* UpdateBlob rewrites one blob.
LEMMA UpdateBlobType ==
    ASSUME TypeOK, NEW id \in Identifiers, NEW p \in Patches, UpdateBlob(id, p)
    PROVE  TypeOK'
<1> DEFINE k == resolveIdentifier(id)
<1>1. CASE ~Stored(k)
  BY <1>1 DEF UpdateBlob, Refused, files, TypeOK
<1>2. CASE Stored(k)
  <2>1. k \in Keys /\ blob[k] \in Seq(Byte)
    BY <1>2, StoredKey
  <2>2. Overwrite(blob[k], p.offset, Copied(p)) \in Seq(Byte)
    BY <2>1, CopiedType, OverwriteType
  <2>3. blob' \in [Keys -> Seq(Byte) \cup {None}]
    BY <1>2, <2>2 DEF UpdateBlob, TypeOK
  <2>4. out' \in {"ok", "error"}
    BY <1>2 DEF UpdateBlob
  <2> QED BY <1>2, <2>3, <2>4 DEF UpdateBlob, TypeOK
<1> QED BY <1>1, <1>2

\* Move carries one blob and its metadata along.
LEMMA MoveType ==
    ASSUME TypeOK, NEW src \in StagingKeys, NEW dest \in ContentKeys, Move(src, dest)
    PROVE  TypeOK'
<1>1. src \in Keys /\ dest \in Keys
  BY DEF Keys
<1>2. CASE Refused("error")
  BY <1>2 DEF Refused, files, TypeOK
<1>3. CASE blob[src] # None /\ ~Refused("error")
  <2>1. blob' \in [Keys -> Seq(Byte) \cup {None}]
    BY <1>1, <1>3 DEF Move, TypeOK
  <2>2. meta' \in [Keys -> Meta \cup {None}]
    BY <1>1, <1>3 DEF Move, TypeOK
  <2> QED BY <1>3, <2>1, <2>2 DEF Move, TypeOK
<1> QED BY <1>2, <1>3 DEF Move

\* Every state a sequence of storage calls reaches is well typed.
THEOREM TypeCorrect == Spec => []TypeOK
<1>1. Init => TypeOK
  BY DEF Init, TypeOK
<1>2. TypeOK /\ [Next]_vars => TypeOK'
  <2> SUFFICES ASSUME TypeOK, [Next]_vars PROVE TypeOK'
    OBVIOUS
  <2>1. CASE UNCHANGED vars
    BY <2>1 DEF vars, TypeOK
  <2> QED BY <2>1, CreateType, DeleteType, UpdateReferenceType, UpdateBlobType, MoveType
          DEF Next
<1> QED BY <1>1, <1>2, PTL DEF Spec

------------------------------------------------------------------------------
(* Blobs, metadata and references stay together.  ReferencedArtifactKept is  *)
(* not inductive: Move takes a blob away without looking at references, and  *)
(* only keeps the invariant because staged keys never carry any.             *)

StagingUnreferenced == \A k \in StagingKeys, r \in Refs : metaref[k][r] = None

StorageInv == /\ TypeOK
              /\ MetaHasBlob
              /\ ReferencedArtifactKept
              /\ StagingUnreferenced

\* ReferencedArtifactKept, reference by reference.
LEMMA KeptByName ==
    ReferencedArtifactKept <=>
        \A k \in Keys, r \in Refs : metaref[k][r] # None => blob[k] # None
  BY DEF ReferencedArtifactKept, listMetaRefFiles

\* A call that loses no blob, adds no metadata to a key without one, and adds
\* references only to an unstaged key that has a blob, preserves the invariant.
LEMMA GrowingStep ==
    ASSUME StorageInv, TypeOK',
           \A k \in Keys : blob[k] # None => blob'[k] # None,
           \A k \in Keys : meta'[k] # None => meta[k] # None \/ blob'[k] # None,
           \A k \in Keys, r \in Refs : metaref'[k][r] # None =>
               metaref[k][r] # None \/ (k \notin StagingKeys /\ blob'[k] # None)
    PROVE  StorageInv'
<1>1. MetaHasBlob'
  BY DEF StorageInv, MetaHasBlob
<1>2. \A k \in Keys, r \in Refs : metaref'[k][r] # None => blob'[k] # None
  BY KeptByName DEF StorageInv
<1>3. ReferencedArtifactKept'
  BY <1>2 DEF ReferencedArtifactKept, listMetaRefFiles
<1>4. StagingUnreferenced'
  BY DEF StorageInv, StagingUnreferenced, Keys
<1> QED BY <1>1, <1>3, <1>4 DEF StorageInv

\* A create adds its own reference to its own key, and no other.
LEMMA AddedReferences ==
    ASSUME TypeOK, NEW k \in Keys, NEW id, HasReference(id) => id.ref \in Refs,
           NEW tags, AddReferences(id, k, tags)
    PROVE  \A x \in Keys, r \in Refs : metaref'[x][r] # None =>
               metaref[x][r] # None \/ (x = k /\ HasReference(id))
  BY DEF AddReferences, createOrUpdateMetaRefFile, TypeOK

\* Every way a create can end keeps the invariant: references come after the blob.
LEMMA CreateKeeps ==
    ASSUME StorageInv, NEW c \in Creations, NEW tags \in Tags,
           NEW data \in Payloads \cup {None}, NEW size,
           CreateArtifact(c.id, tags, data, size, c.mh)
    PROVE  StorageInv'
<1> DEFINE k == CreateHash(c.id, c.mh)
<1>0. TypeOK'
  BY CreateType DEF StorageInv
<1>1. CASE UNCHANGED files
  <2>1. /\ \A x \in Keys : blob[x] # None => blob'[x] # None
        /\ \A x \in Keys : meta'[x] # None => meta[x] # None
        /\ \A x \in Keys, r \in Refs : metaref'[x][r] # None => metaref[x][r] # None
    BY <1>1 DEF files
  <2> QED BY <1>0, <2>1, GrowingStep
<1>2. CASE CreateOnExisting(c.id, tags, size, c.mh) /\ ~UNCHANGED files
  <2>1. /\ k \in Keys
        /\ HasReference(c.id) => c.id.ref \in Refs /\ k \notin StagingKeys
    BY <1>2, CreatedKey DEF CreateOnExisting
  <2>2. AddReferences(c.id, k, tags) /\ blob[k] # None /\ UNCHANGED <<blob, meta>>
    BY <1>2 DEF CreateOnExisting, Refused
  <2>3. \A x \in Keys, r \in Refs : metaref'[x][r] # None =>
            metaref[x][r] # None \/ (x = k /\ HasReference(c.id))
    BY <2>1, <2>2, AddedReferences DEF StorageInv
  <2>4. \A x \in Keys, r \in Refs : metaref'[x][r] # None =>
            metaref[x][r] # None \/ (x \notin StagingKeys /\ blob'[x] # None)
    BY <2>1, <2>2, <2>3
  <2> QED BY <1>0, <2>2, <2>4, GrowingStep
<1>3. CASE CreateNew(c.id, tags, data, c.mh)
  <2>1. /\ k \in Keys
        /\ HasReference(c.id) => c.id.ref \in Refs /\ k \notin StagingKeys
    BY <1>3, CreatedKey DEF CreateNew
  <2>2. \A x \in Keys, r \in Refs : metaref'[x][r] # None =>
            metaref[x][r] # None \/ (x = k /\ HasReference(c.id))
    BY <1>3, <2>1, AddedReferences DEF CreateNew, StorageInv
  <2>3. blob'[k] # None /\ \A x \in Keys : blob[x] # None => blob'[x] # None
    BY <1>3, <2>1 DEF CreateNew, StorageInv, TypeOK
  <2>4. \A x \in Keys : meta'[x] # None => meta[x] # None \/ x = k
    BY <1>3, <2>1 DEF CreateNew, StorageInv, TypeOK
  <2>5. \A x \in Keys, r \in Refs : metaref'[x][r] # None =>
            metaref[x][r] # None \/ (x \notin StagingKeys /\ blob'[x] # None)
    BY <2>1, <2>2, <2>3
  <2>6. \A x \in Keys : meta'[x] # None => meta[x] # None \/ blob'[x] # None
    BY <2>3, <2>4
  <2> QED BY <1>0, <2>3, <2>5, <2>6, GrowingStep
<1>4. CASE CreateTorn(c.id, data, c.mh)
  <2>1. k \in Keys
    BY <1>4, CreatedKey DEF CreateTorn
  <2>2. \A x \in Keys : x # k => blob'[x] = blob[x]
    BY <1>4, <2>1 DEF CreateTorn, StorageInv, TypeOK
  <2>3. \A x \in Keys : blob[x] # None => blob'[x] # None
    BY <1>4, <2>2 DEF CreateTorn
  <2> QED BY <1>0, <1>4, <2>3, GrowingStep DEF CreateTorn
<1> QED
  BY <1>1, <1>2, <1>3, <1>4 DEF CreateArtifact, CreateInvalid, Refused

\* After DeleteArtifact took the blob of a key, none of its files remain.
LEMMA TrashClears ==
    ASSUME TypeOK, NEW k \in Keys, moveToTrash(k)
    PROVE  /\ blob'[k] = None /\ meta'[k] = None
           /\ \A x \in Keys : x # k => blob'[x] = blob[x] /\ meta'[x] = meta[x]
           /\ \A r \in Refs : metaref'[k][r] = None
           /\ \A x \in Keys, r \in Refs : metaref'[x][r] # None => metaref'[x][r] = metaref[x][r]
<1>1. /\ blob'[k] = None /\ meta'[k] = None
      /\ \A x \in Keys : x # k => blob'[x] = blob[x] /\ meta'[x] = meta[x]
  BY DEF moveToTrash, TrashFiles, TrashMetaRefs, TypeOK
<1>2. CASE metaref' = WithoutMetaRefs(k, Refs)
  BY <1>1, <1>2 DEF WithoutMetaRefs, TypeOK
<1>3. CASE metaref' = [x \in Keys |-> IF ShardOf[x] = ShardOf[k]
                                     THEN [r \in Refs |-> None] ELSE metaref[x]]
  BY <1>1, <1>3 DEF TypeOK
<1> QED BY <1>2, <1>3 DEF moveToTrash, TrashFiles, TrashMetaRefs

\* A deletion takes the files only when no reference is left.
LEMMA DeleteKeeps ==
    ASSUME StorageInv, NEW id \in Identifiers, DeleteArtifact(id)
    PROVE  StorageInv'
<1> DEFINE k == resolveIdentifier(id)
           dropped == DroppedRefs(id, k)
<1>0. TypeOK'
  BY DeleteType DEF StorageInv
<1>1. CASE UNCHANGED files
  <2>1. /\ \A x \in Keys : blob[x] # None => blob'[x] # None
        /\ \A x \in Keys : meta'[x] # None => meta[x] # None
        /\ \A x \in Keys, r \in Refs : metaref'[x][r] # None => metaref[x][r] # None
    BY <1>1 DEF files
  <2> QED BY <1>0, <2>1, GrowingStep
<1>2. CASE Deletable(id) /\ moveToTrash(k)
  <2>1. k \in Keys
    BY <1>2, StoredKey DEF Deletable, StorageInv
  <2>2. /\ blob'[k] = None /\ meta'[k] = None
        /\ \A x \in Keys : x # k => blob'[x] = blob[x] /\ meta'[x] = meta[x]
        /\ \A r \in Refs : metaref'[k][r] = None
        /\ \A x \in Keys, r \in Refs : metaref'[x][r] # None => metaref'[x][r] = metaref[x][r]
    BY <1>2, <2>1, TrashClears DEF StorageInv
  <2>3. MetaHasBlob'
    BY <2>2 DEF MetaHasBlob, StorageInv
  <2>4. \A x \in Keys, r \in Refs : metaref'[x][r] # None => blob'[x] # None
    BY <2>2, KeptByName DEF StorageInv
  <2>5. ReferencedArtifactKept'
    BY <2>4 DEF ReferencedArtifactKept, listMetaRefFiles
  <2>6. StagingUnreferenced'
    BY <2>2 DEF StagingUnreferenced, StorageInv, Keys
  <2> QED BY <1>0, <2>3, <2>5, <2>6 DEF StorageInv
<1>3. CASE Deletable(id) /\ metaref' = WithoutMetaRefs(k, dropped)
           /\ UNCHANGED <<blob, meta>>
  <2>1. \A x \in Keys, r \in Refs : metaref'[x][r] # None => metaref[x][r] # None
    BY <1>3, StoredKey DEF Deletable, WithoutMetaRefs, StorageInv, TypeOK
  <2> QED BY <1>0, <1>3, <2>1, GrowingStep
<1> QED BY <1>1, <1>2, <1>3 DEF DeleteArtifact, Refused

\* UpdateReference rewrites a reference that is there and adds none.
LEMMA UpdateReferenceKeeps ==
    ASSUME StorageInv, NEW k \in Keys, NEW r \in Refs, NEW tags \in Tags,
           UpdateReference(k, r, tags)
    PROVE  StorageInv'
<1>1. TypeOK'
  BY UpdateReferenceType DEF StorageInv
<1>2. UNCHANGED <<blob, meta>>
  BY DEF UpdateReference, Refused, files
<1>3. \A x \in Keys, q \in Refs : metaref'[x][q] # None => metaref[x][q] # None
  BY DEF UpdateReference, Refused, files, createOrUpdateMetaRefFile, StorageInv, TypeOK
<1> QED BY <1>1, <1>2, <1>3, GrowingStep

\* An update leaves a blob a blob.
LEMMA UpdateBlobKeeps ==
    ASSUME StorageInv, NEW id \in Identifiers, NEW p \in Patches, UpdateBlob(id, p)
    PROVE  StorageInv'
<1> DEFINE k == resolveIdentifier(id)
<1>1. TypeOK'
  BY UpdateBlobType DEF StorageInv
<1>2. UNCHANGED <<meta, metaref>>
  BY DEF UpdateBlob, Refused, files
<1>3. \A x \in Keys : blob[x] # None => blob'[x] # None
  <2>1. CASE UNCHANGED blob
    BY <2>1
  <2>2. CASE Stored(k) /\ blob' = [blob EXCEPT ![k] = Overwrite(blob[k], p.offset, Copied(p))]
    <3>1. Overwrite(blob[k], p.offset, Copied(p)) # None
      BY <2>2, StoredKey, CopiedType, OverwriteType, NoneAssumption DEF StorageInv
    <3> QED BY <2>2, <3>1 DEF StorageInv, TypeOK
  <2> QED BY <2>1, <2>2 DEF UpdateBlob, Refused, files
<1> QED BY <1>1, <1>2, <1>3, GrowingStep

\* A move takes a blob from a staging key, which has no references.
LEMMA MoveKeeps ==
    ASSUME StorageInv, NEW src \in StagingKeys, NEW dest \in ContentKeys, Move(src, dest)
    PROVE  StorageInv'
<1>0. TypeOK' /\ src \in Keys /\ dest \in Keys
  BY MoveType DEF StorageInv, Keys
<1>1. CASE UNCHANGED files
  <2>1. /\ \A x \in Keys : blob[x] # None => blob'[x] # None
        /\ \A x \in Keys : meta'[x] # None => meta[x] # None
        /\ \A x \in Keys, r \in Refs : metaref'[x][r] # None => metaref[x][r] # None
    BY <1>1 DEF files
  <2> QED BY <1>0, <2>1, GrowingStep
<1>2. CASE blob[src] # None /\ ~UNCHANGED files
  <2>1. src # dest
    BY KeysAssumption
  <2>2. /\ blob'[dest] # None /\ UNCHANGED metaref
        /\ \A x \in Keys : x # src /\ x # dest => blob'[x] = blob[x]
    BY <1>0, <1>2, <2>1 DEF Move, Refused, StorageInv, TypeOK
  <2>3. meta'[src] = None /\ \A x \in Keys : x # src /\ x # dest => meta'[x] = meta[x]
    BY <1>0, <1>2, <2>1 DEF Move, Refused, StorageInv, TypeOK
  <2>4. MetaHasBlob'
    BY <2>2, <2>3 DEF MetaHasBlob, StorageInv
  <2>5. \A r \in Refs : metaref'[src][r] = None
    BY <2>2 DEF StorageInv, StagingUnreferenced
  <2>6. \A x \in Keys, r \in Refs : metaref'[x][r] # None => blob'[x] # None
    BY <2>2, <2>5, KeptByName DEF StorageInv
  <2>7. ReferencedArtifactKept'
    BY <2>6 DEF ReferencedArtifactKept, listMetaRefFiles
  <2>8. StagingUnreferenced'
    BY <2>2 DEF StorageInv, StagingUnreferenced
  <2> QED BY <1>0, <2>4, <2>7, <2>8 DEF StorageInv
<1> QED BY <1>1, <1>2 DEF Move, Refused

\* The invariant of the storage.
LEMMA StorageInvariant == Spec => []StorageInv
<1>1. Init => StorageInv
  BY DEF Init, StorageInv, TypeOK, MetaHasBlob, ReferencedArtifactKept, listMetaRefFiles,
         StagingUnreferenced, Keys
<1>2. StorageInv /\ [Next]_vars => StorageInv'
  <2> SUFFICES ASSUME StorageInv, [Next]_vars PROVE StorageInv'
    OBVIOUS
  <2>1. CASE UNCHANGED vars
    BY <2>1 DEF vars, StorageInv, TypeOK, MetaHasBlob, ReferencedArtifactKept,
                listMetaRefFiles, StagingUnreferenced
  <2> QED BY <2>1, CreateKeeps, DeleteKeeps, UpdateReferenceKeeps, UpdateBlobKeeps, MoveKeeps
          DEF Next
<1> QED BY <1>1, <1>2, PTL DEF Spec

\* Metadata never outlives its blob, in every history of calls, torn writes and
\* panics included.
THEOREM MetadataHasBlob == Spec => []MetaHasBlob
BY StorageInvariant, PTL DEF StorageInv

\* An artifact is neither trashed nor moved away while a reference lists it.
THEOREM ReferencedKept == Spec => []ReferencedArtifactKept
BY StorageInvariant, PTL DEF StorageInv

------------------------------------------------------------------------------
(* Nothing stored is destroyed. *)

\* A key loses its blob to the trash, or to the published key Move gave it.
LEMMA StepLosesNothing ==
    ASSUME TypeOK, [Next]_vars, NEW k \in Keys, blob[k] # None, blob'[k] = None
    PROVE  trashBlob'[k] = blob[k] \/ \E dest \in ContentKeys : blob'[dest] = blob[k]
<1>1. CASE UNCHANGED blob
  BY <1>1
<1>2. ASSUME NEW c \in Creations, NEW tags \in Tags, NEW data \in Payloads \cup {None},
             NEW size, CreateArtifact(c.id, tags, data, size, c.mh), blob' # blob
      PROVE  FALSE
  <2>1. CASE CreateNew(c.id, tags, data, c.mh)
    BY <1>2, <2>1, CreatedKey DEF CreateNew, TypeOK
  <2>2. CASE CreateTorn(c.id, data, c.mh)
    BY <1>2, <2>2, CreatedKey DEF CreateTorn, TypeOK
  <2> QED BY <1>2, <2>1, <2>2
          DEF CreateArtifact, CreateInvalid, CreateOnExisting, Refused, files
<1>3. ASSUME NEW id \in Identifiers, DeleteArtifact(id), blob' # blob
      PROVE  trashBlob'[k] = blob[k]
  <2>1. Deletable(id) /\ moveToTrash(resolveIdentifier(id))
    BY <1>3 DEF DeleteArtifact, Refused, files
  <2>2. resolveIdentifier(id) \in Keys
    BY <2>1, StoredKey DEF Deletable
  <2>3. k = resolveIdentifier(id)
    BY <2>1, <2>2, TrashClears
  <2> QED BY <2>1, <2>3 DEF moveToTrash, TrashFiles, TrashMetaRefs, TypeOK
<1>4. ASSUME NEW id \in Identifiers, NEW p \in Patches, UpdateBlob(id, p), blob' # blob
      PROVE  FALSE
  <2> DEFINE j == resolveIdentifier(id)
  <2>1. Stored(j) /\ blob' = [blob EXCEPT ![j] = Overwrite(blob[j], p.offset, Copied(p))]
    BY <1>4 DEF UpdateBlob, Refused, files
  <2>2. j \in Keys /\ Overwrite(blob[j], p.offset, Copied(p)) # None
    BY <2>1, StoredKey, CopiedType, OverwriteType, NoneAssumption
  <2> QED BY <2>1, <2>2 DEF TypeOK
<1>5. ASSUME NEW src \in StagingKeys, NEW dest \in ContentKeys, Move(src, dest), blob' # blob
      PROVE  blob'[dest] = blob[k]
  <2>1. src \in Keys /\ dest \in Keys /\ src # dest
    BY KeysAssumption DEF Keys
  <2>2. blob[src] # None /\ blob' = [blob EXCEPT ![dest] = blob[src], ![src] = None]
    BY <1>5 DEF Move, Refused, files
  <2>3. k = src
    BY <2>1, <2>2 DEF TypeOK
  <2> QED BY <2>1, <2>2, <2>3 DEF TypeOK
<1>6. ASSUME NEW r \in Refs, NEW tags \in Tags, NEW j \in Keys, UpdateReference(j, r, tags)
      PROVE  blob' = blob
  BY <1>6 DEF UpdateReference, Refused, files
<1>7. [Next]_vars => \/ UNCHANGED blob
                     \/ Next
  BY DEF vars
<1> QED BY <1>1, <1>2, <1>3, <1>4, <1>5, <1>6, <1>7 DEF Next

\* No call destroys stored bytes.
THEOREM NothingLost == Spec => NoDataLost
<1>1. TypeOK /\ [Next]_vars =>
        [\A k \in Keys : blob[k] # None /\ blob'[k] = None =>
           trashBlob'[k] = blob[k] \/ \E dest \in ContentKeys : blob'[dest] = blob[k]]_vars
  BY StepLosesNothing
<1> QED BY <1>1, TypeCorrect, PTL DEF Spec, NoDataLost

------------------------------------------------------------------------------
(* Every name that resolves is listed by its artifact, where deletion cannot *)
(* sweep a shard (one artifact per shard) and tags are within their limits.  *)

OwnShards == \A j, k \in Keys : ShardOf[j] = ShardOf[k] => j = k
LookupInv == TypeOK /\ LookupBacked

\* A step that drops no listed reference and redirects no lookup.
LEMMA LookupStable ==
    ASSUME LookupInv, TypeOK', UNCHANGED ref,
           \A k \in Keys, r \in Refs : metaref[k][r] # None => metaref'[k][r] # None
    PROVE  LookupInv'
BY DEF LookupInv, LookupBacked, TypeOK

\* A create writes the lookup and the list of its reference, or neither.
LEMMA AddReferencesBacked ==
    ASSUME LookupInv, OversizeTags = {}, TypeOK', NEW k \in Keys, NEW id,
           HasReference(id) => id.ref \in Refs, NEW tags \in Tags,
           AddReferences(id, k, tags)
    PROVE  LookupInv'
<1>1. tags \in ValidTags /\ tags # None
  BY NoneAssumption DEF Tags
<1>2. CASE HasReference(id)
  <2>1. /\ id.ref \in Refs
        /\ ref' = [ref EXCEPT ![id.ref] = k]
        /\ metaref' = [metaref EXCEPT ![k][id.ref] = tags]
    BY <1>1, <1>2 DEF AddReferences, createOrUpdateRef, createOrUpdateMetaRefFile
  <2>2. ASSUME NEW r \in Refs, ref'[r] # None
        PROVE  metaref'[ref'[r]][r] # None
    <3>1. CASE r = id.ref
      BY <1>1, <2>1, <3>1 DEF LookupInv, TypeOK
    <3>2. CASE r # id.ref
      <4>1. ref'[r] = ref[r] /\ ref[r] \in Keys
        BY <2>1, <2>2, <3>2 DEF LookupInv, TypeOK
      <4>2. metaref'[ref[r]][r] = metaref[ref[r]][r]
        BY <2>1, <3>2, <4>1 DEF LookupInv, TypeOK
      <4> QED BY <2>2, <4>1, <4>2 DEF LookupInv, LookupBacked
    <3> QED BY <3>1, <3>2
  <2> QED BY <2>2 DEF LookupInv, LookupBacked
<1>3. CASE ~HasReference(id)
  BY <1>3 DEF AddReferences, LookupInv, LookupBacked
<1> QED BY <1>2, <1>3

\* Every way a create can end keeps lookups backed.
LEMMA CreateBacked ==
    ASSUME LookupInv, OversizeTags = {}, NEW c \in Creations, NEW tags \in Tags,
           NEW data \in Payloads \cup {None}, NEW size,
           CreateArtifact(c.id, tags, data, size, c.mh)
    PROVE  LookupInv'
<1> DEFINE k == CreateHash(c.id, c.mh)
<1>0. TypeOK'
  BY CreateType DEF LookupInv
<1>1. CASE UNCHANGED <<ref, metaref>>
  BY <1>0, <1>1, LookupStable
<1>2. CASE ValidCreate(c.id, c.mh) /\ AddReferences(c.id, k, tags)
  BY <1>0, <1>2, CreatedKey, AddReferencesBacked
<1> QED BY <1>1, <1>2 DEF CreateArtifact, CreateInvalid, CreateOnExisting, CreateNew,
                          CreateTorn, Refused, files

\* A deletion removes the lookups of what it drops from the list.
LEMMA DeleteBacked ==
    ASSUME LookupInv, OwnShards, NEW id \in Identifiers, DeleteArtifact(id)
    PROVE  LookupInv'
<1> DEFINE k == resolveIdentifier(id)
           dropped == DroppedRefs(id, k)
<1>0. TypeOK'
  BY DeleteType DEF LookupInv
<1>1. CASE UNCHANGED files
  BY <1>0, <1>1, LookupStable DEF files
<1>2. CASE ~UNCHANGED files
  <2>1. k \in Keys /\ deleteRef(dropped)
    BY <1>2, StoredKey DEF DeleteArtifact, Refused, Deletable, LookupInv
  <2>2. \A x \in Keys : x # k => metaref'[x] = metaref[x]
    <3>1. CASE moveToTrash(k)
      BY <2>1, <3>1 DEF moveToTrash, TrashFiles, TrashMetaRefs, WithoutMetaRefs, OwnShards, LookupInv, TypeOK
    <3>2. CASE metaref' = WithoutMetaRefs(k, dropped)
      BY <2>1, <3>2 DEF WithoutMetaRefs, LookupInv, TypeOK
    <3> QED BY <1>2, <3>1, <3>2 DEF DeleteArtifact, Refused
  <2>3. \A r \in Refs : r \notin dropped /\ metaref[k][r] # None => metaref'[k][r] # None
    <3>1. CASE listMetaRefFiles(k) \subseteq dropped
      BY <3>1 DEF listMetaRefFiles
    <3>2. CASE metaref' = WithoutMetaRefs(k, dropped)
      BY <2>1, <3>2 DEF WithoutMetaRefs, LookupInv, TypeOK
    <3> QED BY <1>2, <3>1, <3>2 DEF Unreferenced, DeleteArtifact, Refused
  <2>4. ASSUME NEW r \in Refs, ref'[r] # None
        PROVE  metaref'[ref'[r]][r] # None
    <3>1. r \notin dropped /\ ref'[r] = ref[r] /\ ref[r] \in Keys
      BY <2>1, <2>4 DEF deleteRef, LookupInv, TypeOK
    <3>2. metaref[ref[r]][r] # None
      BY <2>4, <3>1 DEF LookupInv, LookupBacked
    <3> QED BY <2>2, <2>3, <3>1, <3>2
  <2> QED BY <1>0, <2>4 DEF LookupInv, LookupBacked
<1> QED BY <1>1, <1>2

\* UpdateReference keeps lookups backed.
LEMMA UpdateReferenceBacked ==
    ASSUME LookupInv, NEW k \in Keys, NEW r \in Refs, NEW tags \in Tags,
           UpdateReference(k, r, tags)
    PROVE  LookupInv'
<1>1. TypeOK' /\ UNCHANGED ref
  BY UpdateReferenceType DEF LookupInv, UpdateReference, Refused, files
<1>2. \A x \in Keys, q \in Refs : metaref[x][q] # None => metaref'[x][q] # None
  BY NoneAssumption
     DEF Tags, UpdateReference, Refused, files, createOrUpdateMetaRefFile, LookupInv, TypeOK
<1> QED BY <1>1, <1>2, LookupStable

\* A name that resolves leads to an artifact that lists it.
THEOREM LookupsBacked ==
    ASSUME OwnShards, OversizeTags = {}
    PROVE  Spec => []LookupBacked
<1>1. Init => LookupInv
  BY DEF Init, LookupInv, TypeOK, LookupBacked
<1>2. LookupInv /\ [Next]_vars => LookupInv'
  <2> SUFFICES ASSUME LookupInv, [Next]_vars PROVE LookupInv'
    OBVIOUS
  <2>1. CASE UNCHANGED vars
    BY <2>1 DEF vars, LookupInv, TypeOK, LookupBacked
  <2>2. ASSUME NEW id \in Identifiers, NEW p \in Patches, UpdateBlob(id, p)
        PROVE  LookupInv'
    BY <2>2, UpdateBlobType, LookupStable DEF UpdateBlob, Refused, files, LookupInv
  <2>3. ASSUME NEW src \in StagingKeys, NEW dest \in ContentKeys, Move(src, dest)
        PROVE  LookupInv'
    BY <2>3, MoveType, LookupStable DEF Move, Refused, files, LookupInv
  <2> QED BY <2>1, <2>2, <2>3, CreateBacked, DeleteBacked, UpdateReferenceBacked DEF Next
<1>3. LookupInv => LookupBacked
  BY DEF LookupInv
<1> QED BY <1>1, <1>2, <1>3, PTL DEF Spec

\* Where every artifact has a shard of its own, a deletion leaves the references of the
\* others alone: that artifacts share the directory it renames is all that is wrong.
THEOREM DeletesOnlyItsOwn == ASSUME OwnShards PROVE Spec => DeleteKeepsOtherArtifacts
<1>1. ASSUME TypeOK, NEW id \in Identifiers, DeleteArtifact(id),
             NEW k \in Keys, k # resolveIdentifier(id)
      PROVE  metaref'[k] = metaref[k]
  <2> DEFINE at == resolveIdentifier(id)
  <2>1. CASE UNCHANGED files
    BY <2>1 DEF files
  <2>2. CASE ~UNCHANGED files
    <3>1. at \in Keys
      BY <1>1, <2>2, StoredKey DEF DeleteArtifact, Refused, Deletable
    <3>2. CASE moveToTrash(at)
      BY <1>1, <3>1, <3>2
         DEF moveToTrash, TrashMetaRefs, WithoutMetaRefs, OwnShards, TypeOK
    <3>3. CASE metaref' = WithoutMetaRefs(at, DroppedRefs(id, at))
      BY <1>1, <3>1, <3>3 DEF WithoutMetaRefs, TypeOK
    <3> QED BY <1>1, <2>2, <3>2, <3>3 DEF DeleteArtifact, Refused
  <2> QED BY <2>1, <2>2
<1>2. TypeOK /\ [Next]_vars =>
        [\A id \in Identifiers : DeleteArtifact(id) =>
            \A k \in Keys : k # resolveIdentifier(id) => metaref'[k] = metaref[k]]_vars
  BY <1>1
<1> QED BY <1>2, TypeCorrect, PTL DEF Spec, DeleteKeepsOtherArtifacts

------------------------------------------------------------------------------
(* ReadBlob's ranges.  Two ends of a part make the same part if they are equal or *)
(* neither is past its beginning.                                                *)

\* How long a part of a sequence is, and that one which ends before it begins is empty.
LEMMA PartLength ==
    ASSUME NEW b \in Seq(Byte), NEW from \in Nat, NEW end \in Int, end <= Len(b)
    PROVE  /\ end <= from => SubSeq(b, from + 1, end) = << >>
           /\ from <= end => Len(SubSeq(b, from + 1, end)) = end - from
  OBVIOUS

\* The lengths that ReadRange tells apart, with the end of the part that it reads:
\* to the end of the file, as many bytes as asked, or none.
LEMMA RangeExact ==
    ASSUME NEW b \in Seq(Byte), Len(b) <= MaxInt, NEW offset \in Int64, NEW length \in Int64
    PROVE  LET actual == ReadRange(Len(b), offset, length)
               stream == SectionReader(b, actual.offset, actual.length)
           IN  /\ stream = Asked(b, offset, length)
               /\ offset + length <= MaxInt => actual.length = Len(stream)
<1> DEFINE size == Len(b)
           from == IF offset < 0 THEN 0 ELSE offset
           upto == IF length = -1 \/ Wrap(from + length) > size THEN size - from ELSE length
           n == IF upto < 0 THEN 0 ELSE upto
           end == IF from > MaxInt - n THEN size ELSE Least(from + n, size)
           wanted == IF length = -1 THEN size ELSE Least(from + length, size)
<1>1. MaxInt \in Nat /\ size \in Nat /\ size <= MaxInt /\ offset \in Int /\ length \in Int
      /\ length <= MaxInt /\ from \in Nat /\ from <= MaxInt
  BY DataAssumption DEF Int64
<1>2. Wrap(from + length) =
        IF from + length > MaxInt THEN from + length - 2 * (MaxInt + 1) ELSE from + length
  <2> HIDE DEF from, upto, n, end, wanted
  <2> QED BY <1>1 DEF Wrap
<1>3. n \in Nat /\ end \in Int /\ end <= size /\ wanted \in Int /\ wanted <= size
  <2> HIDE DEF from
  <2> QED BY <1>1, <1>2 DEF Least
<1>4. /\ end = wanted \/ (end <= from /\ wanted <= from)
      /\ offset + length <= MaxInt => n = IF end <= from THEN 0 ELSE end - from
  <2>1. offset + length <= MaxInt => from + length <= MaxInt
    BY <1>1
  <2> HIDE DEF from
  <2> SUFFICES /\ end = wanted \/ (end <= from /\ wanted <= from)
               /\ from + length <= MaxInt => n = IF end <= from THEN 0 ELSE end - from
    BY <2>1, <1>1
  <2>2. CASE length = -1
    BY <2>2, <1>1 DEF Least
  <2>3. CASE length >= 0 /\ from + length <= MaxInt
    BY <2>3, <1>1, <1>2 DEF Least
  <2>4. CASE length >= 0 /\ from + length > MaxInt
    BY <2>4, <1>1, <1>2 DEF Least
  <2>5. CASE length < -1
    BY <2>5, <1>1, <1>2 DEF Least
  <2> QED BY <2>2, <2>3, <2>4, <2>5, <1>1
<1>5. ReadRange(size, offset, length) = [offset |-> from, length |-> n]
  BY DEF ReadRange
<1>6. SectionReader(b, from, n) = SubSeq(b, from + 1, end)
  BY DEF SectionReader
<1>7. Asked(b, offset, length) = SubSeq(b, from + 1, wanted)
  BY DEF Asked
<1> HIDE DEF from, n, end, wanted, size
<1>8. SubSeq(b, from + 1, end) = SubSeq(b, from + 1, wanted)
  <2>1. CASE end = wanted
    BY <2>1
  <2>2. CASE end <= from /\ wanted <= from
    BY <2>2, <1>1, <1>3, PartLength DEF size
  <2> QED BY <2>1, <2>2, <1>4
<1>9. Len(SubSeq(b, from + 1, end)) = IF end <= from THEN 0 ELSE end - from
  <2>1. CASE end <= from
    <3>1. SubSeq(b, from + 1, end) = << >>
      BY <2>1, <1>1, <1>3, PartLength DEF size
    <3> QED BY <3>1, <2>1
  <2>2. CASE ~(end <= from)
    BY <2>2, <1>1, <1>3, PartLength DEF size
  <2> QED BY <2>1, <2>2
<1> DEFINE actual == ReadRange(size, offset, length)
<1>10. actual.offset = from /\ actual.length = n
  BY <1>5
<1>11. SectionReader(b, actual.offset, actual.length) = SubSeq(b, from + 1, end)
  BY <1>6, <1>10
<1> HIDE DEF actual
<1>12. /\ SectionReader(b, actual.offset, actual.length) = Asked(b, offset, length)
       /\ offset + length <= MaxInt =>
            actual.length = Len(SectionReader(b, actual.offset, actual.length))
  BY <1>4, <1>7, <1>8, <1>9, <1>10, <1>11
<1> QED BY <1>12, Zenon DEF actual, size

\* In every reachable state ReadBlob streams what was asked for, with the length it
\* reports.  TypeOK is all that the ranges need.
THEOREM RangesExact == Spec => []ReadExact
<1>1. TypeOK => ReadExact
  <2> SUFFICES ASSUME TypeOK, NEW k \in Keys, NEW offset \in Int64, NEW length \in Int64,
                      blob[k] # None, Len(blob[k]) <= MaxInt
               PROVE  LET got == ReadBlob([hash |-> k, ref |-> None], offset, length)
                      IN  /\ got.stream = Asked(blob[k], offset, length)
                          /\ offset + length <= MaxInt => got.range.length = Len(got.stream)
    BY DEF ReadExact
  <2>1. blob[k] \in Seq(Byte)
    BY DEF TypeOK
  <2>2. resolveIdentifier([hash |-> k, ref |-> None]) = k
    BY NoneAssumption DEF resolveIdentifier, HasHash
  <2>3. ReadBlob([hash |-> k, ref |-> None], offset, length) =
          LET actual == ReadRange(Len(blob[k]), offset, length)
          IN  [range |-> actual, stream |-> SectionReader(blob[k], actual.offset, actual.length)]
    BY <2>2 DEF ReadBlob
  <2> QED BY <2>1, <2>3, RangeExact
<1> QED BY <1>1, TypeCorrect, PTL

------------------------------------------------------------------------------
(* Metadata gives the length of the blob.  Two kinds of call would break that:   *)
(* UpdateBlob on an artifact with metadata, which no registry calls, and Move of *)
(* what a torn upload left, which has no metadata, onto an artifact that has some *)
(* and another length.  Callers of Move compute the digest of the source first   *)
(* and make it the destination's key: what is there has the same bytes.          *)

LengthKept ==
    /\ \A id \in Identifiers, p \in Patches :
          UpdateBlob(id, p) => blob' = blob \/ meta[resolveIdentifier(id)] = None
    /\ \A src \in StagingKeys, dest \in ContentKeys :
          Move(src, dest) => \/ blob' = blob
                             \/ meta[src] # None \/ meta[dest] = None
                             \/ meta[dest].length = Len(blob[src])

LengthSpec == Init /\ [][Next /\ LengthKept]_vars

\* MetaLengthExact says nothing of metadata without a blob: MetaHasBlob rules that
\* out before a torn upload puts bytes under the key.
LengthInv == TypeOK /\ MetaHasBlob /\ MetaLengthExact

\* A call after which every key has the blob and metadata it had, or no metadata, or
\* metadata that fits its blob.
LEMMA LengthStep ==
    ASSUME LengthInv, TypeOK', MetaHasBlob',
           \A k \in Keys :
               \/ meta'[k] = None
               \/ meta'[k] = meta[k] /\ blob'[k] = blob[k]
               \/ meta'[k].length = Len(blob'[k])
    PROVE  LengthInv'
BY DEF LengthInv, MetaHasBlob, MetaLengthExact

\* A create measures what it wrote, or writes no metadata.
LEMMA CreateLength ==
    ASSUME LengthInv, StorageInv, StorageInv',
           NEW c \in Creations, NEW tags \in Tags,
           NEW data \in Payloads \cup {None}, NEW size,
           CreateArtifact(c.id, tags, data, size, c.mh)
    PROVE  LengthInv'
<1> DEFINE k == CreateHash(c.id, c.mh)
<1>0. TypeOK' /\ MetaHasBlob'
  BY DEF StorageInv
<1>1. CASE UNCHANGED <<blob, meta>>
  BY <1>0, <1>1, LengthStep
<1>2. CASE CreateNew(c.id, tags, data, c.mh)
  <2>1. /\ k \in Keys
        /\ blob' = [blob EXCEPT ![k] = data]
        /\ meta' = [meta EXCEPT ![k] = [hash |-> k, length |-> Len(data)]]
    BY <1>2, CreatedKey DEF CreateNew
  <2>2. blob'[k] = data /\ meta'[k].length = Len(data)
    BY <2>1 DEF LengthInv, TypeOK
  <2>3. \A x \in Keys : x # k => blob'[x] = blob[x] /\ meta'[x] = meta[x]
    BY <2>1 DEF LengthInv, TypeOK
  <2> QED BY <1>0, <2>2, <2>3, LengthStep
<1>3. CASE CreateTorn(c.id, data, c.mh)
  <2>1. k \in Keys /\ blob[k] = None /\ UNCHANGED meta
    BY <1>3, CreatedKey DEF CreateTorn
  <2>2. meta'[k] = None
    BY <2>1 DEF LengthInv, MetaHasBlob
  <2>3. \A x \in Keys : x # k => blob'[x] = blob[x]
    BY <1>3, <2>1 DEF CreateTorn, LengthInv, TypeOK
  <2> QED BY <1>0, <2>1, <2>2, <2>3, LengthStep
<1> QED BY <1>1, <1>2, <1>3 DEF CreateArtifact, CreateInvalid, CreateOnExisting, Refused, files

\* A deletion trashes both or neither.
LEMMA DeleteLength ==
    ASSUME LengthInv, StorageInv, StorageInv', NEW id \in Identifiers, DeleteArtifact(id)
    PROVE  LengthInv'
<1> DEFINE k == resolveIdentifier(id)
<1>0. TypeOK' /\ MetaHasBlob'
  BY DEF StorageInv
<1>1. CASE UNCHANGED <<blob, meta>>
  BY <1>0, <1>1, LengthStep
<1>2. CASE Deletable(id) /\ moveToTrash(k)
  <2>1. k \in Keys
    BY <1>2, StoredKey DEF Deletable, LengthInv
  <2>2. meta'[k] = None /\ \A x \in Keys : x # k => blob'[x] = blob[x] /\ meta'[x] = meta[x]
    BY <1>2, <2>1 DEF moveToTrash, TrashFiles, LengthInv, TypeOK
  <2> QED BY <1>0, <2>2, LengthStep
<1> QED BY <1>1, <1>2 DEF DeleteArtifact, Refused, files

\* An update touches no length on record.
LEMMA UpdateBlobLength ==
    ASSUME LengthInv, StorageInv, StorageInv', LengthKept,
           NEW id \in Identifiers, NEW p \in Patches, UpdateBlob(id, p)
    PROVE  LengthInv'
<1> DEFINE k == resolveIdentifier(id)
<1>0. TypeOK' /\ MetaHasBlob' /\ UNCHANGED meta
  BY DEF StorageInv, UpdateBlob, Refused, files
<1>1. CASE UNCHANGED blob
  BY <1>0, <1>1, LengthStep
<1>2. CASE ~UNCHANGED blob
  <2>1. /\ Stored(k) /\ meta[k] = None
        /\ blob' = [blob EXCEPT ![k] = Overwrite(blob[k], p.offset, Copied(p))]
    BY <1>2 DEF UpdateBlob, Refused, files, LengthKept
  <2>2. k \in Keys /\ \A x \in Keys : x # k => blob'[x] = blob[x]
    BY <2>1, StoredKey DEF LengthInv, TypeOK
  <2> QED BY <1>0, <2>1, <2>2, LengthStep
<1> QED BY <1>1, <1>2

\* A move brings the length along with the blob, or finds one that fits, or none.
LEMMA MoveLength ==
    ASSUME LengthInv, StorageInv, StorageInv', LengthKept,
           NEW src \in StagingKeys, NEW dest \in ContentKeys, Move(src, dest)
    PROVE  LengthInv'
<1>0. TypeOK' /\ MetaHasBlob' /\ src \in Keys /\ dest \in Keys /\ src # dest
  BY KeysAssumption DEF StorageInv, Keys
<1>1. CASE UNCHANGED files
  BY <1>0, <1>1, LengthStep DEF files
<1>2. CASE blob[src] # None /\ ~UNCHANGED files
  <2>1. /\ blob'[src] = None /\ blob'[dest] = blob[src]
        /\ \A x \in Keys : x # src /\ x # dest => blob'[x] = blob[x] /\ meta'[x] = meta[x]
    BY <1>0, <1>2 DEF Move, Refused, LengthInv, TypeOK
  <2>2. meta'[src] = None
    BY <1>0, <2>1 DEF MetaHasBlob
  <2>3. meta'[dest] = None \/ meta'[dest].length = Len(blob'[dest])
    <3>1. CASE meta[src] # None
      <4>1. meta'[dest] = meta[src]
        BY <1>0, <1>2, <3>1 DEF Move, Refused, LengthInv, TypeOK
      <4>2. meta[src].length = Len(blob[src])
        BY <1>0, <1>2, <3>1 DEF LengthInv, MetaLengthExact
      <4> QED BY <2>1, <4>1, <4>2
    <3>2. CASE meta[src] = None
      <4>1. UNCHANGED meta
        BY <1>2, <3>2 DEF Move, Refused
      <4>2. blob' # blob
        BY <1>0, <1>2, <2>1
      <4> QED BY <2>1, <3>2, <4>1, <4>2 DEF LengthKept
    <3> QED BY <3>1, <3>2
  <2> QED BY <1>0, <2>1, <2>2, <2>3, LengthStep
<1> QED BY <1>1, <1>2 DEF Move, Refused

\* Calls that keep lengths keep them right: creations that tear, are repeated or
\* panic, deletions and moves in any order.
THEOREM LengthsKept == LengthSpec => []MetaLengthExact
<1>1. Init => LengthInv
  BY DEF Init, LengthInv, TypeOK, MetaHasBlob, MetaLengthExact
<1>2. LengthInv /\ StorageInv /\ StorageInv' /\ [Next /\ LengthKept]_vars => LengthInv'
  <2> SUFFICES ASSUME LengthInv, StorageInv, StorageInv', [Next /\ LengthKept]_vars
               PROVE  LengthInv'
    OBVIOUS
  <2>1. CASE UNCHANGED vars
    BY <2>1 DEF vars, LengthInv, TypeOK, MetaHasBlob, MetaLengthExact
  <2>2. ASSUME NEW k \in Keys, NEW r \in Refs, NEW tags \in Tags, UpdateReference(k, r, tags)
        PROVE  LengthInv'
    <3>1. UNCHANGED <<blob, meta>>
      BY <2>2 DEF UpdateReference, Refused, files
    <3> QED BY <3>1, LengthStep DEF StorageInv
  <2> QED BY <2>1, <2>2, CreateLength, DeleteLength, UpdateBlobLength, MoveLength DEF Next
<1>3. LengthSpec => Spec
  BY PTL DEF LengthSpec, Spec
<1>4. LengthInv => MetaLengthExact
  BY DEF LengthInv
<1> QED BY <1>1, <1>2, <1>3, <1>4, StorageInvariant, PTL DEF LengthSpec

\* In particular where uploads are written in place and never updated, every history
\* keeps the length that repeated uploads are validated against.
THEOREM LengthsExact ==
    ASSUME StagingKeys = {}, Patches = {}
    PROVE  Spec => []MetaLengthExact
<1>1. LengthKept
  BY DEF LengthKept
<1>2. Spec => LengthSpec
  BY <1>1, PTL DEF Spec, LengthSpec
<1> QED BY <1>2, LengthsKept, PTL

==============================================================================
