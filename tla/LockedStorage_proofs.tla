------------------------- MODULE LockedStorage_proofs -------------------------
(* What the locks give each other's calls, for any number of calls, artifacts  *)
(* and references.                                                             *)
EXTENDS LockedStorage, TLAPS

(***************************************************************************)
(* ConsistentWhenUnlocked is not inductive: it has to be known how far the *)
(* call that holds the lock of an artifact has got with the files of it,   *)
(* that this call is still at work and the only one, and that the lock it  *)
(* chose is the one of the artifact it works on.                           *)
(***************************************************************************)

\* References lead to artifacts they may be created for.
Bound == \A r \in Names : lookup[r] # None => <<r, lookup[r]>> \in Binds

\* The lock a waiting call chose is the one it needs, as long as names stay.
KeyChosen(p) ==
    pc[p] = "lock" => IF call[p].byName /\ call[p].op # "create"
                      THEN <<call[p].name, key[p]>> \in Binds ELSE key[p] = call[p].hash

\* What a call at label l was asked to do with artifact k.
Asks(c, l, k) ==
    /\ l \in {"stat", "existing", "create", "copy", "meta", "metawrite", "link"} =>
          c.op = "create" /\ k = c.hash
    /\ l \in {"link", "refcreate", "refwrite", "getoldref", "readref"} => c.name \in Names

\* How far a call that has the lock to itself, at label l, has got with the files of
\* artifact k: what it has left to put right before it ends.
HalfWay == {"metawrite", "refcreate", "refwrite", "trashmeta"}
Progress(l, k, n) ==
    /\ l \notin HalfWay => Consistent(k)
    /\ l \in {"existing", "copy", "meta", "metawrite", "link", "refcreate", "refwrite",
              "copyupdate", "drop", "trashblob"} => blob[k] # "absent"
    /\ l = "create" => blob[k] = "absent"
    /\ l \in {"create", "copy", "meta", "metawrite"} => \A r \in Names : lookup[r] # k
    /\ l = "metawrite" => \A r \in Names : metaref[k][r] # "torn"
    /\ l \in {"refcreate", "refwrite"} =>
          /\ meta[k] # "torn"
          /\ \A r \in Names \ {n} : /\ metaref[k][r] # "torn"
                                    /\ lookup[r] = k => metaref[k][r] # "absent"
    /\ l = "refwrite" => metaref[k][n] # "absent"
    /\ l \in {"trashblob", "trashmeta", "trashrefs"} =>
          \A r \in Names : metaref[k][r] = "absent" /\ lookup[r] # k
    /\ l = "trashmeta" => meta[k] # "torn"

AtWork(p) ==
    /\ Asks(call[p], pc[p], at[p])
    /\ pc[p] \in MutatorLabels => writer[at[p]] = p /\ Progress(pc[p], at[p], call[p].name)
    /\ pc[p] \in ReaderLabels => p \in readers[at[p]]

LockHeld(k) ==
    /\ writer[k] # None => /\ at[writer[k]] = k
                           /\ pc[writer[k]] \in MutatorLabels
                           /\ readers[k] = {}
    /\ writer[k] = None => Consistent(k)

Inv ==
    /\ TypeOK /\ Bound
    /\ \A p \in Calls : KeyChosen(p) /\ AtWork(p)
    /\ \A k \in Hashes : LockHeld(k)
    /\ NothingGarbled

------------------------------------------------------------------------------
(* Types *)

\* What a request holds.
LEMMA RequestFields ==
    ASSUME NEW c \in Requests
    PROVE  /\ c.op \in {"create", "update", "delete", "updateref", "read", "getmeta", "getref"}
           /\ c.hash \in Hashes \cup {None} /\ c.name \in Names \cup {None}
           /\ c.byName \in BOOLEAN
           /\ c.op = "create" => c.hash \in Hashes
           /\ c.op = "create" /\ c.name # None => <<c.name, c.hash>> \in Binds
           /\ c.op # "create" /\ c.byName => c.name \in Looked
           /\ ~c.byName => c.hash \in Hashes
           /\ c.op \in {"updateref", "getref"} => c.name \in Names /\ ~c.byName
<1> USE SetsAssumption
<1>1. CASE c \in Creations
  BY <1>1 DEF Creations
<1>2. CASE c \in OnBlob
  BY <1>2 DEF OnBlob
<1>3. CASE c \in Deletions
  BY <1>3 DEF Deletions
<1>4. CASE c \in OnReference
  BY <1>4 DEF OnReference
<1>5. CASE c \in ByName
  BY <1>5 DEF ByName
<1> QED BY <1>1, <1>2, <1>3, <1>4, <1>5 DEF Requests

\* None is none of the things it stands in for.
LEMMA Distinct == None \notin Calls /\ None \notin Hashes /\ None \notin Names
  BY NoneAssumption

\* What an identifier leads to, if anything, is an artifact.
LEMMA Resolved ==
    ASSUME TypeOK, NEW p \in Calls
    PROVE  Resolve(call[p]) \in Hashes \cup {None}
<1>1. call[p] \in Requests
  BY DEF TypeOK
<1>2. call[p].byName /\ call[p].op # "create" => call[p].name \in Names
  BY <1>1, RequestFields, SetsAssumption
<1> QED BY <1>1, <1>2, RequestFields DEF Resolve, TypeOK

\* The first step of an operation is one of the kind its lock is for.
LEMMA EntryLabel ==
    ASSUME NEW c \in Requests
    PROVE  /\ c.op \in {"create", "update", "delete", "updateref"} =>
                 Entry(c.op) \in {"stat", "openupdate", "check", "getoldref"}
           /\ c.op \notin {"create", "update", "delete", "updateref"} =>
                 Entry(c.op) \in ReaderLabels
           /\ Entry(c.op) \in MutatorLabels \cup ReaderLabels
BY RequestFields DEF Entry, MutatorLabels, ReaderLabels

\* The initial states are of the right types.
LEMMA InitType == Init => TypeOK
BY Distinct DEF Init, TypeOK, File, Label, Ended, MutatorLabels, ReaderLabels

\* Moving on inside a call.
LEMMA ContinueType ==
    ASSUME TypeOK, NEW p \in Calls, NEW l \in MutatorLabels \cup ReaderLabels,
           pc[p] \in MutatorLabels \cup ReaderLabels, Continue(p, l),
           blob' \in [Hashes -> File], meta' \in [Hashes -> File],
           metaref' \in [Hashes -> [Names -> File]],
           lookup' \in [Names -> Hashes \cup {None}]
    PROVE  TypeOK'
BY DEF Continue, Goto, locks, TypeOK, Label, MutatorLabels, ReaderLabels

\* Ending a call.
LEMMA EndType ==
    ASSUME TypeOK, NEW p \in Calls, NEW how \in Ended, End(p, how),
           blob' \in [Hashes -> File], meta' \in [Hashes -> File],
           metaref' \in [Hashes -> [Names -> File]],
           lookup' \in [Names -> Hashes \cup {None}]
    PROVE  TypeOK'
<1>1. pc' \in [Calls -> Label] /\ pc'[p] = how /\ \A q \in Calls \ {p} : pc'[q] = pc[q]
  BY DEF End, Goto, TypeOK, Label
<1>2. at' \in [Calls -> Hashes \cup {None}] /\ \A q \in Calls \ {p} : at'[q] = at[q]
  BY DEF End, TypeOK
<1>3. /\ dropping' \in [Calls -> SUBSET Names]
      /\ writer' \in [Hashes -> Calls \cup {None}]
      /\ readers' \in [Hashes -> SUBSET Calls]
      /\ UNCHANGED <<call, key>>
  BY DEF End, TypeOK
<1>4. how # "lock" /\ how \notin MutatorLabels \cup ReaderLabels
  BY DEF Ended, MutatorLabels, ReaderLabels
<1> QED BY <1>1, <1>2, <1>3, <1>4 DEF TypeOK

\* A list of reference files stays one when a file is set, or filled.
LEMMA MetaRefType ==
    ASSUME TypeOK, NEW k \in Hashes, NEW n
    PROVE  /\ \A f \in File : [metaref EXCEPT ![k][n] = f] \in [Hashes -> [Names -> File]]
           /\ [metaref EXCEPT ![k] = Fill(@, n)] \in [Hashes -> [Names -> File]]
<1>1. metaref[k] \in [Names -> File]
  BY DEF TypeOK
<1>2. ASSUME NEW f \in File
      PROVE  [metaref EXCEPT ![k][n] = f] \in [Hashes -> [Names -> File]]
  <2>1. [metaref[k] EXCEPT ![n] = f] \in [Names -> File]
    BY <1>1
  <2> QED BY <2>1 DEF TypeOK
<1>3. Fill(metaref[k], n) \in [Names -> File]
  BY <1>1 DEF Fill, File
<1> QED BY <1>2, <1>3 DEF TypeOK

\* Choosing and taking a lock, and giving up on it.
LEMMA LockingType ==
    ASSUME TypeOK, NEW p \in Calls, resolveLockHash(p) \/ acquireLock(p) \/ LockTimeout(p)
    PROVE  TypeOK'
<1>0. Resolve(call[p]) \in Hashes \cup {None} /\ call[p] \in Requests
  BY Resolved DEF TypeOK
<1>1. CASE resolveLockHash(p)
  BY <1>0, <1>1 DEF resolveLockHash, At, Goto, TypeOK, Label, Ended, MutatorLabels,
     ReaderLabels, store, locks
<1>2. CASE acquireLock(p)
  <2>0. pc[p] = "lock" /\ key[p] \in Hashes
    BY <1>2 DEF acquireLock, At, TypeOK
  <2>1. CASE Resolve(call[p]) # None
    <3>1. Goto(p, Entry(call[p].op)) /\ at' = [at EXCEPT ![p] = Resolve(call[p])]
      BY <1>2, <2>1 DEF acquireLock
    <3>2. Entry(call[p].op) \in MutatorLabels \cup ReaderLabels
      BY <1>0, EntryLabel
    <3>3. /\ pc' \in [Calls -> Label] /\ at' \in [Calls -> Hashes \cup {None}]
          /\ \A q \in Calls : /\ pc'[q] = "lock" => pc[q] = "lock"
                              /\ pc'[q] \in MutatorLabels \cup ReaderLabels => at'[q] # None
      <4> DEFINE l == Entry(call[p].op)
                 k == Resolve(call[p])
      <4>1. pc' = [pc EXCEPT ![p] = l] /\ l \in Label /\ l # "lock"
        BY <3>1, <3>2 DEF Goto, Label, MutatorLabels, ReaderLabels
      <4>2. at' = [at EXCEPT ![p] = k] /\ k \in Hashes \cup {None} /\ k # None
        BY <1>0, <2>1, <3>1
      <4> HIDE DEF l, k
      <4>3. pc' \in [Calls -> Label] /\ at' \in [Calls -> Hashes \cup {None}]
        BY <4>1, <4>2 DEF TypeOK
      <4>4. ASSUME NEW x \in Calls
            PROVE  /\ pc'[x] = "lock" => pc[x] = "lock"
                   /\ pc'[x] \in MutatorLabels \cup ReaderLabels => at'[x] # None
        <5>1. CASE x = p
          BY <4>1, <4>2, <5>1 DEF TypeOK
        <5>2. CASE x # p
          BY <4>1, <4>2, <5>2 DEF TypeOK
        <5> QED BY <5>1, <5>2
      <4> QED BY <4>3, <4>4
    <3>4. writer' \in [Hashes -> Calls \cup {None}] /\ readers' \in [Hashes -> SUBSET Calls]
      <4>1. CASE Exclusive(p)
        <5>1. writer' = [writer EXCEPT ![key[p]] = p] /\ UNCHANGED readers
          BY <1>2, <2>1, <4>1 DEF acquireLock
        <5>2. writer' \in [Hashes -> Calls \cup {None}]
          BY <5>1, <2>0 DEF TypeOK
        <5> QED BY <5>1, <5>2 DEF TypeOK
      <4>2. CASE ~Exclusive(p)
        <5>1. UNCHANGED writer /\ readers' = [readers EXCEPT ![key[p]] = @ \cup {p}]
          BY <1>2, <2>1, <4>2 DEF acquireLock
        <5>2. readers' \in [Hashes -> SUBSET Calls]
          BY <5>1, <2>0 DEF TypeOK
        <5> QED BY <5>1, <5>2 DEF TypeOK
      <4> QED BY <4>1, <4>2
    <3>5. UNCHANGED <<call, key, dropping, store>>
      BY <1>2 DEF acquireLock
    <3> QED BY <3>3, <3>4, <3>5 DEF TypeOK, store
  <2>2. CASE Resolve(call[p]) = None
    BY <1>2, <2>2 DEF acquireLock, Goto, TypeOK, Label, Ended, MutatorLabels, ReaderLabels,
       store, locks
  <2> QED BY <2>1, <2>2
<1>3. CASE LockTimeout(p)
  BY <1>3 DEF LockTimeout, Goto, TypeOK, Label, Ended, MutatorLabels, ReaderLabels, store, locks
<1> QED BY <1>1, <1>2, <1>3

\* The steps that do not change a file, all but the choice of what a deletion drops.
LEMMA ReadingType ==
    ASSUME TypeOK, NEW p \in Calls,
           \/ StatBlob(p) \/ ExistingArtifact(p) \/ FindReference(p) \/ ListRemaining(p)
           \/ Reads(p)
    PROVE  TypeOK'
<1>1. UNCHANGED store
  BY DEF StatBlob, ExistingArtifact, FindReference, ListRemaining, Reads, OpenBlob, CloseStream,
     GetMeta, GetReference
<1>2. /\ blob' \in [Hashes -> File] /\ meta' \in [Hashes -> File]
      /\ metaref' \in [Hashes -> [Names -> File]]
      /\ lookup' \in [Names -> Hashes \cup {None}]
  BY <1>1 DEF store, TypeOK
<1>3. pc[p] \in MutatorLabels \cup ReaderLabels
  BY DEF StatBlob, ExistingArtifact, FindReference, ListRemaining, Reads, OpenBlob, CloseStream,
     GetMeta, GetReference, At, MutatorLabels, ReaderLabels
<1>4. \/ \E l \in MutatorLabels \cup ReaderLabels : Continue(p, l)
      \/ \E how \in Ended : End(p, how)
  <2>1. \A f : Decoded(f) \in Ended
    BY DEF Decoded, Ended
  <2>2. /\ {"create", "existing", "link", "refcreate", "trashblob", "stream"}
              \subseteq MutatorLabels \cup ReaderLabels
        /\ {"done", "failed", "garbled"} \subseteq Ended
    BY DEF MutatorLabels, ReaderLabels, Ended
  <2>3. CASE StatBlob(p)
    BY <2>2, <2>3 DEF StatBlob
  <2>4. CASE ExistingArtifact(p)
    BY <2>2, <2>4 DEF ExistingArtifact
  <2>5. CASE FindReference(p)
    BY <2>2, <2>5 DEF FindReference
  <2>6. CASE ListRemaining(p)
    BY <2>2, <2>6 DEF ListRemaining
  <2>7. CASE Reads(p)
    BY <2>1, <2>2, <2>7 DEF Reads, OpenBlob, CloseStream, GetMeta, GetReference
  <2> QED BY <2>3, <2>4, <2>5, <2>6, <2>7
<1> QED BY <1>2, <1>3, <1>4, ContinueType, EndType

\* The steps that change one, with what they go on to.
LEMMA WritingType ==
    ASSUME TypeOK, NEW p \in Calls,
           \/ CreateBlob(p) \/ CopyBlob(p) \/ CreateMeta(p) \/ WriteMeta(p)
           \/ createOrUpdateRef(p) \/ CreateMetaRef(p) \/ WriteMetaRef(p)
           \/ OpenForUpdate(p) \/ CopyUpdate(p)
           \/ TrashBlob(p) \/ TrashMeta(p) \/ TrashMetaRefs(p)
    PROVE  TypeOK'
<1>1. pc[p] \in MutatorLabels
  BY DEF CreateBlob, CopyBlob, CreateMeta, WriteMeta, createOrUpdateRef, CreateMetaRef,
     WriteMetaRef, OpenForUpdate, CopyUpdate, TrashBlob, TrashMeta, TrashMetaRefs, At, MutatorLabels
<1>2. at[p] \in Hashes
  BY <1>1 DEF TypeOK
<1>3. /\ {"copy", "meta", "metawrite", "link", "refcreate", "refwrite", "copyupdate",
          "trashmeta", "trashrefs"} \subseteq MutatorLabels
      /\ {"done", "failed"} \subseteq Ended
      /\ {"absent", "torn"} \subseteq File
  BY DEF MutatorLabels, Ended, File
<1>4. /\ blob' \in [Hashes -> File] /\ meta' \in [Hashes -> File]
      /\ metaref' \in [Hashes -> [Names -> File]]
      /\ lookup' \in [Names -> Hashes \cup {None}]
  <2>1. blob' \in [Hashes -> File]
    <3>1. \/ blob' = blob \/ blob' = Fill(blob, at[p])
          \/ \E f \in File : blob' = [blob EXCEPT ![at[p]] = f]
      BY <1>3 DEF CreateBlob, CopyBlob, CreateMeta, WriteMeta, createOrUpdateRef, CreateMetaRef,
       WriteMetaRef, OpenForUpdate, CopyUpdate, TrashBlob, TrashMeta, TrashMetaRefs
    <3> QED BY <1>2, <3>1 DEF TypeOK, Fill, File
  <2>2. meta' \in [Hashes -> File]
    <3>1. \/ meta' = meta \/ meta' = Fill(meta, at[p])
          \/ \E f \in File : meta' = [meta EXCEPT ![at[p]] = f]
      BY <1>3 DEF CreateBlob, CopyBlob, CreateMeta, WriteMeta, createOrUpdateRef, CreateMetaRef,
       WriteMetaRef, OpenForUpdate, CopyUpdate, TrashBlob, TrashMeta, TrashMetaRefs
    <3> QED BY <1>2, <3>1 DEF TypeOK, Fill, File
  <2>3. lookup' \in [Names -> Hashes \cup {None}]
    <3>1. lookup' = lookup \/ lookup' = [lookup EXCEPT ![call[p].name] = at[p]]
      BY DEF CreateBlob, CopyBlob, CreateMeta, WriteMeta, createOrUpdateRef, CreateMetaRef,
       WriteMetaRef, OpenForUpdate, CopyUpdate, TrashBlob, TrashMeta, TrashMetaRefs
    <3> QED BY <1>2, <3>1 DEF TypeOK
  <2>4. metaref' \in [Hashes -> [Names -> File]]
    <3>1. \/ metaref' = metaref
          \/ metaref' = [metaref EXCEPT ![at[p]][call[p].name] = "torn"]
          \/ metaref' = [metaref EXCEPT ![at[p]] = Fill(@, call[p].name)]
          \/ metaref' = [metaref EXCEPT ![at[p]] = [r \in Names |-> "absent"]]
      BY DEF CreateBlob, CopyBlob, CreateMeta, WriteMeta, createOrUpdateRef, CreateMetaRef,
       WriteMetaRef, OpenForUpdate, CopyUpdate, TrashBlob, TrashMeta, TrashMetaRefs
    <3>2. CASE metaref' = [metaref EXCEPT ![at[p]][call[p].name] = "torn"]
      BY <1>2, <1>3, <3>2, MetaRefType
    <3>3. CASE metaref' = [metaref EXCEPT ![at[p]] = Fill(@, call[p].name)]
      BY <1>2, <3>3, MetaRefType
    <3>4. CASE metaref' = [metaref EXCEPT ![at[p]] = [r \in Names |-> "absent"]]
      BY <1>3, <3>4 DEF TypeOK
    <3> QED BY <3>1, <3>2, <3>3, <3>4 DEF TypeOK
  <2> QED BY <2>1, <2>2, <2>3, <2>4
<1>5. \/ \E l \in MutatorLabels \cup ReaderLabels : Continue(p, l)
      \/ \E how \in Ended : End(p, how)
  BY <1>3 DEF CreateBlob, CopyBlob, CreateMeta, WriteMeta, createOrUpdateRef, CreateMetaRef,
     WriteMetaRef, OpenForUpdate, CopyUpdate, TrashBlob, TrashMeta, TrashMetaRefs
<1> QED BY <1>1, <1>4, <1>5, ContinueType, EndType

\* Each step keeps every variable in its type.
LEMMA StepType ==
    ASSUME TypeOK, [Next]_vars
    PROVE  TypeOK'
<1>1. CASE UNCHANGED vars
  BY <1>1 DEF vars, TypeOK
<1>2. ASSUME NEW p \in Calls, CheckDeletion(p) PROVE TypeOK'
  <2>0. /\ pc[p] = "check" /\ at[p] \in Hashes /\ UNCHANGED store
        /\ "drop" \in MutatorLabels /\ {"failed", "garbled"} \subseteq Ended
    BY <1>2 DEF CheckDeletion, At, TypeOK, MutatorLabels, Ended
  <2>1. CASE \E how \in Ended : End(p, how)
    BY <2>0, <2>1, EndType DEF store, TypeOK
  <2>2. CASE /\ Goto(p, "drop") /\ UNCHANGED <<call, key, at, locks>>
             /\ dropping' = [dropping EXCEPT ![p] = IF call[p].name = None
                                THEN References(at[p]) ELSE {call[p].name}]
    <3>1. call[p].name \in Names \cup {None}
      BY RequestFields DEF TypeOK
    <3>2. dropping' \in [Calls -> SUBSET Names]
      BY <2>2, <3>1 DEF References, TypeOK
    <3> QED BY <2>0, <2>2, <3>2
            DEF Goto, store, locks, TypeOK, Label, MutatorLabels, ReaderLabels
  <2> QED BY <1>2, <2>0, <2>1, <2>2 DEF CheckDeletion
<1>3. ASSUME NEW p \in Calls, DropReference(p) PROVE TypeOK'
  <2>1. PICK r \in dropping[p] :
          /\ \/ UNCHANGED <<lookup, metaref>>
             \/ /\ lookup' = [lookup EXCEPT ![r] = None]
                /\ metaref' = [metaref EXCEPT ![at[p]][r] = "absent"]
          /\ dropping' = [dropping EXCEPT ![p] = @ \ {r}]
    BY <1>3 DEF DropReference
  <2>2. at[p] \in Hashes /\ "absent" \in File
    BY <1>3 DEF DropReference, At, TypeOK, MutatorLabels, File
  <2>3. /\ lookup' \in [Names -> Hashes \cup {None}]
        /\ metaref' \in [Hashes -> [Names -> File]]
    <3>1. CASE UNCHANGED <<lookup, metaref>>
      BY <3>1 DEF TypeOK
    <3>2. CASE /\ lookup' = [lookup EXCEPT ![r] = None]
               /\ metaref' = [metaref EXCEPT ![at[p]][r] = "absent"]
      <4>1. lookup' \in [Names -> Hashes \cup {None}]
        BY <3>2 DEF TypeOK
      <4>2. metaref' \in [Hashes -> [Names -> File]]
        BY <2>2, <3>2, MetaRefType
      <4> QED BY <4>1, <4>2
    <3> QED BY <2>1, <3>1, <3>2
  <2>4. dropping' \in [Calls -> SUBSET Names]
    BY <2>1 DEF TypeOK
  <2> QED BY <1>3, <2>3, <2>4 DEF DropReference, locks, TypeOK
<1> QED BY <1>1, <1>2, <1>3, LockingType, ReadingType, WritingType
        DEF Next, Proceed, Creates, Updates, Deletes, Quiet

\* The types of all variables, for any calls; no call works on an artifact that its
\* reference does not lead to.
THEOREM TypeCorrect == Spec => []TypeOK
<1>1. Init => TypeOK
  BY InitType
<1>2. TypeOK /\ [Next]_vars => TypeOK'
  BY StepType
<1> QED BY <1>1, <1>2, PTL DEF Spec

------------------------------------------------------------------------------
(* What a step of one call leaves to the others *)

\* A step touches the files of k alone, and leads no reference to another artifact.
Confined(k) ==
    \A j \in Hashes \ {k} :
        /\ blob'[j] = blob[j] /\ meta'[j] = meta[j] /\ metaref'[j] = metaref[j]
        /\ \A r \in Names : lookup'[r] = j => lookup[r] = j

\* An artifact whose files a step does not touch is as consistent as it was.
LEMMA ElsewhereConsistent ==
    ASSUME NEW k \in Hashes, NEW j \in Hashes \ {k}, Confined(k), Consistent(j)
    PROVE  Consistent(j)'
BY DEF Confined, Consistent

\* A call that works elsewhere is as far as it was.
LEMMA ElsewhereProgress ==
    ASSUME NEW k \in Hashes, NEW q \in Calls, at[q] \in Hashes \ {k}, Confined(k),
           pc'[q] = pc[q], at'[q] = at[q], call' = call,
           Progress(pc[q], at[q], call[q].name)
    PROVE  Progress(pc[q], at[q], call[q].name)'
<1> DEFINE j == at[q]
<1>1. /\ blob'[j] = blob[j] /\ meta'[j] = meta[j] /\ metaref'[j] = metaref[j]
      /\ \A r \in Names : lookup'[r] = j => lookup[r] = j
  BY DEF Confined
<1>2. Consistent(at[q]) => Consistent(at[q])'
  BY <1>1 DEF Consistent
<1> QED BY <1>1, <1>2 DEF Progress

\* The calls at work have an artifact, and those that change one have it alone.
LEMMA Apart ==
    ASSUME Inv, NEW p \in Calls, NEW q \in Calls, p # q, pc[p] \in MutatorLabels,
           pc[q] \in MutatorLabels \cup ReaderLabels
    PROVE  at[q] # at[p]
<1>1. /\ at[p] \in Hashes /\ writer[at[p]] = p /\ LockHeld(at[p])
      /\ pc[q] \in MutatorLabels => writer[at[q]] = q
      /\ pc[q] \in ReaderLabels => q \in readers[at[q]]
  BY DEF Inv, TypeOK, AtWork
<1> QED BY <1>1, Distinct DEF LockHeld

\* A call that has a lock to itself takes a step.
LEMMA WorkStep ==
    ASSUME Inv, TypeOK', Bound', NEW p \in Calls, NEW l \in MutatorLabels,
           pc[p] \in MutatorLabels, pc' = [pc EXCEPT ![p] = l],
           UNCHANGED <<call, key, at, locks>>, Confined(at[p]),
           Asks(call[p], l, at[p]), Progress(l, at[p], call[p].name)'
    PROVE  Inv'
<1>1. /\ pc'[p] = l /\ \A q \in Calls \ {p} : pc'[q] = pc[q]
      /\ at[p] \in Hashes /\ writer[at[p]] = p
      /\ UNCHANGED <<writer, readers>>
  BY DEF Inv, TypeOK, AtWork, locks
<1>2. ASSUME NEW q \in Calls PROVE KeyChosen(q)'
  BY <1>1 DEF Inv, KeyChosen, MutatorLabels
<1>3. ASSUME NEW q \in Calls PROVE AtWork(q)'
  <2>1. CASE q = p
    BY <1>1, <2>1 DEF AtWork, MutatorLabels, ReaderLabels
  <2>2. CASE q # p
    <3>1. AtWork(q) /\ pc'[q] = pc[q]
      BY <1>1, <2>2 DEF Inv
    <3>2. pc[q] \in MutatorLabels => Progress(pc[q], at[q], call[q].name)'
      <4>1. SUFFICES ASSUME pc[q] \in MutatorLabels
                     PROVE  Progress(pc[q], at[q], call[q].name)'
        OBVIOUS
      <4>2. at[q] \in Hashes \ {at[p]}
        BY <2>2, <4>1, Apart DEF Inv, TypeOK
      <4> QED BY <1>1, <3>1, <4>1, <4>2, ElsewhereProgress DEF AtWork
    <3> QED BY <1>1, <3>1, <3>2 DEF AtWork, Asks
  <2> QED BY <2>1, <2>2
<1>4. ASSUME NEW k \in Hashes PROVE LockHeld(k)'
  <2>1. LockHeld(k) /\ (writer[k] # None => writer[k] \in Calls)
    BY DEF Inv, TypeOK
  <2>2. CASE writer[k] = None
    <3>1. k # at[p]
      BY <1>1, <2>2, Distinct
    <3> QED BY <1>1, <2>1, <2>2, <3>1, ElsewhereConsistent DEF LockHeld
  <2>3. CASE writer[k] # None
    BY <1>1, <2>1, <2>3 DEF LockHeld
  <2> QED BY <2>2, <2>3
<1>5. NothingGarbled'
  BY <1>1 DEF Inv, NothingGarbled, MutatorLabels
<1> QED BY <1>2, <1>3, <1>4, <1>5 DEF Inv

\* A call at work ends, and leaves its artifact consistent.
LEMMA EndStep ==
    ASSUME Inv, TypeOK', Bound', NEW p \in Calls, NEW how \in {"done", "failed"},
           NEW a \in Hashes, at[p] = a,
           pc[p] \in MutatorLabels \cup ReaderLabels, End(p, how),
           Confined(a), Consistent(a)', pc[p] \in ReaderLabels => UNCHANGED store
    PROVE  Inv'
<1>1. /\ pc'[p] = how /\ \A q \in Calls \ {p} : pc'[q] = pc[q] /\ at'[q] = at[q]
      /\ UNCHANGED <<call, key>>
      /\ \A k \in Hashes : /\ writer'[k] = IF writer[k] = p THEN None ELSE writer[k]
                           /\ readers'[k] = readers[k] \ {p}
  BY DEF Inv, TypeOK, End, Goto
<1>2. how \notin MutatorLabels \cup ReaderLabels /\ how \notin {"lock", "garbled"}
  BY DEF MutatorLabels, ReaderLabels
<1>3. ASSUME NEW q \in Calls PROVE KeyChosen(q)'
  BY <1>1, <1>2 DEF Inv, KeyChosen
<1>4. ASSUME NEW q \in Calls PROVE AtWork(q)'
  <2>1. CASE q = p
    BY <1>1, <1>2, <2>1 DEF AtWork, Asks, MutatorLabels, ReaderLabels
  <2>2. CASE q # p
    <3>1. AtWork(q) /\ pc'[q] = pc[q] /\ at'[q] = at[q]
      BY <1>1, <2>2 DEF Inv
    <3>2. pc[q] \in MutatorLabels => /\ at[q] \in Hashes \ {a}
                                     /\ writer'[at[q]] = q
      BY <1>1, <2>2, <3>1, Apart DEF Inv, TypeOK, AtWork
    <3>3. pc[q] \in ReaderLabels => q \in readers'[at[q]]
      BY <1>1, <2>2, <3>1 DEF Inv, TypeOK, AtWork
    <3>4. pc[q] \in MutatorLabels => Progress(pc[q], at[q], call[q].name)'
      BY <1>1, <3>1, <3>2, ElsewhereProgress DEF AtWork
    <3> QED BY <1>1, <3>1, <3>2, <3>3, <3>4 DEF AtWork, Asks
  <2> QED BY <2>1, <2>2
<1>5. ASSUME NEW k \in Hashes PROVE LockHeld(k)'
  <2>1. LockHeld(k) /\ (writer[k] # None => writer[k] \in Calls)
    BY DEF Inv, TypeOK
  <2>2. CASE k = a
    <3>1. writer[k] \in {p, None}
      <4>1. AtWork(p)
        BY DEF Inv
      <4>2. CASE pc[p] \in MutatorLabels
        BY <2>2, <4>1, <4>2 DEF AtWork
      <4>3. CASE pc[p] \in ReaderLabels
        BY <2>1, <2>2, <4>1, <4>3 DEF LockHeld, AtWork
      <4> QED BY <4>2, <4>3
    <3> QED BY <1>1, <2>2, <3>1 DEF LockHeld
  <2>3. CASE k # a
    <3>1. writer[k] # p
      BY <2>1, <2>3, Distinct DEF LockHeld
    <3>2. CASE writer[k] = None
      BY <1>1, <2>1, <2>3, <3>2, ElsewhereConsistent DEF LockHeld
    <3>3. CASE writer[k] # None
      BY <1>1, <2>1, <3>1, <3>3 DEF LockHeld
    <3> QED BY <3>2, <3>3
  <2> QED BY <2>2, <2>3
<1>6. NothingGarbled'
  BY <1>1, <1>2 DEF Inv, NothingGarbled
<1> QED BY <1>3, <1>4, <1>5, <1>6 DEF Inv

------------------------------------------------------------------------------
(* Choosing, taking and giving up on a lock *)

\* The artifact that a waiting call's identifier leads to is the one whose lock it
\* chose, as long as names stay.
LEMMA KeyResolved ==
    ASSUME NamesStay, Inv, NEW p \in Calls, pc[p] = "lock", Resolve(call[p]) # None
    PROVE  Resolve(call[p]) = key[p] /\ key[p] \in Hashes
<1>1. call[p] \in Requests /\ KeyChosen(p) /\ Bound /\ key[p] \in Hashes
  BY DEF Inv, TypeOK
<1>2. Resolve(call[p]) \in Hashes
  BY Resolved DEF Inv
<1>3. CASE call[p].byName /\ call[p].op # "create"
  <2>1. /\ call[p].name \in Looked /\ call[p].name \in Names
        /\ Resolve(call[p]) = lookup[call[p].name]
    BY <1>1, <1>3, RequestFields, SetsAssumption DEF Resolve
  <2>2. <<call[p].name, Resolve(call[p])>> \in Binds /\ <<call[p].name, key[p]>> \in Binds
    BY <1>1, <1>2, <1>3, <2>1, Distinct DEF Bound, KeyChosen
  <2> QED BY <1>1, <1>2, <2>1, <2>2 DEF NamesStay
<1>4. CASE ~(call[p].byName /\ call[p].op # "create")
  BY <1>1, <1>4 DEF Resolve, KeyChosen
<1> QED BY <1>1, <1>3, <1>4

\* A call that holds no lock changes its label, to one outside.
LEMMA OutsideStep ==
    ASSUME Inv, TypeOK', NEW p \in Calls, pc[p] \in {"idle", "lock"},
           NEW l \in {"lock", "failed"}, pc' = [pc EXCEPT ![p] = l],
           UNCHANGED <<call, at, store, locks>>,
           \A q \in Calls : KeyChosen(q)'
    PROVE  Inv'
<1>1. /\ pc'[p] = l /\ \A q \in Calls \ {p} : pc'[q] = pc[q]
      /\ UNCHANGED <<blob, meta, metaref, lookup, writer, readers>>
  BY DEF Inv, TypeOK, store, locks
<1>2. Bound' /\ NothingGarbled'
  BY <1>1 DEF Inv, Bound, NothingGarbled
<1>3. ASSUME NEW q \in Calls PROVE AtWork(q)'
  <2>1. CASE q = p
    BY <1>1, <2>1 DEF AtWork, Asks, MutatorLabels, ReaderLabels
  <2>2. CASE q # p
    <3>1. AtWork(q) /\ pc'[q] = pc[q]
      BY <1>1, <2>2 DEF Inv
    <3>2. Progress(pc[q], at[q], call[q].name) => Progress(pc[q], at[q], call[q].name)'
      BY <1>1, <3>1 DEF Progress, Consistent
    <3> QED BY <1>1, <3>1, <3>2 DEF AtWork, Asks
  <2> QED BY <2>1, <2>2
<1>4. ASSUME NEW k \in Hashes PROVE LockHeld(k)'
  <2>1. LockHeld(k) /\ (writer[k] # None => writer[k] \in Calls /\ writer[k] # p)
    BY DEF Inv, TypeOK, LockHeld, MutatorLabels
  <2> QED BY <1>1, <2>1 DEF LockHeld, Consistent
<1> QED BY <1>2, <1>3, <1>4 DEF Inv

\* A call chooses the lock of what its identifier leads to.
LEMMA ResolveStep ==
    ASSUME Inv, TypeOK', NEW p \in Calls, resolveLockHash(p)
    PROVE  Inv'
<1> DEFINE l == IF Resolve(call[p]) = None THEN "failed" ELSE "lock"
<1>1. /\ pc[p] = "idle" /\ pc' = [pc EXCEPT ![p] = l] /\ l \in {"lock", "failed"}
      /\ key' = [key EXCEPT ![p] = Resolve(call[p])]
      /\ UNCHANGED <<call, at, store, locks>>
  BY DEF resolveLockHash, At, Goto
<1>2. ASSUME NEW q \in Calls PROVE KeyChosen(q)'
  <2>1. CASE q # p
    BY <1>1, <2>1 DEF Inv, TypeOK, KeyChosen
  <2>2. CASE q = p /\ l = "lock"
    <3>1. call[p] \in Requests /\ Bound /\ key'[p] = Resolve(call[p]) /\ Resolve(call[p]) # None
      BY <1>1, <2>2 DEF Inv, TypeOK
    <3>2. call[p].byName /\ call[p].op # "create" => call[p].name \in Names
      BY <3>1, RequestFields, SetsAssumption
    <3> QED BY <1>1, <2>2, <3>1, <3>2 DEF KeyChosen, Resolve, Bound
  <2>3. CASE q = p /\ l = "failed"
    BY <1>1, <2>3 DEF Inv, TypeOK, KeyChosen
  <2> QED BY <1>1, <2>1, <2>2, <2>3
<1> HIDE DEF l
<1> QED BY <1>1, <1>2, OutsideStep

\* A call gives up on a lock, or finds that its reference leads nowhere any more.
LEMMA GiveUpStep ==
    ASSUME Inv, TypeOK', NEW p \in Calls, pc[p] = "lock", Goto(p, "failed"),
           UNCHANGED <<call, key, at, store, locks>>
    PROVE  Inv'
<1>1. pc' = [pc EXCEPT ![p] = "failed"]
  BY DEF Goto
<1>2. \A q \in Calls : KeyChosen(q)'
  BY <1>1 DEF Inv, TypeOK, KeyChosen
<1> QED BY <1>1, <1>2, OutsideStep

\* A call takes the lock of the artifact it works on, which it finds consistent.
LEMMA AcquireStep ==
    ASSUME NamesStay, Inv, TypeOK', NEW p \in Calls, acquireLock(p)
    PROVE  Inv'
<1>0. pc[p] = "lock" /\ call[p] \in Requests /\ UNCHANGED <<call, key, store>>
  BY DEF acquireLock, At, Inv, TypeOK
<1>1. CASE Resolve(call[p]) = None
  BY <1>0, <1>1, GiveUpStep DEF acquireLock, locks
<1>2. CASE Resolve(call[p]) # None
  <2> DEFINE k == key[p]
             l == Entry(call[p].op)
  <2>1. /\ k \in Hashes /\ Resolve(call[p]) = k
        /\ at' = [at EXCEPT ![p] = k] /\ pc' = [pc EXCEPT ![p] = l]
        /\ writer[k] = None /\ Consistent(k) /\ (Exclusive(p) => readers[k] = {})
        /\ IF Exclusive(p)
           THEN writer' = [writer EXCEPT ![k] = p] /\ UNCHANGED readers
           ELSE readers' = [readers EXCEPT ![k] = @ \cup {p}] /\ UNCHANGED writer
    BY <1>0, <1>2, KeyResolved DEF acquireLock, Goto, Free, Inv, LockHeld
  <2>2. /\ Exclusive(p) => l \in {"stat", "openupdate", "check", "getoldref"}
        /\ ~Exclusive(p) => l \in ReaderLabels
        /\ Exclusive(p) => l \in MutatorLabels /\ l \notin ReaderLabels
        /\ ~Exclusive(p) => l \notin MutatorLabels
        /\ l \notin {"lock", "garbled"}
    BY <1>0, EntryLabel DEF Exclusive, MutatorLabels, ReaderLabels
  <2>3. Asks(call[p], l, k)
    <3>1. /\ l = "stat" => call[p].op = "create"
          /\ l \in {"getoldref", "readref"} => call[p].op \in {"updateref", "getref"}
      BY <1>0, RequestFields DEF Entry
    <3>2. l \notin {"existing", "create", "copy", "meta", "metawrite", "link", "refcreate",
                    "refwrite"}
      BY <2>2 DEF ReaderLabels
    <3> QED BY <1>0, <2>1, <3>1, <3>2, RequestFields DEF Asks, Resolve
  <2> HIDE DEF l, k
  <2>4. /\ pc'[p] = l /\ at'[p] = k
        /\ \A q \in Calls \ {p} : pc'[q] = pc[q] /\ at'[q] = at[q]
        /\ UNCHANGED <<blob, meta, metaref, lookup>>
    BY <1>0, <2>1 DEF Inv, TypeOK, store
  <2>5. Bound' /\ NothingGarbled'
    BY <2>2, <2>4 DEF Inv, Bound, NothingGarbled
  <2>6. ASSUME NEW q \in Calls PROVE KeyChosen(q)' /\ AtWork(q)'
    <3>1. KeyChosen(q)'
      BY <1>0, <2>2, <2>4 DEF Inv, KeyChosen
    <3>2. CASE q = p /\ Exclusive(p)
      <4>1. writer'[k] = p
        BY <2>1, <3>2 DEF Inv, TypeOK
      <4>2. Progress(l, k, call[p].name)
        BY <2>1, <2>2, <3>2 DEF Progress, HalfWay
      <4>3. Progress(pc[p], at[p], call[p].name)'
        BY <1>0, <2>4, <4>2 DEF Progress, Consistent
      <4> QED BY <1>0, <2>2, <2>3, <2>4, <3>1, <3>2, <4>1, <4>3 DEF AtWork, Asks
    <3>3. CASE q = p /\ ~Exclusive(p)
      <4>1. q \in readers'[k]
        BY <2>1, <3>3 DEF Inv, TypeOK
      <4> QED BY <1>0, <2>2, <2>3, <2>4, <3>1, <3>3, <4>1 DEF AtWork, Asks
    <3>4. CASE q # p
      <4>1. AtWork(q) /\ pc'[q] = pc[q] /\ at'[q] = at[q]
        BY <2>4, <3>4 DEF Inv
      <4>2. Progress(pc[q], at[q], call[q].name) => Progress(pc[q], at[q], call[q].name)'
        BY <1>0, <2>4, <4>1 DEF Progress, Consistent
      <4>3. /\ pc[q] \in MutatorLabels => writer'[at[q]] = q
            /\ pc[q] \in ReaderLabels => q \in readers'[at[q]]
        <5>1. pc[q] \in MutatorLabels \cup ReaderLabels => at[q] \in Hashes
          BY DEF Inv, TypeOK
        <5>2. \A j \in Hashes : writer[j] # None => writer'[j] = writer[j]
          BY <2>1 DEF Inv, TypeOK
        <5>3. \A j \in Hashes : readers[j] \subseteq readers'[j]
          <6>1. readers' = readers \/ readers' = [readers EXCEPT ![k] = @ \cup {p}]
            BY <2>1
          <6>2. readers \in [Hashes -> SUBSET Calls]
            BY DEF Inv, TypeOK
          <6> QED BY <6>1, <6>2
        <5>4. q # None
          BY Distinct
        <5> QED BY <4>1, <5>1, <5>2, <5>3, <5>4 DEF AtWork
      <4> QED BY <1>0, <3>1, <4>1, <4>2, <4>3 DEF AtWork, Asks
    <3> QED BY <3>1, <3>2, <3>3, <3>4
  <2>7. ASSUME NEW j \in Hashes PROVE LockHeld(j)'
    <3>1. LockHeld(j) /\ (writer[j] # None => writer[j] \in Calls)
      BY DEF Inv, TypeOK
    <3>2. Consistent(j) => Consistent(j)'
      BY <2>4 DEF Consistent
    <3>3. CASE j # k
      <4>1. writer'[j] = writer[j] /\ readers'[j] = readers[j]
        BY <2>1, <3>3 DEF Inv, TypeOK
      <4>2. writer[j] # p
        BY <1>0, <3>1, Distinct DEF LockHeld, MutatorLabels
      <4> QED BY <2>4, <3>1, <3>2, <4>1, <4>2 DEF LockHeld
    <3>4. CASE j = k /\ Exclusive(p)
      BY <2>1, <2>2, <2>4, <3>4, Distinct DEF LockHeld, Inv, TypeOK
    <3>5. CASE j = k /\ ~Exclusive(p)
      BY <2>1, <3>1, <3>2, <3>5 DEF LockHeld
    <3> QED BY <3>3, <3>4, <3>5
  <2> QED BY <2>5, <2>6, <2>7 DEF Inv
<1> QED BY <1>1, <1>2

------------------------------------------------------------------------------
(* Steps that change no file *)

\* What is known of a call at work on the files it has to itself.
LEMMA Current ==
    ASSUME Inv, NEW p \in Calls, pc[p] \in MutatorLabels
    PROVE  /\ at[p] \in Hashes /\ call[p] \in Requests
           /\ Asks(call[p], pc[p], at[p]) /\ Progress(pc[p], at[p], call[p].name)
BY DEF Inv, TypeOK, AtWork

\* A reader finds the artifact consistent.
LEMMA ReaderFinds ==
    ASSUME Inv, NEW p \in Calls, pc[p] \in ReaderLabels
    PROVE  at[p] \in Hashes /\ Consistent(at[p])
<1>1. at[p] \in Hashes /\ p \in readers[at[p]]
  BY DEF Inv, TypeOK, AtWork
<1> QED BY <1>1 DEF Inv, LockHeld

LEMMA QuietWork ==
    ASSUME Inv, TypeOK', NEW p \in Calls, NEW l \in MutatorLabels, pc[p] \in MutatorLabels,
           pc' = [pc EXCEPT ![p] = l], UNCHANGED <<call, key, at, locks, store>>,
           Asks(call[p], l, at[p]), Progress(l, at[p], call[p].name)
    PROVE  Inv'
<1>1. UNCHANGED <<blob, meta, metaref, lookup, call, at>>
  BY DEF store
<1>2. Bound' /\ Confined(at[p])
  BY <1>1 DEF Inv, Bound, Confined
<1>3. Progress(l, at[p], call[p].name)'
  BY <1>1 DEF Progress, Consistent
<1> QED BY <1>2, <1>3, WorkStep

LEMMA QuietEnd ==
    ASSUME Inv, TypeOK', NEW p \in Calls, NEW how \in {"done", "failed"},
           pc[p] \in MutatorLabels \cup ReaderLabels, End(p, how), UNCHANGED store,
           Consistent(at[p])
    PROVE  Inv'
<1>1. UNCHANGED <<blob, meta, metaref, lookup>>
  BY DEF store
<1>2. PICK a \in Hashes : a = at[p]
  BY DEF Inv, TypeOK
<1>3. Bound' /\ Confined(a) /\ Consistent(a)'
  BY <1>1, <1>2 DEF Inv, Bound, Confined, Consistent
<1> QED BY <1>2, <1>3, EndStep

\* ReadBlob, GetMeta, GetReference.
LEMMA ReadsStep ==
    ASSUME Inv, TypeOK', NEW p \in Calls, Reads(p)
    PROVE  Inv'
<1>1. pc[p] \in ReaderLabels /\ UNCHANGED store
  BY DEF Reads, OpenBlob, CloseStream, GetMeta, GetReference, At, ReaderLabels
<1>2. at[p] \in Hashes /\ Consistent(at[p]) /\ AtWork(p)
  BY <1>1, ReaderFinds DEF Inv
<1>3. CASE \E how \in {"done", "failed"} : End(p, how)
  BY <1>1, <1>2, <1>3, QuietEnd
<1>4. CASE pc[p] = "open" /\ Continue(p, "stream")
  <2>1. /\ pc'[p] = "stream" /\ \A q \in Calls \ {p} : pc'[q] = pc[q]
        /\ UNCHANGED <<call, key, at, blob, meta, metaref, lookup, writer, readers>>
    BY <1>1, <1>4 DEF Continue, Goto, Inv, TypeOK, store, locks
  <2>2. Bound' /\ NothingGarbled'
    BY <2>1 DEF Inv, Bound, NothingGarbled
  <2>3. ASSUME NEW q \in Calls PROVE KeyChosen(q)' /\ AtWork(q)'
    <3>1. KeyChosen(q)'
      BY <2>1 DEF Inv, KeyChosen
    <3>2. CASE q = p
      BY <1>1, <1>2, <2>1, <3>1, <3>2 DEF AtWork, Asks, MutatorLabels
    <3>3. CASE q # p
      <4>1. AtWork(q) /\ pc'[q] = pc[q]
        BY <2>1, <3>3 DEF Inv
      <4>2. Progress(pc[q], at[q], call[q].name) => Progress(pc[q], at[q], call[q].name)'
        BY <2>1, <4>1 DEF Progress, Consistent
      <4> QED BY <2>1, <3>1, <4>1, <4>2 DEF AtWork, Asks
    <3> QED BY <3>2, <3>3
  <2>4. ASSUME NEW k \in Hashes PROVE LockHeld(k)'
    <3>1. LockHeld(k) /\ (writer[k] # None => writer[k] \in Calls /\ writer[k] # p)
      BY <1>1 DEF Inv, TypeOK, LockHeld, MutatorLabels, ReaderLabels
    <3> QED BY <2>1, <3>1 DEF LockHeld, Consistent
  <2> QED BY <2>2, <2>3, <2>4 DEF Inv
<1>5. CASE GetMeta(p)
  <2>1. meta[at[p]] # "torn"
    BY <1>2 DEF Consistent
  <2>2. \E how \in {"done", "failed"} : End(p, how)
    BY <1>5, <2>1 DEF GetMeta, Decoded
  <2> QED BY <1>3, <2>2
<1>6. CASE GetReference(p)
  <2>1. call[p].name \in Names
    BY <1>2, <1>6 DEF GetReference, At, AtWork, Asks
  <2>2. metaref[at[p]][call[p].name] # "torn"
    BY <1>2, <2>1 DEF Consistent
  <2>3. \E how \in {"done", "failed"} : End(p, how)
    BY <1>6, <2>2 DEF GetReference, Decoded
  <2> QED BY <1>3, <2>3
<1>7. CASE OpenBlob(p) \/ CloseStream(p)
  BY <1>3, <1>4, <1>7 DEF OpenBlob, CloseStream, At
<1> QED BY <1>5, <1>6, <1>7 DEF Reads

\* No reference leads to an artifact whose metadata is being written: what GetMeta
\* finds by reference, without the lock of what it finds, can be read.
LEMMA ExistingWhole ==
    ASSUME Inv, NEW p \in Calls, pc[p] = "existing"
    PROVE  ExistingMeta(call[p]) # "torn"
<1>0. call[p] \in Requests /\ pc[p] \in MutatorLabels
  BY DEF Inv, TypeOK, MutatorLabels
<1>1. CASE ~call[p].byName
  BY <1>0, <1>1, Current DEF ExistingMeta, Asks, Progress, HalfWay, Consistent
<1>2. CASE call[p].byName /\ lookup[call[p].name] = None
  BY <1>2 DEF ExistingMeta
<1>3. CASE call[p].byName /\ lookup[call[p].name] # None
  <2>1. PICK j \in Hashes : j = lookup[call[p].name] /\ call[p].name \in Names
    <3>1. call[p].op = "create"
      BY <1>0, Current DEF Asks
    <3>2. call[p].name \in Names
      BY <1>0, <1>3, <3>1 DEF Requests, Creations, OnBlob, Deletions, OnReference, ByName
    <3> QED BY <1>3, <3>2 DEF Inv, TypeOK
  <2>2. CASE writer[j] = None
    BY <1>3, <2>1, <2>2 DEF Inv, LockHeld, Consistent, ExistingMeta
  <2>3. CASE writer[j] # None
    <3>1. PICK q \in Calls : q = writer[j]
      BY <2>3 DEF Inv, TypeOK
    <3>2. at[q] = j /\ pc[q] \in MutatorLabels
      BY <2>3, <3>1 DEF Inv, LockHeld
    <3>3. Progress(pc[q], j, call[q].name)
      BY <3>2, Current
    <3>4. meta[j] # "torn"
      BY <2>1, <3>3 DEF Progress, HalfWay, Consistent
    <3> QED BY <1>3, <2>1, <3>4 DEF ExistingMeta
  <2> QED BY <2>2, <2>3
<1> QED BY <1>0, <1>1, <1>2, <1>3, RequestFields

\* StatBlob, ExistingArtifact, FindReference, CheckDeletion, ListRemaining.
LEMMA DecidingStep ==
    ASSUME Inv, TypeOK', NEW p \in Calls,
           \/ StatBlob(p) \/ ExistingArtifact(p) \/ FindReference(p) \/ CheckDeletion(p)
           \/ ListRemaining(p)
    PROVE  Inv'
<1> DEFINE k == at[p]
           n == call[p].name
<1>1. pc[p] \in {"stat", "existing", "getoldref", "check", "drop"} /\ UNCHANGED store
  BY DEF StatBlob, ExistingArtifact, FindReference, CheckDeletion, ListRemaining, At
<1>2. pc[p] \in MutatorLabels
  BY <1>1 DEF MutatorLabels
<1>3. /\ k \in Hashes /\ Consistent(k) /\ n \in Names \cup {None}
      /\ Asks(call[p], pc[p], k) /\ Progress(pc[p], k, n)
  BY <1>1, <1>2, Current, RequestFields DEF Progress, HalfWay
<1>4. CASE \E how \in {"done", "failed"} : End(p, how)
  BY <1>1, <1>2, <1>3, <1>4, QuietEnd
<1>5. ASSUME NEW l \in MutatorLabels, Goto(p, l), UNCHANGED <<call, key, at, locks>>,
             Asks(call[p], l, k), Progress(l, k, n)
      PROVE  Inv'
  <2>1. UNCHANGED <<call, key, at, locks, store>> /\ pc' = [pc EXCEPT ![p] = l]
    BY <1>1, <1>5 DEF Goto
  <2> QED BY <1>2, <1>5, <2>1, QuietWork
<1> HIDE DEF k, n
<1>6. CASE StatBlob(p)
  <2>1. PICK l \in {"create", "existing"} : Continue(p, l)
                                             /\ (l = "create" <=> blob[k] = "absent")
    BY <1>6 DEF StatBlob, k
  <2>2. l \in MutatorLabels
    BY DEF MutatorLabels
  <2>3. Asks(call[p], l, k)
    BY <1>3, <1>6 DEF StatBlob, At, Asks
  <2>4. l = "create" => \A r \in Names : lookup[r] # k
    BY <1>3, <2>1 DEF Consistent
  <2>5. Progress(l, k, n)
    BY <1>3, <2>1, <2>4 DEF Progress, HalfWay
  <2> QED BY <1>5, <2>1, <2>2, <2>3, <2>5 DEF Continue
<1>7. CASE ExistingArtifact(p)
  <2>0. pc[p] = "existing" /\ ExistingMeta(call[p]) # "torn"
    BY <1>7, ExistingWhole DEF ExistingArtifact, At
  <2>1. CASE Linked(p) /\ Continue(p, "link")
    <3>1. "link" \in MutatorLabels
      BY DEF MutatorLabels
    <3>2. Asks(call[p], "link", k)
      BY <1>3, <2>0, <2>1 DEF Asks, Linked, n
    <3>3. Progress("link", k, n)
      BY <1>3, <2>0 DEF Progress, HalfWay
    <3> QED BY <1>5, <2>1, <3>1, <3>2, <3>3 DEF Continue
  <2> QED BY <1>4, <1>7, <2>0, <2>1 DEF ExistingArtifact
<1>8. CASE FindReference(p)
  <2>1. pc[p] = "getoldref" /\ n \in Names /\ metaref[k][n] # "torn"
    BY <1>3, <1>8 DEF FindReference, At, Asks, Consistent, n
  <2>2. CASE metaref[k][n] = "whole" /\ Continue(p, "refcreate")
    <3>1. "refcreate" \in MutatorLabels
      BY DEF MutatorLabels
    <3>2. Asks(call[p], "refcreate", k)
      BY <2>1 DEF Asks, n
    <3>3. blob[k] # "absent"
      BY <1>3, <2>1, <2>2 DEF Consistent
    <3>4. Progress("refcreate", k, n)
      BY <1>3, <3>3 DEF Progress, HalfWay, Consistent
    <3> QED BY <1>5, <2>2, <3>1, <3>2, <3>4 DEF Continue
  <2> QED BY <1>4, <1>8, <2>1, <2>2 DEF FindReference, k, n
<1>9. CASE CheckDeletion(p)
  <2>1. n # None => metaref[k][n] # "torn"
    BY <1>3 DEF Consistent
  <2>2. CASE /\ blob[k] # "absent" /\ Goto(p, "drop")
             /\ UNCHANGED <<call, key, at, locks>>
    <3>1. "drop" \in MutatorLabels
      BY DEF MutatorLabels
    <3>2. Asks(call[p], "drop", k)
      BY DEF Asks
    <3>3. Progress("drop", k, n)
      BY <1>3, <2>2 DEF Progress, HalfWay
    <3> QED BY <1>5, <2>2, <3>1, <3>2, <3>3
  <2>3. \/ /\ blob[k] # "absent" /\ Goto(p, "drop") /\ UNCHANGED <<call, key, at, locks>>
        \/ End(p, "failed")
    BY <1>9, <2>1 DEF CheckDeletion, k, n
  <2> QED BY <1>4, <2>2, <2>3
<1>10. CASE ListRemaining(p)
  <2>1. pc[p] = "drop"
    BY <1>10 DEF ListRemaining, At
  <2>2. CASE References(k) = {} /\ Continue(p, "trashblob")
    <3>1. "trashblob" \in MutatorLabels
      BY DEF MutatorLabels
    <3>2. Asks(call[p], "trashblob", k)
      BY DEF Asks
    <3>3. \A r \in Names : metaref[k][r] = "absent"
      BY <2>2 DEF References
    <3>4. \A r \in Names : lookup[r] # k
      BY <1>3, <3>3 DEF Consistent
    <3>5. Progress("trashblob", k, n)
      BY <1>3, <2>1, <3>3, <3>4 DEF Progress, HalfWay
    <3> QED BY <1>5, <2>2, <3>1, <3>2, <3>5 DEF Continue
  <2> QED BY <1>4, <1>10, <2>2 DEF ListRemaining, k
<1> QED BY <1>6, <1>7, <1>8, <1>9, <1>10

------------------------------------------------------------------------------
(* Steps that change a file *)

\* A file set, or filled, among those of one artifact.
Touches(k) ==
    /\ \A j \in Hashes \ {k} :
          blob'[j] = blob[j] /\ meta'[j] = meta[j] /\ metaref'[j] = metaref[j]
    /\ lookup' = lookup

\* Going on after a change to the files of the artifact at work on.
LEMMA TouchWork ==
    ASSUME Inv, TypeOK', NEW p \in Calls, NEW l \in MutatorLabels, pc[p] \in MutatorLabels,
           Continue(p, l), Touches(at[p]), Asks(call[p], l, at[p]),
           Progress(l, at[p], call[p].name)'
    PROVE  Inv'
<1>1. Bound' /\ Confined(at[p])
  BY DEF Touches, Confined, Inv, Bound
<1>2. pc' = [pc EXCEPT ![p] = l] /\ UNCHANGED <<call, key, at, locks>>
  BY DEF Continue, Goto
<1> QED BY <1>1, <1>2, WorkStep

LEMMA TouchEnd ==
    ASSUME Inv, TypeOK', NEW p \in Calls, NEW how \in {"done", "failed"},
           NEW k \in Hashes, at[p] = k, pc[p] \in MutatorLabels, End(p, how), Touches(k),
           Consistent(k)'
    PROVE  Inv'
<1>1. Bound' /\ Confined(k)
  BY DEF Touches, Confined, Inv, Bound
<1>2. pc[p] \notin ReaderLabels
  BY DEF MutatorLabels, ReaderLabels
<1> QED BY <1>1, <1>2, EndStep

\* The blob and the metadata of a creation.
LEMMA CreatingStep ==
    ASSUME Inv, TypeOK', NEW p \in Calls,
           CreateBlob(p) \/ CopyBlob(p) \/ CreateMeta(p) \/ WriteMeta(p)
    PROVE  Inv'
<1> DEFINE k == at[p]
<1>0. pc[p] \in {"create", "copy", "meta", "metawrite"} /\ pc[p] \in MutatorLabels
  BY DEF CreateBlob, CopyBlob, CreateMeta, WriteMeta, At, MutatorLabels
<1>1. PICK a \in Hashes : a = k
  BY <1>0, Current
<1>2. /\ Asks(call[p], pc[p], a) /\ Progress(pc[p], a, call[p].name)
      /\ call[p].name \in Names \cup {None}
      /\ blob \in [Hashes -> File] /\ meta \in [Hashes -> File]
  BY <1>0, <1>1, Current, RequestFields DEF Inv, TypeOK
<1>3. {"copy", "meta", "metawrite", "link"} \subseteq MutatorLabels
  BY DEF MutatorLabels
<1>4. CASE CreateBlob(p)
  <2>1. /\ pc[p] = "create" /\ blob'[a] = "torn" /\ Touches(a) /\ Continue(p, "copy")
        /\ meta' = meta /\ metaref' = metaref /\ at' = at
    BY <1>1, <1>2, <1>4 DEF CreateBlob, At, Touches, Continue
  <2>2. Progress("copy", k, call[p].name)'
    BY <1>1, <1>2, <2>1 DEF Progress, HalfWay, Consistent, Touches
  <2>3. Asks(call[p], "copy", k)
    BY <1>1, <1>2, <2>1 DEF Asks
  <2> QED BY <1>0, <1>1, <1>3, <2>1, <2>2, <2>3, TouchWork
<1>5. CASE CopyBlob(p)
  <2>1. /\ pc[p] = "copy" /\ blob[a] # "absent" /\ blob'[a] # "absent" /\ Touches(a)
        /\ meta' = meta /\ metaref' = metaref
        /\ Continue(p, "meta") \/ End(p, "failed")
    BY <1>1, <1>2, <1>5 DEF CopyBlob, At, Touches, Progress, Fill
  <2>2. CASE Continue(p, "meta")
    <3>1. at' = at
      BY <2>2 DEF Continue
    <3>2. Progress("meta", k, call[p].name)'
      BY <1>1, <1>2, <2>1, <3>1 DEF Progress, HalfWay, Consistent, Touches
    <3>3. Asks(call[p], "meta", k)
      BY <1>1, <1>2, <2>1 DEF Asks
    <3> QED BY <1>0, <1>1, <1>3, <2>1, <2>2, <3>2, <3>3, TouchWork
  <2>3. CASE End(p, "failed")
    <3>1. Consistent(a)'
      BY <1>2, <2>1 DEF Progress, HalfWay, Consistent, Touches
    <3> QED BY <1>0, <1>1, <2>1, <2>3, <3>1, TouchEnd
  <2> QED BY <2>1, <2>2, <2>3
<1>6. CASE CreateMeta(p)
  <2>1. /\ pc[p] = "meta" /\ meta'[a] = "torn" /\ Touches(a) /\ Continue(p, "metawrite")
        /\ blob' = blob /\ metaref' = metaref /\ at' = at
    BY <1>1, <1>2, <1>6 DEF CreateMeta, At, Touches, Continue
  <2>2. Progress("metawrite", k, call[p].name)'
    BY <1>1, <1>2, <2>1 DEF Progress, HalfWay, Consistent, Touches
  <2>3. Asks(call[p], "metawrite", k)
    BY <1>1, <1>2, <2>1 DEF Asks
  <2> QED BY <1>0, <1>1, <1>3, <2>1, <2>2, <2>3, TouchWork
<1>7. CASE WriteMeta(p)
  <2>1. /\ pc[p] = "metawrite" /\ meta'[a] # "torn" /\ Touches(a)
        /\ blob' = blob /\ metaref' = metaref
        /\ (Linked(p) /\ Continue(p, "link")) \/ End(p, "done")
    BY <1>1, <1>2, <1>7 DEF WriteMeta, At, Touches, Fill
  <2>2. Consistent(a)'
    BY <1>2, <2>1 DEF Progress, HalfWay, Consistent, Touches
  <2>3. CASE Linked(p) /\ Continue(p, "link")
    <3>1. at' = at /\ call' = call
      BY <2>3 DEF Continue
    <3>2. Progress("link", k, call[p].name)'
      BY <1>1, <1>2, <2>1, <2>2, <3>1 DEF Progress, HalfWay
    <3>3. Asks(call[p], "link", k)
      BY <1>1, <1>2, <2>1, <2>3 DEF Asks, Linked
    <3> QED BY <1>0, <1>1, <1>3, <2>1, <2>3, <3>2, <3>3, TouchWork
  <2>4. CASE End(p, "done")
    BY <1>0, <1>1, <2>1, <2>2, <2>4, TouchEnd
  <2> QED BY <2>1, <2>3, <2>4
<1> QED BY <1>4, <1>5, <1>6, <1>7

\* The reference of a creation or an update, its lookup first.
LEMMA LinkingStep ==
    ASSUME Inv, TypeOK', NEW p \in Calls,
           createOrUpdateRef(p) \/ CreateMetaRef(p) \/ WriteMetaRef(p)
    PROVE  Inv'
<1> DEFINE k == at[p]
           n == call[p].name
<1>0. pc[p] \in {"link", "refcreate", "refwrite"} /\ pc[p] \in MutatorLabels
  BY DEF createOrUpdateRef, CreateMetaRef, WriteMetaRef, At, MutatorLabels
<1>1. PICK a \in Hashes : a = k
  BY <1>0, Current
<1>2. /\ call[p] \in Requests /\ Asks(call[p], pc[p], a) /\ Progress(pc[p], a, n)
      /\ n \in Names
      /\ lookup \in [Names -> Hashes \cup {None}] /\ metaref \in [Hashes -> [Names -> File]]
  BY <1>0, <1>1, Current DEF Inv, TypeOK, Asks
<1>3. {"refcreate", "refwrite"} \subseteq MutatorLabels
  BY DEF MutatorLabels
<1>4. CASE createOrUpdateRef(p)
  <2>1. /\ pc[p] = "link" /\ Continue(p, "refcreate") /\ lookup' = [lookup EXCEPT ![n] = a]
        /\ blob' = blob /\ meta' = meta /\ metaref' = metaref
    BY <1>1, <1>4 DEF createOrUpdateRef, At
  <2>2. /\ at' = at /\ call' = call /\ UNCHANGED <<call, key, at, locks>>
        /\ pc' = [pc EXCEPT ![p] = "refcreate"]
    BY <2>1 DEF Continue, Goto
  <2>3. Confined(a)
    BY <1>2, <2>1 DEF Confined
  <2>4. Bound'
    <3>1. <<n, a>> \in Binds
      BY <1>2, <2>1, RequestFields, Distinct DEF Asks
    <3> QED BY <1>2, <2>1, <3>1 DEF Inv, Bound
  <2>5. Progress("refcreate", k, n)'
    BY <1>1, <1>2, <2>1, <2>2 DEF Progress, HalfWay, Consistent
  <2>6. Asks(call[p], "refcreate", k)
    BY <1>2 DEF Asks
  <2> QED BY <1>0, <1>1, <1>3, <2>2, <2>3, <2>4, <2>5, <2>6, WorkStep
<1>5. CASE CreateMetaRef(p)
  <2>1. /\ pc[p] = "refcreate" /\ Continue(p, "refwrite")
        /\ metaref' = [metaref EXCEPT ![a][n] = "torn"]
        /\ blob' = blob /\ meta' = meta /\ lookup' = lookup
    BY <1>1, <1>5 DEF CreateMetaRef, At
  <2>2. /\ metaref'[a][n] = "torn" /\ \A r \in Names \ {n} : metaref'[a][r] = metaref[a][r]
        /\ \A j \in Hashes \ {a} : metaref'[j] = metaref[j]
    BY <1>2, <2>1
  <2>3. Touches(a) /\ at' = at /\ call' = call
    BY <2>1, <2>2 DEF Touches, Continue
  <2>4. Progress("refwrite", k, n)'
    BY <1>1, <1>2, <2>1, <2>2, <2>3 DEF Progress, HalfWay
  <2>5. Asks(call[p], "refwrite", k)
    BY <1>2 DEF Asks
  <2> QED BY <1>0, <1>1, <1>3, <2>1, <2>3, <2>4, <2>5, TouchWork
<1>6. CASE WriteMetaRef(p)
  <2>1. /\ pc[p] = "refwrite" /\ End(p, "done")
        /\ metaref' = [metaref EXCEPT ![a] = Fill(@, n)]
        /\ blob' = blob /\ meta' = meta /\ lookup' = lookup
    BY <1>1, <1>6 DEF WriteMetaRef, At
  <2>2. metaref[a][n] # "absent"
    BY <1>2, <2>1 DEF Progress
  <2>3. metaref'[a] = [metaref[a] EXCEPT ![n] = "whole"]
        /\ \A j \in Hashes \ {a} : metaref'[j] = metaref[j]
    BY <1>2, <2>1, <2>2 DEF Fill
  <2>4. metaref'[a][n] = "whole" /\ \A r \in Names \ {n} : metaref'[a][r] = metaref[a][r]
    BY <1>2, <2>3
  <2>5. Touches(a)
    BY <2>1, <2>3 DEF Touches
  <2>6. Consistent(a)'
    BY <1>2, <2>1, <2>4 DEF Progress, Consistent
  <2> QED BY <1>0, <1>1, <2>1, <2>5, <2>6, TouchEnd
<1> QED BY <1>4, <1>5, <1>6

\* A blob is changed in place.
LEMMA UpdatingStep ==
    ASSUME Inv, TypeOK', NEW p \in Calls, OpenForUpdate(p) \/ CopyUpdate(p)
    PROVE  Inv'
<1> DEFINE k == at[p]
<1>0. pc[p] \in {"openupdate", "copyupdate"} /\ pc[p] \in MutatorLabels
  BY DEF OpenForUpdate, CopyUpdate, At, MutatorLabels
<1>1. PICK a \in Hashes : a = k
  BY <1>0, Current
<1>2. /\ Consistent(a) /\ Progress(pc[p], a, call[p].name) /\ blob \in [Hashes -> File]
  BY <1>0, <1>1, Current DEF Inv, TypeOK, Progress, HalfWay
<1>3. CASE blob[a] # "absent" /\ Continue(p, "copyupdate") /\ OpenForUpdate(p)
  <2>1. /\ blob'[a] = "torn" /\ Touches(a) /\ meta' = meta /\ metaref' = metaref /\ at' = at
    BY <1>1, <1>2, <1>3 DEF OpenForUpdate, Touches, Continue, End
  <2>2. Progress("copyupdate", k, call[p].name)'
    BY <1>1, <1>2, <2>1 DEF Progress, HalfWay, Consistent, Touches
  <2>3. Asks(call[p], "copyupdate", k) /\ "copyupdate" \in MutatorLabels
    BY DEF Asks, MutatorLabels
  <2> QED BY <1>0, <1>1, <1>3, <2>1, <2>2, <2>3, TouchWork
<1>4. CASE OpenForUpdate(p) /\ End(p, "failed") /\ UNCHANGED blob
  <2>1. Touches(a) /\ Consistent(a)'
    BY <1>2, <1>4 DEF OpenForUpdate, Touches, Consistent
  <2> QED BY <1>0, <1>1, <1>4, <2>1, TouchEnd
<1>5. CASE CopyUpdate(p)
  <2>1. pc[p] = "copyupdate" /\ blob[a] # "absent"
    BY <1>2, <1>5 DEF CopyUpdate, At, Progress
  <2>2. /\ blob'[a] # "absent" /\ Touches(a) /\ meta' = meta /\ metaref' = metaref
        /\ End(p, "done") \/ End(p, "failed")
    BY <1>1, <1>2, <1>5, <2>1 DEF CopyUpdate, Touches, Fill
  <2>3. Consistent(a)'
    BY <1>2, <2>2 DEF Consistent, Touches
  <2> QED BY <1>0, <1>1, <2>2, <2>3, TouchEnd
<1>6. OpenForUpdate(p) => \/ blob[a] # "absent" /\ Continue(p, "copyupdate")
                          \/ End(p, "failed") /\ UNCHANGED blob
  BY <1>1 DEF OpenForUpdate
<1> QED BY <1>3, <1>4, <1>5, <1>6

\* A reference is dropped, its lookup whatever it led to.
LEMMA DroppingStep ==
    ASSUME Inv, TypeOK', NEW p \in Calls, DropReference(p)
    PROVE  Inv'
<1>0. /\ pc[p] = "drop" /\ pc[p] \in MutatorLabels
      /\ UNCHANGED <<call, pc, key, at, locks, blob, meta>>
  BY DEF DropReference, At, MutatorLabels
<1>1. PICK a \in Hashes : a = at[p]
  BY <1>0, Current
<1>2. /\ Consistent(a) /\ blob[a] # "absent"
      /\ lookup \in [Names -> Hashes \cup {None}] /\ metaref \in [Hashes -> [Names -> File]]
  BY <1>0, <1>1, Current DEF Inv, TypeOK, Progress, HalfWay
<1>3. PICK r \in dropping[p] :
         \/ UNCHANGED <<lookup, metaref>>
         \/ /\ lookup' = [lookup EXCEPT ![r] = None]
            /\ metaref' = [metaref EXCEPT ![a][r] = "absent"]
  BY <1>1 DEF DropReference
<1>4. /\ \A j \in Hashes \ {a} : metaref'[j] = metaref[j]
      /\ \A x \in Names : \/ lookup'[x] = lookup[x] /\ metaref'[a][x] = metaref[a][x]
                          \/ lookup'[x] = None /\ metaref'[a][x] = "absent"
  BY <1>2, <1>3
<1>5. Bound' /\ Confined(a)
  BY <1>0, <1>4, Distinct DEF Inv, Bound, Confined
<1>6. Consistent(a)'
  BY <1>0, <1>2, <1>4, Distinct DEF Consistent
<1>7. Progress("drop", at[p], call[p].name)'
  BY <1>0, <1>1, <1>2, <1>6 DEF Progress, HalfWay
<1>8. pc' = [pc EXCEPT ![p] = "drop"] /\ "drop" \in MutatorLabels /\ Asks(call[p], "drop", at[p])
  BY <1>0 DEF Inv, TypeOK, Asks
<1> QED BY <1>0, <1>1, <1>5, <1>7, <1>8, WorkStep

\* An artifact without references goes to the trash, file by file.
LEMMA TrashingStep ==
    ASSUME Inv, TypeOK', NEW p \in Calls, TrashBlob(p) \/ TrashMeta(p) \/ TrashMetaRefs(p)
    PROVE  Inv'
<1> DEFINE k == at[p]
<1>0. pc[p] \in {"trashblob", "trashmeta", "trashrefs"} /\ pc[p] \in MutatorLabels
  BY DEF TrashBlob, TrashMeta, TrashMetaRefs, At, MutatorLabels
<1>1. PICK a \in Hashes : a = k
  BY <1>0, Current
<1>2. /\ Progress(pc[p], a, call[p].name)
      /\ \A r \in Names : metaref[a][r] = "absent" /\ lookup[r] # a
      /\ blob \in [Hashes -> File] /\ meta \in [Hashes -> File]
      /\ metaref \in [Hashes -> [Names -> File]]
  BY <1>0, <1>1, Current DEF Inv, TypeOK, Progress
<1>3. {"trashmeta", "trashrefs"} \subseteq MutatorLabels
      /\ \A l \in {"trashmeta", "trashrefs"} : Asks(call[p], l, k)
  BY DEF MutatorLabels, Asks
<1>4. CASE TrashBlob(p)
  <2>1. /\ pc[p] = "trashblob" /\ Continue(p, "trashmeta") /\ Touches(a)
        /\ meta' = meta /\ metaref' = metaref /\ at' = at /\ lookup' = lookup
    BY <1>1, <1>2, <1>4 DEF TrashBlob, At, Touches, Continue
  <2>2. Progress("trashmeta", k, call[p].name)'
    BY <1>1, <1>2, <2>1 DEF Progress, HalfWay, Consistent
  <2> QED BY <1>0, <1>1, <1>3, <2>1, <2>2, TouchWork
<1>5. CASE TrashMeta(p)
  <2>1. /\ pc[p] = "trashmeta" /\ Continue(p, "trashrefs") /\ Touches(a) /\ meta'[a] = "absent"
        /\ blob' = blob /\ metaref' = metaref /\ at' = at /\ lookup' = lookup
    BY <1>1, <1>2, <1>5 DEF TrashMeta, At, Touches, Continue
  <2>2. Progress("trashrefs", k, call[p].name)'
    BY <1>1, <1>2, <2>1 DEF Progress, HalfWay, Consistent
  <2> QED BY <1>0, <1>1, <1>3, <2>1, <2>2, TouchWork
<1>6. CASE TrashMetaRefs(p)
  <2>1. /\ pc[p] = "trashrefs" /\ End(p, "done") /\ Touches(a)
        /\ blob' = blob /\ meta' = meta /\ lookup' = lookup
        /\ \A r \in Names : metaref'[a][r] = "absent"
    BY <1>1, <1>2, <1>6 DEF TrashMetaRefs, At, Touches
  <2>2. Consistent(a)'
    BY <1>2, <2>1 DEF Progress, HalfWay, Consistent
  <2> QED BY <1>0, <1>1, <2>1, <2>2, TouchEnd
<1> QED BY <1>4, <1>5, <1>6

------------------------------------------------------------------------------
(* The invariant, and what follows from it *)

LEMMA InvInit == Init => Inv
<1> SUFFICES ASSUME Init PROVE Inv
  OBVIOUS
<1>1. TypeOK
  BY InitType
<1>2. Bound
  <2> SUFFICES ASSUME NEW r \in Names, lookup[r] # None PROVE <<r, lookup[r]>> \in Binds
    BY DEF Bound
  <2>1. PICK k \in Hashes : k = lookup[r]
    BY <1>1 DEF TypeOK
  <2>2. metaref[k][r] # "absent"
    BY <2>1 DEF Init, Consistent
  <2>3. metaref[k][r] = "whole"
    BY <2>2 DEF Init
  <2> QED BY <2>1, <2>3 DEF Init
<1>3. \A p \in Calls : KeyChosen(p) /\ AtWork(p)
  BY DEF Init, KeyChosen, AtWork, Asks, MutatorLabels, ReaderLabels
<1>4. \A k \in Hashes : LockHeld(k)
  BY DEF Init, LockHeld
<1>5. NothingGarbled
  BY DEF Init, NothingGarbled
<1> QED BY <1>1, <1>2, <1>3, <1>4, <1>5 DEF Inv

LEMMA InvNext ==
    ASSUME NamesStay, Inv, [Next]_vars
    PROVE  Inv'
<1>1. TypeOK'
  BY StepType DEF Inv
<1>2. CASE UNCHANGED vars
  <2>1. UNCHANGED <<call, pc, key, at, blob, meta, metaref, lookup, writer, readers>>
    BY <1>2 DEF vars
  <2>2. Bound' /\ NothingGarbled'
    BY <2>1 DEF Inv, Bound, NothingGarbled
  <2>3. ASSUME NEW p \in Calls PROVE KeyChosen(p)' /\ AtWork(p)'
    <3>1. KeyChosen(p) /\ AtWork(p)
      BY DEF Inv
    <3>2. Progress(pc[p], at[p], call[p].name) => Progress(pc[p], at[p], call[p].name)'
      BY <2>1 DEF Progress, Consistent
    <3> QED BY <2>1, <3>1, <3>2 DEF KeyChosen, AtWork
  <2>4. ASSUME NEW k \in Hashes PROVE LockHeld(k)'
    BY <2>1 DEF Inv, LockHeld, Consistent
  <2> QED BY <1>1, <2>2, <2>3, <2>4 DEF Inv
<1>3. ASSUME NEW p \in Calls, LockTimeout(p) PROVE Inv'
  <2>1. pc[p] = "lock" /\ Goto(p, "failed") /\ UNCHANGED <<call, key, at, store, locks>>
    BY <1>3 DEF LockTimeout, At
  <2> QED BY <1>1, <2>1, GiveUpStep
<1>4. ASSUME NEW p \in Calls, Creates(p) PROVE Inv'
  BY <1>1, <1>4, DecidingStep, CreatingStep, LinkingStep DEF Creates
<1>5. ASSUME NEW p \in Calls, Updates(p) PROVE Inv'
  BY <1>1, <1>5, DecidingStep, UpdatingStep DEF Updates
<1>6. ASSUME NEW p \in Calls, Deletes(p) PROVE Inv'
  BY <1>1, <1>6, DecidingStep, DroppingStep, TrashingStep DEF Deletes
<1> QED BY <1>1, <1>2, <1>3, <1>4, <1>5, <1>6, ResolveStep, AcquireStep, ReadsStep
        DEF Next, Proceed, Quiet

LEMMA Invariant == NamesStay => (Spec => []Inv)
<1>1. Init => Inv
  BY InvInit
<1>2. NamesStay /\ Inv /\ [Next]_vars => Inv'
  BY InvNext
<1> SUFFICES ASSUME NamesStay PROVE Spec => []Inv
  OBVIOUS
<1>3. Inv /\ [Next]_vars => Inv'
  BY <1>2
<1> QED BY <1>1, <1>3, PTL DEF Spec

\* Two calls at work on an artifact are both readers.
LEMMA InvAlone == Inv => WritersAlone
<1> SUFFICES ASSUME Inv, NEW p \in Calls, NEW q \in Calls, NEW k \in Hashes, p # q,
                    Mutates(p, k)
             PROVE  ~Mutates(q, k) /\ ~Observes(q, k)
  BY DEF WritersAlone
<1> QED BY Apart DEF Mutates, Observes

\* For references that do not move, no two calls are at work on one artifact unless
\* both only read it, however many there are and however they name it.
THEOREM WorksAlone == NamesStay => (Spec => []WritersAlone)
BY Invariant, InvAlone, PTL

\* The files of an artifact are consistent whenever nobody holds its lock.
THEOREM StaysConsistent == NamesStay => (Spec => []ConsistentWhenUnlocked)
<1>1. Inv => ConsistentWhenUnlocked
  BY DEF Inv, LockHeld, ConsistentWhenUnlocked
<1> QED BY <1>1, Invariant, PTL

\* No call decodes a file that another one is writing.
THEOREM ReadsWholeFiles == NamesStay => (Spec => []NothingGarbled)
<1>1. Inv => NothingGarbled
  BY DEF Inv
<1> QED BY <1>1, Invariant, PTL

\* The steps that change a blob are those of calls at work on it.
LEMMA BlobChanged ==
    ASSUME Inv, [Next]_vars, NEW k \in Hashes, blob'[k] # blob[k]
    PROVE  \E p \in Calls : Mutates(p, k) /\ (TrashBlob(p) \/ blob'[k] # "absent")
<1>1. blob \in [Hashes -> File]
  BY DEF Inv, TypeOK
<1>2. blob' # blob
  OBVIOUS
<1>3. PICK p \in Calls : \/ CreateBlob(p) \/ CopyBlob(p) \/ OpenForUpdate(p) \/ CopyUpdate(p)
                         \/ TrashBlob(p)
  <2>1. PICK p \in Calls : Proceed(p) \/ LockTimeout(p)
    BY <1>2 DEF Next, Quiet, vars
  <2>2. ~(resolveLockHash(p) \/ acquireLock(p) \/ LockTimeout(p) \/ Reads(p))
    BY <1>2 DEF resolveLockHash, acquireLock, LockTimeout, Reads, OpenBlob, CloseStream, GetMeta,
       GetReference, store
  <2>3. ~(StatBlob(p) \/ ExistingArtifact(p) \/ CreateMeta(p) \/ WriteMeta(p)
          \/ createOrUpdateRef(p) \/ CreateMetaRef(p) \/ WriteMetaRef(p) \/ FindReference(p))
    BY <1>2 DEF StatBlob, ExistingArtifact, CreateMeta, WriteMeta, createOrUpdateRef,
       CreateMetaRef, WriteMetaRef, FindReference, store
  <2>4. ~(CheckDeletion(p) \/ DropReference(p) \/ ListRemaining(p)
          \/ TrashMeta(p) \/ TrashMetaRefs(p))
    BY <1>2 DEF CheckDeletion, DropReference, ListRemaining, TrashMeta, TrashMetaRefs, store
  <2> QED BY <2>1, <2>2, <2>3, <2>4 DEF Proceed, Creates, Updates, Deletes
<1>4. pc[p] \in MutatorLabels
  BY <1>3 DEF CreateBlob, CopyBlob, OpenForUpdate, CopyUpdate, TrashBlob, At, MutatorLabels
<1>5. at[p] \in Hashes
  BY <1>4 DEF Inv, TypeOK
<1>6. blob' = blob \/ blob' = Fill(blob, at[p]) \/ blob' = [blob EXCEPT ![at[p]] = "torn"]
      \/ (TrashBlob(p) /\ blob' = [blob EXCEPT ![at[p]] = "absent"])
  <2>1. CreateBlob(p) => blob' = [blob EXCEPT ![at[p]] = "torn"]
    BY DEF CreateBlob
  <2>2. CopyBlob(p) \/ CopyUpdate(p) => blob' = blob \/ blob' = Fill(blob, at[p])
    BY DEF CopyBlob, CopyUpdate
  <2>3. OpenForUpdate(p) => blob' = blob \/ blob' = [blob EXCEPT ![at[p]] = "torn"]
    BY DEF OpenForUpdate
  <2>4. TrashBlob(p) => blob' = [blob EXCEPT ![at[p]] = "absent"]
    BY DEF TrashBlob
  <2>5. CASE CreateBlob(p)
    BY <2>1, <2>5
  <2>6. CASE CopyBlob(p) \/ CopyUpdate(p)
    BY <2>2, <2>6
  <2>7. CASE OpenForUpdate(p)
    BY <2>3, <2>7
  <2>8. CASE TrashBlob(p)
    BY <2>4, <2>8
  <2> QED BY <1>3, <2>5, <2>6, <2>7, <2>8
<1>7. at[p] = k /\ (TrashBlob(p) \/ blob'[k] # "absent")
  BY <1>1, <1>2, <1>5, <1>6 DEF Fill
<1> QED BY <1>4, <1>7 DEF Mutates

\* A blob that is being streamed does not change until the stream is closed.
THEOREM StreamsUnchanged == NamesStay => (Spec => StreamStable)
<1>1. ASSUME Inv, [Next]_vars
      PROVE  \A p \in Calls : pc[p] = "stream" => blob'[at[p]] = blob[at[p]]
  <2> SUFFICES ASSUME NEW p \in Calls, pc[p] = "stream", blob'[at[p]] # blob[at[p]]
               PROVE  FALSE
    OBVIOUS
  <2>1. at[p] \in Hashes /\ Observes(p, at[p])
    BY <1>1 DEF Inv, TypeOK, Observes, ReaderLabels
  <2>2. PICK q \in Calls : Mutates(q, at[p])
    <3>1. \A k \in Hashes : blob'[k] # blob[k] => \E q \in Calls : Mutates(q, k)
      BY <1>1, BlobChanged
    <3> QED BY <2>1, <3>1
  <2>3. q # p
    BY <2>1, <2>2 DEF Mutates, MutatorLabels
  <2> QED BY <1>1, <2>1, <2>2, <2>3, InvAlone DEF WritersAlone
<1> QED BY <1>1, Invariant, PTL DEF Spec, StreamStable

\* An artifact goes to the trash only when no reference is registered for it.
THEOREM TrashesUnreferenced == NamesStay => (Spec => TrashedUnreferenced)
<1>1. ASSUME Inv, [Next]_vars
      PROVE  \A k \in Hashes :
                 blob[k] # "absent" /\ blob'[k] = "absent" => References(k) = {}
  <2> SUFFICES ASSUME NEW k \in Hashes, blob[k] # "absent", blob'[k] = "absent"
               PROVE  References(k) = {}
    OBVIOUS
  <2>1. PICK p \in Calls : Mutates(p, k) /\ TrashBlob(p)
    BY <1>1, BlobChanged
  <2>2. pc[p] = "trashblob" /\ Progress(pc[p], k, call[p].name)
    BY <1>1, <2>1, Current DEF TrashBlob, At, Mutates
  <2> QED BY <2>2 DEF Progress, References
<1> QED BY <1>1, Invariant, PTL DEF Spec, TrashedUnreferenced

==============================================================================
