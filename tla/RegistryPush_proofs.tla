------------------------- MODULE RegistryPush_proofs -------------------------
(* What pushes store and pulls are served, for any requests, bodies, tags and crashes. *)
EXTENDS RegistryPush, TLAPS

(* The kinds of requests, keys and special values, in the form the proofs use. *)
LEMMA Kinds ==
    /\ BlobPuts \subseteq Puts /\ ManifestPuts \subseteq Puts /\ Puts \subseteq Procs
    /\ BlobGets \subseteq Gets /\ ManifestGets \subseteq Gets /\ Gets \subseteq Procs
    /\ Puts \cap Gets = {} /\ BlobPuts \cap ManifestPuts = {} /\ BlobPuts \cap Bodies = {}
    /\ BlobPuts \subseteq Keys /\ Bodies \subseteq Keys
    /\ None \notin Procs /\ None \notin Keys /\ Torn \notin Keys /\ Torn # None
    /\ Puts = BlobPuts \cup ManifestPuts /\ Procs = Puts \cup Gets
    /\ Gets = BlobGets \cup ManifestGets /\ Keys = BlobPuts \cup Bodies
BY ProcsAssumption, TornAssumption DEF Puts, Procs, Gets, Keys

(* What a request names is a body or a tag. *)
LEMMA RequestType ==
    ASSUME req \in [Procs -> Request], NEW p \in Procs
    PROVE  Key(p) \in Bodies /\ req[p].body \in Bodies /\ req[p].tag \in Tags
BY DEF Key, Request

(***************************************************************************)
(* Many steps are guarded by the label of a request alone: which kinds of   *)
(* request reach a label has to be known, and that a reader past its lookup *)
(* has a key.                                                               *)
(***************************************************************************)
LabelsFit ==
    \A p \in Procs :
        /\ pc[p] \in {"meta", "verify", "move", "movemeta", "rmblobdir", "rmmetadir",
                       "movefailed"} => p \in BlobPuts
        /\ pc[p] \in {"existing", "tag", "tagwrite"} => p \in ManifestPuts
        /\ pc[p] \in {"create", "copy", "metadir", "metawrite", "ref"} => p \in Puts
        /\ pc[p] \in {"getmeta", "open"} => p \in Gets /\ at[p] # None
        /\ pc[p] = "getmeta" => p \in ManifestGets
        /\ pc[p] = "read" => p \in Gets

(* Each step leaves every request at a label its kind can reach. *)
LEMMA StepLabels ==
    ASSUME TypeOK, LabelsFit, [Next]_vars
    PROVE  LabelsFit' /\ pc' \in [Procs -> Label]
<1> USE DEF Ended, Label
<1>1. CASE UNCHANGED vars \/ Quiet
  BY <1>1 DEF vars, Quiet, TypeOK, LabelsFit
<1>2. CASE Crash
  <2>1. \A p \in Procs : (pc'[p] = pc[p] /\ pc[p] \in {"idle"} \cup Ended) \/ pc'[p] = "crashed"
    BY <1>2 DEF Crash, Running
  <2>2. pc' \in [Procs -> Label]
    BY <1>2 DEF Crash, TypeOK
  <2> QED BY <2>1, <2>2 DEF LabelsFit
<1>3. ASSUME NEW p \in Procs, StageMkdir(p) PROVE LabelsFit' /\ pc' \in [Procs -> Label]
  BY <1>3, Kinds, RequestType DEF StageMkdir, Goto, At, LabelsFit, TypeOK, handles
<1>4. ASSUME NEW p \in Procs, StageCreate(p) PROVE LabelsFit' /\ pc' \in [Procs -> Label]
  <2>1. pc' = [pc EXCEPT ![p] = "copy"] \/ pc' = [pc EXCEPT ![p] = "failed"]
    BY <1>4 DEF StageCreate, Goto
  <2>2. p \in BlobPuts /\ at' = at
    BY <1>4 DEF StageCreate
  <2> QED BY <2>1, <2>2, Kinds DEF LabelsFit, TypeOK
<1>5. ASSUME NEW p \in Procs, StageMetaMkdir(p) PROVE LabelsFit' /\ pc' \in [Procs -> Label]
  BY <1>5, Kinds, RequestType DEF StageMetaMkdir, Goto, At, LabelsFit, TypeOK, handles
<1>6. ASSUME NEW p \in Procs, StageMetaCreate(p) PROVE LabelsFit' /\ pc' \in [Procs -> Label]
  <2>1. pc' = [pc EXCEPT ![p] = "metawrite"] \/ pc' = [pc EXCEPT ![p] = "failed"]
    BY <1>6 DEF StageMetaCreate, Goto
  <2>2. p \in BlobPuts /\ at' = at
    BY <1>6 DEF StageMetaCreate, handles
  <2> QED BY <2>1, <2>2, Kinds DEF LabelsFit, TypeOK
<1>7. ASSUME NEW p \in Procs, StageMetaWrite(p) PROVE LabelsFit' /\ pc' \in [Procs -> Label]
  BY <1>7, Kinds, RequestType DEF StageMetaWrite, Goto, At, LabelsFit, TypeOK, handles
<1>8. ASSUME NEW p \in Procs, VerifyDigest(p) PROVE LabelsFit' /\ pc' \in [Procs -> Label]
  BY <1>8, Kinds, RequestType DEF VerifyDigest, Goto, At, LabelsFit, TypeOK, handles
<1>9. ASSUME NEW p \in Procs, MoveBlob(p) PROVE LabelsFit' /\ pc' \in [Procs -> Label]
  BY <1>9, Kinds, RequestType DEF MoveBlob, Goto, At, LabelsFit, TypeOK, handles
<1>10. ASSUME NEW p \in Procs, MoveMeta(p) PROVE LabelsFit' /\ pc' \in [Procs -> Label]
  BY <1>10, Kinds, RequestType DEF MoveMeta, Goto, At, LabelsFit, TypeOK
<1>11. ASSUME NEW p \in Procs, RemoveBlobDir(p) PROVE LabelsFit' /\ pc' \in [Procs -> Label]
  BY <1>11, Kinds, RequestType DEF RemoveBlobDir, Goto, At, LabelsFit, TypeOK, handles
<1>12. ASSUME NEW p \in Procs, RemoveMetaDir(p) PROVE LabelsFit' /\ pc' \in [Procs -> Label]
  BY <1>12, Kinds, RequestType DEF RemoveMetaDir, Goto, At, LabelsFit, TypeOK, handles
<1>13. ASSUME NEW p \in Procs, MoveFailed(p) PROVE LabelsFit' /\ pc' \in [Procs -> Label]
  <2>1. pc' = [pc EXCEPT ![p] = "ref"] \/ pc' = [pc EXCEPT ![p] = "failed"]
    BY <1>13 DEF MoveFailed, Goto
  <2>2. p \in BlobPuts /\ at' = at
    BY <1>13 DEF MoveFailed, At, LabelsFit, handles
  <2> QED BY <2>1, <2>2, Kinds DEF LabelsFit, TypeOK
<1>14. ASSUME NEW p \in Procs, StatManifest(p) PROVE LabelsFit' /\ pc' \in [Procs -> Label]
  BY <1>14, Kinds, RequestType DEF StatManifest, Goto, At, LabelsFit, TypeOK, handles
<1>15. ASSUME NEW p \in Procs, ExistingManifest(p) PROVE LabelsFit' /\ pc' \in [Procs -> Label]
  BY <1>15, Kinds, RequestType DEF ExistingManifest, Goto, At, LabelsFit, TypeOK, handles
<1>16. ASSUME NEW p \in Procs, CreateManifest(p) PROVE LabelsFit' /\ pc' \in [Procs -> Label]
  BY <1>16, Kinds, RequestType DEF CreateManifest, Goto, At, LabelsFit, TypeOK
<1>17. ASSUME NEW p \in Procs, ManifestMetaCreate(p) PROVE LabelsFit' /\ pc' \in [Procs -> Label]
  BY <1>17, Kinds, RequestType DEF ManifestMetaCreate, Goto, At, LabelsFit, TypeOK
<1>18. ASSUME NEW p \in Procs, ManifestMetaWrite(p) PROVE LabelsFit' /\ pc' \in [Procs -> Label]
  BY <1>18, Kinds, RequestType DEF ManifestMetaWrite, Goto, At, LabelsFit, TypeOK
<1>19. ASSUME NEW p \in Procs, TagCreate(p) PROVE LabelsFit' /\ pc' \in [Procs -> Label]
  BY <1>19, Kinds, RequestType DEF TagCreate, Goto, At, LabelsFit, TypeOK, handles
<1>20. ASSUME NEW p \in Procs, TagWrite(p) PROVE LabelsFit' /\ pc' \in [Procs -> Label]
  BY <1>20, Kinds, RequestType DEF TagWrite, Goto, At, LabelsFit, TypeOK, handles
<1>21. ASSUME NEW p \in Procs, Copy(p) PROVE LabelsFit' /\ pc' \in [Procs -> Label]
  BY <1>21, Kinds, RequestType DEF Copy, Goto, At, LabelsFit, TypeOK
<1>22. ASSUME NEW p \in Procs, AddReference(p) PROVE LabelsFit' /\ pc' \in [Procs -> Label]
  BY <1>22, Kinds, RequestType DEF AddReference, Goto, At, LabelsFit, TypeOK, handles
<1>23. ASSUME NEW p \in Procs, GetBlobMeta(p) PROVE LabelsFit' /\ pc' \in [Procs -> Label]
  BY <1>23, Kinds, RequestType DEF GetBlobMeta, Goto, At, LabelsFit, TypeOK
<1>24. ASSUME NEW p \in Procs, ResolveTag(p) PROVE LabelsFit' /\ pc' \in [Procs -> Label]
  BY <1>24, Kinds, RequestType DEF ResolveTag, Goto, At, LabelsFit, TypeOK
<1>25. ASSUME NEW p \in Procs, GetManifestMeta(p) PROVE LabelsFit' /\ pc' \in [Procs -> Label]
  <2>1. p \in Gets /\ p \notin Puts
    BY <1>25, Kinds DEF GetManifestMeta, At, LabelsFit
  <2>2. (pc' = [pc EXCEPT ![p] = "open"] /\ at'[p] # None) \/ pc' = [pc EXCEPT ![p] = "notfound"]
    BY <1>25, <2>1 DEF GetManifestMeta, Goto, TypeOK
  <2>3. \A q \in Gets : q # p => at'[q] = at[q]
    BY <1>25, <2>1 DEF GetManifestMeta, TypeOK
  <2> QED BY <2>1, <2>2, <2>3, Kinds DEF LabelsFit, TypeOK
<1>26. ASSUME NEW p \in Procs, OpenBlob(p) PROVE LabelsFit' /\ pc' \in [Procs -> Label]
  BY <1>26, Kinds, RequestType DEF OpenBlob, Goto, At, LabelsFit, TypeOK
<1>27. ASSUME NEW p \in Procs, ReadBlob(p) PROVE LabelsFit' /\ pc' \in [Procs -> Label]
  BY <1>27, Kinds, RequestType DEF ReadBlob, Goto, At, LabelsFit, TypeOK
<1>28. ASSUME NEW p \in Procs, LockTimeout(p) PROVE LabelsFit' /\ pc' \in [Procs -> Label]
  BY <1>28, Kinds, RequestType DEF LockTimeout, Goto, At, Waiting, LabelsFit, TypeOK
<1> QED
  BY <1>1, <1>2, <1>3, <1>4, <1>5, <1>6, <1>7, <1>8, <1>9, <1>10, <1>11, <1>12, <1>13, <1>14,
     <1>15, <1>16, <1>17, <1>18, <1>19, <1>20, <1>21, <1>22, <1>23, <1>24, <1>25, <1>26, <1>27, <1>28
     DEF Next, Step, PutStep, GetStep

(* Each step keeps every variable in its type. *)
LEMMA StepTypes ==
    ASSUME TypeOK, LabelsFit, [Next]_vars
    PROVE  TypeOK'
<1>1. CASE UNCHANGED vars \/ Quiet
  BY <1>1 DEF vars, Quiet, TypeOK
<1> USE DEF Ended, Label
<1>2. CASE Crash
  <2>1. crashes' \in 0 .. MaxCrashes
    BY <1>2, FlagsAssumption DEF Crash, TypeOK
  <2>2. pc' \in [Procs -> Label]
    BY <1>2 DEF Crash, TypeOK
  <2> QED BY <1>2, <2>1, <2>2 DEF Crash, disk, TypeOK
<1>3. ASSUME NEW p \in Procs, StageMkdir(p) PROVE TypeOK'
  BY <1>3, Kinds, RequestType DEF StageMkdir, Goto, At, locks, handles, TypeOK
<1>4. ASSUME NEW p \in Procs, StageCreate(p) PROVE TypeOK'
  <2>1. /\ p \in BlobPuts
        /\ \/ UNCHANGED <<file, data, fd>>
           \/ /\ file' = [file EXCEPT ![p] = p] /\ data' = [data EXCEPT ![p] = Torn]
              /\ fd' = [fd EXCEPT ![p] = p]
        /\ pc' = [pc EXCEPT ![p] = "copy"] \/ pc' = [pc EXCEPT ![p] = "failed"]
    BY <1>4 DEF StageCreate, Goto
  <2>2. file' \in [Keys -> Puts \cup {None}]
    BY <2>1, Kinds DEF TypeOK
  <2>3. data' \in [Puts -> Bodies \cup {Torn}] /\ fd' \in [Procs -> Puts \cup {None}]
    BY <2>1, Kinds DEF TypeOK
  <2>4. pc' \in [Procs -> Label]
    BY <2>1 DEF TypeOK
  <2> QED BY <1>4, <2>2, <2>3, <2>4 DEF StageCreate, TypeOK, locks
<1>5. ASSUME NEW p \in Procs, StageMetaMkdir(p) PROVE TypeOK'
  BY <1>5, Kinds, RequestType DEF StageMetaMkdir, Goto, At, locks, handles, TypeOK
<1>6. ASSUME NEW p \in Procs, StageMetaCreate(p) PROVE TypeOK'
  <2>1. meta' \in [Keys -> Keys \cup {Torn, None}]
    BY <1>6, Kinds, RequestType DEF StageMetaCreate, Goto, At, LabelsFit, TypeOK
  <2>2. pc' \in [Procs -> Label]
    BY <1>6, Kinds, RequestType DEF StageMetaCreate, Goto, At, LabelsFit, TypeOK
  <2> QED BY <1>6, <2>1, <2>2 DEF StageMetaCreate, TypeOK, locks, handles
<1>7. ASSUME NEW p \in Procs, StageMetaWrite(p) PROVE TypeOK'
  BY <1>7, Kinds, RequestType DEF StageMetaWrite, Goto, At, locks, handles, TypeOK
<1>8. ASSUME NEW p \in Procs, VerifyDigest(p) PROVE TypeOK'
  <2>1. p \in BlobPuts
    BY <1>8 DEF VerifyDigest, At, LabelsFit
  <2>2. file' \in [Keys -> Puts \cup {None}] /\ meta' \in [Keys -> Keys \cup {Torn, None}]
    BY <1>8, <2>1 DEF VerifyDigest, DiscardStaged, TypeOK
  <2>3. pc' \in [Procs -> Label]
    BY <1>8 DEF VerifyDigest, Goto, TypeOK
  <2> QED BY <1>8, <2>2, <2>3 DEF VerifyDigest, locks, handles, TypeOK
<1>9. ASSUME NEW p \in Procs, MoveBlob(p) PROVE TypeOK'
  <2>1. p \in BlobPuts /\ Key(p) \in Bodies
    BY <1>9, RequestType DEF MoveBlob, At, LabelsFit, TypeOK
  <2>2. file' \in [Keys -> Puts \cup {None}]
    BY <1>9, <2>1, Kinds DEF MoveBlob, TypeOK
  <2>3. writer' \in [Bodies -> Puts \cup {None}]
    BY <1>9, <2>1, Kinds DEF MoveBlob, LockWrite, TypeOK
  <2>4. pc' \in [Procs -> Label]
    BY <1>9 DEF MoveBlob, Goto, TypeOK
  <2> QED BY <1>9, <2>2, <2>3, <2>4 DEF MoveBlob, handles, TypeOK
<1>10. ASSUME NEW p \in Procs, MoveMeta(p) PROVE TypeOK'
  <2>1. p \in BlobPuts
    BY <1>10 DEF MoveMeta, At, LabelsFit
  <2>2. meta' \in [Keys -> Keys \cup {Torn, None}] /\ linked' \subseteq ManifestPuts
    BY <1>10, <2>1, Kinds DEF MoveMeta, TypeOK
  <2>3. pc' \in [Procs -> Label]
    BY <1>10 DEF MoveMeta, Goto, TypeOK
  <2> QED BY <1>10, <2>2, <2>3 DEF MoveMeta, locks, TypeOK
<1>11. ASSUME NEW p \in Procs, RemoveBlobDir(p) PROVE TypeOK'
  BY <1>11, Kinds, RequestType
     DEF RemoveBlobDir, Goto, At, locks, handles, LabelsFit, TypeOK
<1>12. ASSUME NEW p \in Procs, RemoveMetaDir(p) PROVE TypeOK'
  BY <1>12, Kinds, RequestType
     DEF RemoveMetaDir, Goto, At, Unlock, handles, LabelsFit, TypeOK
<1>13. ASSUME NEW p \in Procs, MoveFailed(p) PROVE TypeOK'
  <2>1. file' \in [Keys -> Puts \cup {None}] /\ meta' \in [Keys -> Keys \cup {Torn, None}]
    BY <1>13 DEF MoveFailed, DiscardStaged, TypeOK
  <2>2. pc' \in [Procs -> Label]
    BY <1>13 DEF MoveFailed, Goto, TypeOK
  <2> QED BY <1>13, <2>1, <2>2 DEF MoveFailed, locks, handles, TypeOK
<1>14. ASSUME NEW p \in Procs, StatManifest(p) PROVE TypeOK'
  BY <1>14, Kinds, RequestType
     DEF StatManifest, Goto, At, LockWrite, disk, handles, TypeOK
<1>15. ASSUME NEW p \in Procs, ExistingManifest(p) PROVE TypeOK'
  BY <1>15, Kinds, RequestType
     DEF ExistingManifest, Goto, At, Unlock, disk, handles, LabelsFit, TypeOK
<1>16. ASSUME NEW p \in Procs, CreateManifest(p) PROVE TypeOK'
  BY <1>16, Kinds, RequestType DEF CreateManifest, Goto, At, locks, TypeOK
<1>17. ASSUME NEW p \in Procs, ManifestMetaCreate(p) PROVE TypeOK'
  BY <1>17, Kinds, RequestType DEF ManifestMetaCreate, Goto, At, locks, TypeOK
<1>18. ASSUME NEW p \in Procs, ManifestMetaWrite(p) PROVE TypeOK'
  BY <1>18, Kinds, RequestType DEF ManifestMetaWrite, Goto, At, Unlock, TypeOK
<1>19. ASSUME NEW p \in Procs, TagCreate(p) PROVE TypeOK'
  <2>1. lookup' \in [Tags -> Bodies \cup {Torn, None}]
    BY <1>19, Kinds, RequestType DEF TagCreate, Goto, At, LabelsFit, TypeOK, LockWrite
  <2>2. writer' \in [Bodies -> Puts \cup {None}]
    BY <1>19, Kinds, RequestType DEF TagCreate, Goto, At, LabelsFit, TypeOK, LockWrite
  <2>3. pc' \in [Procs -> Label]
    BY <1>19, Kinds, RequestType DEF TagCreate, Goto, At, LabelsFit, TypeOK, LockWrite
  <2> QED BY <1>19, <2>1, <2>2, <2>3 DEF TagCreate, TypeOK, handles
<1>20. ASSUME NEW p \in Procs, TagWrite(p) PROVE TypeOK'
  BY <1>20, Kinds, RequestType DEF TagWrite, Goto, At, Unlock, handles, LabelsFit, TypeOK
<1>21. ASSUME NEW p \in Procs, Copy(p) PROVE TypeOK'
  BY <1>21, Kinds, RequestType DEF Copy, Goto, At, Unlock, locks, TypeOK
<1>22. ASSUME NEW p \in Procs, AddReference(p) PROVE TypeOK'
  BY <1>22, Kinds, RequestType
     DEF AddReference, Goto, At, disk, locks, handles, LabelsFit, TypeOK
<1>23. ASSUME NEW p \in Procs, GetBlobMeta(p) PROVE TypeOK'
  <2>1. at' \in [Gets -> Keys \cup {None}]
    BY <1>23, Kinds, RequestType DEF GetBlobMeta, TypeOK
  <2>2. pc' \in [Procs -> Label]
    BY <1>23 DEF GetBlobMeta, Goto, TypeOK
  <2> QED BY <1>23, <2>1, <2>2 DEF GetBlobMeta, disk, locks, TypeOK
<1>24. ASSUME NEW p \in Procs, ResolveTag(p) PROVE TypeOK'
  <2>1. at' \in [Gets -> Keys \cup {None}]
    BY <1>24, Kinds, RequestType DEF ResolveTag, TypeOK
  <2>2. pc' \in [Procs -> Label]
    BY <1>24 DEF ResolveTag, Goto, TypeOK
  <2> QED BY <1>24, <2>1, <2>2 DEF ResolveTag, disk, locks, TypeOK
<1>25. ASSUME NEW p \in Procs, GetManifestMeta(p) PROVE TypeOK'
  <2>1. p \in Gets
    BY <1>25, Kinds DEF GetManifestMeta, At, LabelsFit
  <2>2. at' \in [Gets -> Keys \cup {None}]
    BY <1>25, Kinds, RequestType, <2>1 DEF GetManifestMeta, Goto, At, LabelsFit, TypeOK
  <2>3. pc' \in [Procs -> Label]
    BY <1>25, Kinds, RequestType, <2>1 DEF GetManifestMeta, Goto, At, LabelsFit, TypeOK
  <2> QED BY <1>25, <2>1, <2>2, <2>3 DEF GetManifestMeta, TypeOK, disk, locks
<1>26. ASSUME NEW p \in Procs, OpenBlob(p) PROVE TypeOK'
  <2>1. p \in Gets /\ at[p] \in Keys
    BY <1>26, Kinds DEF OpenBlob, At, LabelsFit, TypeOK
  <2>2. readers' \in [Bodies -> SUBSET Gets]
    BY <1>26, Kinds, RequestType, <2>1 DEF OpenBlob, Goto, At, LabelsFit, TypeOK, LockRead
  <2>3. at' \in [Gets -> Keys \cup {None}]
    BY <1>26, Kinds, RequestType, <2>1 DEF OpenBlob, Goto, At, LabelsFit, TypeOK, LockRead
  <2>4. fd' \in [Procs -> Puts \cup {None}] /\ seen' \in [Gets -> Bodies \cup {Torn}]
    BY <1>26, Kinds, RequestType, <2>1 DEF OpenBlob, Goto, At, LabelsFit, TypeOK, LockRead
  <2>5. pc' \in [Procs -> Label]
    BY <1>26, Kinds, RequestType, <2>1 DEF OpenBlob, Goto, At, LabelsFit, TypeOK, LockRead
  <2> QED BY <1>26, <2>1, <2>2, <2>3, <2>4, <2>5 DEF OpenBlob, TypeOK, disk
<1>27. ASSUME NEW p \in Procs, ReadBlob(p) PROVE TypeOK'
  BY <1>27, Kinds, RequestType DEF ReadBlob, Goto, At, disk, LabelsFit, TypeOK
<1>28. ASSUME NEW p \in Procs, LockTimeout(p) PROVE TypeOK'
  BY <1>28, Kinds, RequestType DEF LockTimeout, Goto, At, Waiting, disk, locks, TypeOK
<1> QED
  BY <1>1, <1>2, <1>3, <1>4, <1>5, <1>6, <1>7, <1>8, <1>9, <1>10, <1>11, <1>12, <1>13, <1>14,
     <1>15, <1>16, <1>17, <1>18, <1>19, <1>20, <1>21, <1>22, <1>23, <1>24, <1>25, <1>26, <1>27, <1>28
     DEF Next, Step, PutStep, GetStep

(* Every variable keeps its type. *)
THEOREM TypeCorrect == Spec => []TypeOK
<1>1. Init => TypeOK /\ LabelsFit
  BY ProcsAssumption, FlagsAssumption DEF Init, TypeOK, LabelsFit, Label, Ended, Procs, Puts
<1>2. TypeOK /\ LabelsFit /\ [Next]_vars => (TypeOK /\ LabelsFit)'
  BY StepTypes, StepLabels
<1> QED BY <1>1, <1>2, PTL DEF Spec

(***************************************************************************)
(* A file is written only by requests that carry its body: a manifest      *)
(* writer opens its own file or the one under the key of its body, a blob  *)
(* writer its own, and a blob gets the name of a body only once its digest *)
(* is verified.                                                            *)
(***************************************************************************)
StagedIsOwn == \A p \in BlobPuts : file[p] \in {None, p}
DataOfCreator == \A q \in Puts : data[q] \in {req[q].body, Torn}
OpenSameBody ==
    \A p \in Puts : fd[p] # None => fd[p] \in Puts /\ req[fd[p]].body = req[p].body
MatchesDigest ==
    \A p \in Puts : p \in ManifestPuts \/ pc[p] = "move" => req[p].body = Key(p)
NamedByBody == \A k \in Bodies : file[k] # None => req[file[k]].body = k

ContentInv ==
    /\ StagedIsOwn /\ DataOfCreator /\ OpenSameBody /\ MatchesDigest /\ NamedByBody

(* A step that opens and writes no file, and brings no blob to its Move. *)
LEMMA ContentUntouched ==
    ASSUME ContentInv, UNCHANGED <<req, file, data, fd>>,
           \A p \in Puts : pc'[p] = "move" => pc[p] = "move"
    PROVE  ContentInv'
BY DEF ContentInv, StagedIsOwn, DataOfCreator, OpenSameBody, MatchesDigest, NamedByBody, Key

(* The same for the steps of readers, who open files too. *)
LEMMA ContentOfPuts ==
    ASSUME ContentInv, UNCHANGED <<req, file, data>>,
           \A p \in Puts : fd'[p] = fd[p] /\ pc'[p] = pc[p]
    PROVE  ContentInv'
BY DEF ContentInv, StagedIsOwn, DataOfCreator, OpenSameBody, MatchesDigest, NamedByBody, Key

(* Readers write nothing and leave the writers alone; *)
LEMMA GetFrame ==
    ASSUME TypeOK, LabelsFit, NEW p \in Procs, GetStep(p)
    PROVE  /\ UNCHANGED <<req, file, data, meta, writer>>
           /\ \A q \in Puts : pc'[q] = pc[q] /\ fd'[q] = fd[q]
<1> USE DEF GetStep, GetBlobMeta, ResolveTag, GetManifestMeta, OpenBlob, ReadBlob
<1>1. p \notin Puts
  BY Kinds DEF At, LabelsFit
<1>2. UNCHANGED <<req, file, data, meta, writer>>
  BY DEF disk, locks
<1>3. \E l : pc' = [pc EXCEPT ![p] = l]
  BY DEF Goto
<1>4. fd' = fd \/ \E f : fd' = [fd EXCEPT ![p] = f]
  OBVIOUS
<1> HIDE DEF GetStep, GetBlobMeta, ResolveTag, GetManifestMeta, OpenBlob, ReadBlob
<1> QED BY <1>1, <1>2, <1>3, <1>4, Kinds DEF TypeOK

(* and who gives up on a lock only ends, or goes to discard its staged blob. *)
LEMMA TimeoutFrame ==
    ASSUME NEW p \in Procs, LockTimeout(p)
    PROVE  /\ UNCHANGED <<req, file, data, meta, writer, fd>>
           /\ pc' = [pc EXCEPT ![p] = "movefailed"] \/ pc' = [pc EXCEPT ![p] = "failed"]
BY DEF LockTimeout, Goto, disk, locks

(* Each step keeps files to the bodies of their writers. *)
LEMMA StepContent ==
    ASSUME TypeOK, LabelsFit, ContentInv, [Next]_vars
    PROVE  ContentInv'
<1>1. CASE UNCHANGED vars \/ Quiet
  BY <1>1, ContentUntouched DEF vars, Quiet
<1>2. CASE Crash
  BY <1>2, Kinds
     DEF Crash, disk, TypeOK, ContentInv, StagedIsOwn, DataOfCreator, OpenSameBody,
         MatchesDigest, NamedByBody, Key
<1>3. ASSUME NEW p \in Procs, StageMkdir(p) PROVE ContentInv'
  BY <1>3, ContentUntouched, Kinds DEF StageMkdir, Goto, handles, TypeOK
<1>4. ASSUME NEW p \in Procs, StageCreate(p) PROVE ContentInv'
  <2>1. CASE UNCHANGED <<file, data, fd>>
    <3>1. /\ req' = req
          /\ pc' = [pc EXCEPT ![p] = "copy"] \/ pc' = [pc EXCEPT ![p] = "failed"]
      BY <1>4 DEF StageCreate, Goto
    <3>2. \A q \in Puts : pc'[q] = "move" => pc[q] = "move"
      BY <3>1, Kinds DEF TypeOK
    <3> QED BY <2>1, <3>1, <3>2, ContentUntouched
  <2>2. CASE /\ file' = [file EXCEPT ![p] = p] /\ data' = [data EXCEPT ![p] = Torn]
             /\ fd' = [fd EXCEPT ![p] = p] /\ pc' = [pc EXCEPT ![p] = "copy"]
    <3>1. p \in BlobPuts /\ req' = req
      BY <1>4 DEF StageCreate
    <3> QED BY <2>2, <3>1, Kinds
               DEF TypeOK, ContentInv, StagedIsOwn, DataOfCreator, OpenSameBody, MatchesDigest,
                   NamedByBody, Key
  <2> QED BY <1>4, <2>1, <2>2 DEF StageCreate, Goto
<1>5. ASSUME NEW p \in Procs, StageMetaMkdir(p) PROVE ContentInv'
  BY <1>5, ContentUntouched, Kinds DEF StageMetaMkdir, Goto, handles, TypeOK
<1>6. ASSUME NEW p \in Procs, StageMetaCreate(p) PROVE ContentInv'
  BY <1>6, ContentUntouched, Kinds DEF StageMetaCreate, Goto, handles, TypeOK
<1>7. ASSUME NEW p \in Procs, StageMetaWrite(p) PROVE ContentInv'
  BY <1>7, ContentUntouched, Kinds DEF StageMetaWrite, Goto, handles, TypeOK
<1>8. ASSUME NEW p \in Procs, VerifyDigest(p) PROVE ContentInv'
  BY <1>8, Kinds
     DEF VerifyDigest, At, Goto, DiscardStaged, handles, TypeOK, ContentInv, StagedIsOwn,
         DataOfCreator, OpenSameBody, MatchesDigest, NamedByBody, Key
<1>9. ASSUME NEW p \in Procs, MoveBlob(p) PROVE ContentInv'
  <2>0. p \in BlobPuts /\ pc[p] = "move"
    BY <1>9 DEF MoveBlob, At, LabelsFit
  <2>1. /\ p \in BlobPuts /\ Key(p) \in Bodies /\ req[p].body = Key(p)
        /\ file[p] \in {None, p}
    BY <2>0, Kinds, RequestType DEF TypeOK, ContentInv, MatchesDigest, StagedIsOwn
  <2>2. /\ file' = [file EXCEPT ![Key(p)] = file[p], ![p] = None]
        /\ pc' = [pc EXCEPT ![p] = "movemeta"] /\ req' = req /\ data' = data /\ fd' = fd
    BY <1>9 DEF MoveBlob, Goto, handles
  <2>3. StagedIsOwn' /\ NamedByBody'
    BY <2>1, <2>2, Kinds DEF TypeOK, ContentInv, StagedIsOwn, NamedByBody
  <2>4. MatchesDigest'
    BY <2>2, Kinds DEF TypeOK, ContentInv, MatchesDigest, Key
  <2> QED BY <2>2, <2>3, <2>4 DEF ContentInv, DataOfCreator, OpenSameBody
<1>10. ASSUME NEW p \in Procs, MoveMeta(p) PROVE ContentInv'
  BY <1>10, ContentUntouched, Kinds DEF MoveMeta, Goto, TypeOK
<1>11. ASSUME NEW p \in Procs, RemoveBlobDir(p) PROVE ContentInv'
  BY <1>11, ContentUntouched, Kinds DEF RemoveBlobDir, Goto, handles, TypeOK
<1>12. ASSUME NEW p \in Procs, RemoveMetaDir(p) PROVE ContentInv'
  BY <1>12, ContentUntouched, Kinds DEF RemoveMetaDir, Goto, handles, TypeOK
<1>13. ASSUME NEW p \in Procs, MoveFailed(p) PROVE ContentInv'
  BY <1>13, Kinds
     DEF MoveFailed, Goto, DiscardStaged, handles, TypeOK, ContentInv, StagedIsOwn,
         DataOfCreator, OpenSameBody, MatchesDigest, NamedByBody, Key
<1>14. ASSUME NEW p \in Procs, StatManifest(p) PROVE ContentInv'
  BY <1>14, ContentUntouched, Kinds DEF StatManifest, Goto, disk, handles, TypeOK
<1>15. ASSUME NEW p \in Procs, ExistingManifest(p) PROVE ContentInv'
  BY <1>15, ContentUntouched, Kinds DEF ExistingManifest, Goto, disk, handles, TypeOK
<1>16. ASSUME NEW p \in Procs, CreateManifest(p) PROVE ContentInv'
  <2> DEFINE f == IF file[Key(p)] = None THEN p ELSE file[Key(p)]
  <2>1. f \in Puts /\ req[f].body = Key(p) /\ req[p].body = Key(p)
    BY <1>16, Kinds, RequestType DEF CreateManifest, TypeOK, ContentInv, MatchesDigest, NamedByBody
  <2>2. /\ file' = [file EXCEPT ![Key(p)] = f] /\ data' = [data EXCEPT ![f] = Torn]
        /\ fd' = [fd EXCEPT ![p] = f] /\ pc' = [pc EXCEPT ![p] = "copy"] /\ req' = req
    BY <1>16 DEF CreateManifest, Goto
  <2> HIDE DEF f
  <2> QED BY <2>1, <2>2, Kinds, RequestType
             DEF TypeOK, ContentInv, StagedIsOwn, DataOfCreator, OpenSameBody, MatchesDigest,
                 NamedByBody, Key
<1>17. ASSUME NEW p \in Procs, ManifestMetaCreate(p) PROVE ContentInv'
  BY <1>17, ContentUntouched, Kinds DEF ManifestMetaCreate, Goto, TypeOK
<1>18. ASSUME NEW p \in Procs, ManifestMetaWrite(p) PROVE ContentInv'
  BY <1>18, ContentUntouched, Kinds DEF ManifestMetaWrite, Goto, TypeOK
<1>19. ASSUME NEW p \in Procs, TagCreate(p) PROVE ContentInv'
  BY <1>19, ContentUntouched, Kinds DEF TagCreate, Goto, handles, TypeOK
<1>20. ASSUME NEW p \in Procs, TagWrite(p) PROVE ContentInv'
  BY <1>20, ContentUntouched, Kinds DEF TagWrite, Goto, handles, TypeOK
<1>21. ASSUME NEW p \in Procs, Copy(p) PROVE ContentInv'
  <2>1. /\ data' = data \/ data' = [data EXCEPT ![fd[p]] = req[p].body]
        /\ fd' = [fd EXCEPT ![p] = None] /\ req' = req /\ file' = file
        /\ pc' = [pc EXCEPT ![p] = "metadir"] \/ pc' = [pc EXCEPT ![p] = "failed"]
    BY <1>21 DEF Copy, Goto
  <2>2. p \in Puts
    BY <1>21 DEF Copy, At, LabelsFit
  <2>3. DataOfCreator'
    BY <2>1, <2>2, Kinds DEF TypeOK, ContentInv, DataOfCreator, OpenSameBody
  <2>4. OpenSameBody' /\ MatchesDigest'
    BY <2>1, Kinds DEF TypeOK, ContentInv, OpenSameBody, MatchesDigest, Key
  <2> QED BY <2>1, <2>3, <2>4 DEF ContentInv, StagedIsOwn, NamedByBody
<1>22. ASSUME NEW p \in Procs, AddReference(p) PROVE ContentInv'
  BY <1>22, ContentUntouched, Kinds DEF AddReference, Goto, disk, handles, TypeOK
<1>23. ASSUME NEW p \in Procs, GetStep(p) PROVE ContentInv'
  BY <1>23, GetFrame, ContentOfPuts
<1>24. ASSUME NEW p \in Procs, LockTimeout(p) PROVE ContentInv'
  BY <1>24, TimeoutFrame, ContentUntouched, Kinds DEF TypeOK
<1> QED
  BY <1>1, <1>2, <1>3, <1>4, <1>5, <1>6, <1>7, <1>8, <1>9, <1>10, <1>11, <1>12, <1>13, <1>14,
     <1>15, <1>16, <1>17, <1>18, <1>19, <1>20, <1>21, <1>22, <1>23, <1>24
     DEF Next, Step, PutStep

(* At the start there are no files. *)
LEMMA InitInv == Init => TypeOK /\ LabelsFit /\ ContentInv
<1>1. Init => TypeOK /\ LabelsFit
  BY ProcsAssumption, FlagsAssumption DEF Init, TypeOK, LabelsFit, Label, Ended, Procs, Puts
<1> QED BY <1>1, Kinds
           DEF Init, ContentInv, StagedIsOwn, DataOfCreator, OpenSameBody, MatchesDigest,
               NamedByBody, Key

(* Content is never stored, or left stored, under a digest it does not match, with or
   without locks and whatever crashes and failed copies leave behind. *)
THEOREM ContentUnderItsDigest == Spec => []ContentAddressed
<1>1. Init => TypeOK /\ LabelsFit /\ ContentInv
  BY InitInv
<1>2. TypeOK /\ LabelsFit /\ ContentInv /\ [Next]_vars => (TypeOK /\ LabelsFit /\ ContentInv)'
  BY StepTypes, StepLabels, StepContent
<1>3. TypeOK /\ ContentInv => ContentAddressed
  BY Kinds DEF TypeOK, ContentInv, DataOfCreator, NamedByBody, ContentAddressed
<1> QED BY <1>1, <1>2, <1>3, PTL DEF Spec

(***************************************************************************)
(* With locks more is true.  A writer has the lock of its key from its     *)
(* first step on that key to its last (HoldsLock); a file is written by    *)
(* its creator only, which does not begin again once the file has the name *)
(* of a body (OwnFiles); and what has been published stays (Published).    *)
(***************************************************************************)
HoldsLock ==
    \A p \in Puts :
        \/ pc[p] \in {"movemeta", "rmblobdir", "rmmetadir", "existing", "tagwrite"}
        \/ p \in ManifestPuts /\ pc[p] \in {"create", "copy", "metadir", "metawrite"}
        => writer[Key(p)] = p

OwnFiles ==
    \A p \in Puts :
        /\ fd[p] \in {None, p}
        /\ pc[p] \in {"idle", "create"} => \A k \in Bodies : file[k] # p
        /\ p \in BlobPuts /\ pc[p] = "copy" => file[p] = p /\ fd[p] = p
        /\ p \in BlobPuts /\ pc[p] \in {"metadir", "meta", "metawrite", "verify", "move"} =>
               file[p] = p /\ data[p] = req[p].body
        /\ p \in ManifestPuts /\ pc[p] = "create" => file[Key(p)] = None
        /\ p \in ManifestPuts /\ pc[p] = "copy" => file[Key(p)] = p /\ fd[p] = p

Published ==
    \A p \in Puts :
        /\ p \in BlobPuts /\ pc[p] \in {"movemeta", "rmblobdir", "rmmetadir", "ref", "acked"} =>
               Whole(Key(p))
        /\ p \in ManifestPuts /\ pc[p] \in {"metadir", "metawrite"} => Whole(Key(p))
        /\ pc[p] \in {"existing", "tag", "tagwrite", "ref"} => file[Key(p)] # None

(* Each step of a writer inside its critical section finds and leaves the lock its own. *)
LEMMA StepLocks ==
    ASSUME Locked, TypeOK, LabelsFit, HoldsLock, [Next]_vars
    PROVE  HoldsLock'
<1>1. CASE UNCHANGED vars \/ Quiet
  BY <1>1 DEF vars, Quiet, HoldsLock, Key
<1>2. CASE Crash
  BY <1>2, Kinds DEF Crash, Running, Ended, TypeOK, HoldsLock, Key
<1>3. ASSUME NEW p \in Procs, StageMkdir(p) PROVE HoldsLock'
  BY <1>3, Kinds, RequestType
     DEF StageMkdir, Goto, At, locks, LabelsFit, TypeOK, HoldsLock, Key
<1>4. ASSUME NEW p \in Procs, StageCreate(p) PROVE HoldsLock'
  BY <1>4, Kinds, RequestType
     DEF StageCreate, Goto, At, locks, LabelsFit, TypeOK, HoldsLock, Key
<1>5. ASSUME NEW p \in Procs, StageMetaMkdir(p) PROVE HoldsLock'
  BY <1>5, Kinds, RequestType
     DEF StageMetaMkdir, Goto, At, locks, LabelsFit, TypeOK, HoldsLock, Key
<1>6. ASSUME NEW p \in Procs, StageMetaCreate(p) PROVE HoldsLock'
  BY <1>6, Kinds, RequestType
     DEF StageMetaCreate, Goto, At, locks, LabelsFit, TypeOK, HoldsLock, Key
<1>7. ASSUME NEW p \in Procs, StageMetaWrite(p) PROVE HoldsLock'
  BY <1>7, Kinds, RequestType
     DEF StageMetaWrite, Goto, At, locks, LabelsFit, TypeOK, HoldsLock, Key
<1>8. ASSUME NEW p \in Procs, VerifyDigest(p) PROVE HoldsLock'
  BY <1>8, Kinds, RequestType
     DEF VerifyDigest, Goto, At, locks, LabelsFit, TypeOK, HoldsLock, Key
<1>9. ASSUME NEW p \in Procs, MoveBlob(p) PROVE HoldsLock'
  BY <1>9, Kinds, RequestType
     DEF MoveBlob, Goto, At, CanWrite, LockWrite, LabelsFit, TypeOK, HoldsLock, Key
<1>10. ASSUME NEW p \in Procs, MoveMeta(p) PROVE HoldsLock'
  BY <1>10, Kinds, RequestType
     DEF MoveMeta, Goto, At, locks, LabelsFit, TypeOK, HoldsLock, Key
<1>11. ASSUME NEW p \in Procs, RemoveBlobDir(p) PROVE HoldsLock'
  BY <1>11, Kinds, RequestType
     DEF RemoveBlobDir, Goto, At, locks, LabelsFit, TypeOK, HoldsLock, Key
<1>12. ASSUME NEW p \in Procs, RemoveMetaDir(p) PROVE HoldsLock'
  BY <1>12, Kinds, RequestType
     DEF RemoveMetaDir, Goto, At, Unlock, LabelsFit, TypeOK, HoldsLock, Key
<1>13. ASSUME NEW p \in Procs, MoveFailed(p) PROVE HoldsLock'
  BY <1>13, Kinds, RequestType
     DEF MoveFailed, Goto, At, locks, LabelsFit, TypeOK, HoldsLock, Key
<1>14. ASSUME NEW p \in Procs, StatManifest(p) PROVE HoldsLock'
  BY <1>14, Kinds, RequestType
     DEF StatManifest, Goto, At, CanWrite, LockWrite, LabelsFit, TypeOK, HoldsLock, Key
<1>15. ASSUME NEW p \in Procs, ExistingManifest(p) PROVE HoldsLock'
  BY <1>15, Kinds, RequestType
     DEF ExistingManifest, Goto, At, Unlock, LabelsFit, TypeOK, HoldsLock, Key
<1>16. ASSUME NEW p \in Procs, CreateManifest(p) PROVE HoldsLock'
  BY <1>16, Kinds, RequestType
     DEF CreateManifest, Goto, At, locks, LabelsFit, TypeOK, HoldsLock, Key
<1>17. ASSUME NEW p \in Procs, ManifestMetaCreate(p) PROVE HoldsLock'
  BY <1>17, Kinds, RequestType
     DEF ManifestMetaCreate, Goto, At, locks, LabelsFit, TypeOK, HoldsLock, Key
<1>18. ASSUME NEW p \in Procs, ManifestMetaWrite(p) PROVE HoldsLock'
  BY <1>18, Kinds, RequestType
     DEF ManifestMetaWrite, Goto, At, Unlock, LabelsFit, TypeOK, HoldsLock, Key
<1>19. ASSUME NEW p \in Procs, TagCreate(p) PROVE HoldsLock'
  BY <1>19, Kinds, RequestType
     DEF TagCreate, Goto, At, CanWrite, LockWrite, LabelsFit, TypeOK, HoldsLock, Key
<1>20. ASSUME NEW p \in Procs, TagWrite(p) PROVE HoldsLock'
  BY <1>20, Kinds, RequestType
     DEF TagWrite, Goto, At, Unlock, LabelsFit, TypeOK, HoldsLock, Key
<1>21. ASSUME NEW p \in Procs, Copy(p) PROVE HoldsLock'
  BY <1>21, Kinds, RequestType
     DEF Copy, Goto, At, Unlock, locks, LabelsFit, TypeOK, HoldsLock, Key
<1>22. ASSUME NEW p \in Procs, AddReference(p) PROVE HoldsLock'
  BY <1>22, Kinds, RequestType
     DEF AddReference, Goto, At, CanWrite, locks, LabelsFit, TypeOK, HoldsLock, Key
<1>23. ASSUME NEW p \in Procs, GetStep(p) PROVE HoldsLock'
  BY <1>23, GetFrame, Kinds DEF HoldsLock, Key
<1>24. ASSUME NEW p \in Procs, LockTimeout(p) PROVE HoldsLock'
  BY <1>24, TimeoutFrame, Kinds DEF TypeOK, HoldsLock, Key
<1> QED
  BY <1>1, <1>2, <1>3, <1>4, <1>5, <1>6, <1>7, <1>8, <1>9, <1>10, <1>11, <1>12, <1>13, <1>14,
     <1>15, <1>16, <1>17, <1>18, <1>19, <1>20, <1>21, <1>22, <1>23, <1>24
     DEF Next, Step, PutStep

(* Each step leaves files to their creators. *)
LEMMA StepFiles ==
    ASSUME Locked, TypeOK, LabelsFit, ContentInv, HoldsLock, OwnFiles, [Next]_vars
    PROVE  OwnFiles'
<1>1. CASE UNCHANGED vars \/ Quiet
  BY <1>1 DEF vars, Quiet, OwnFiles, Key
<1>2. CASE Crash
  BY <1>2, Kinds DEF Crash, Running, Ended, disk, TypeOK, OwnFiles, Key
<1>3. ASSUME NEW p \in Procs, StageMkdir(p) PROVE OwnFiles'
  BY <1>3, Kinds, RequestType
     DEF StageMkdir, Goto, At, handles, LabelsFit, TypeOK, HoldsLock, OwnFiles, Key
<1>4. ASSUME NEW p \in Procs, StageCreate(p) PROVE OwnFiles'
  BY <1>4, Kinds, RequestType
     DEF StageCreate, Goto, At, LabelsFit, TypeOK, HoldsLock, OwnFiles, Key
<1>5. ASSUME NEW p \in Procs, StageMetaMkdir(p) PROVE OwnFiles'
  BY <1>5, Kinds, RequestType
     DEF StageMetaMkdir, Goto, At, handles, LabelsFit, TypeOK, HoldsLock, OwnFiles, Key
<1>6. ASSUME NEW p \in Procs, StageMetaCreate(p) PROVE OwnFiles'
  BY <1>6, Kinds, RequestType
     DEF StageMetaCreate, Goto, At, handles, LabelsFit, TypeOK, HoldsLock, OwnFiles, Key
<1>7. ASSUME NEW p \in Procs, StageMetaWrite(p) PROVE OwnFiles'
  BY <1>7, Kinds, RequestType
     DEF StageMetaWrite, Goto, At, handles, LabelsFit, TypeOK, HoldsLock, OwnFiles, Key
<1>8. ASSUME NEW p \in Procs, VerifyDigest(p) PROVE OwnFiles'
  BY <1>8, Kinds, RequestType
     DEF VerifyDigest, Goto, At, DiscardStaged, handles, LabelsFit, TypeOK, HoldsLock,
         OwnFiles, Key
<1>9. ASSUME NEW p \in Procs, MoveBlob(p) PROVE OwnFiles'
  BY <1>9, Kinds, RequestType
     DEF MoveBlob, Goto, At, CanWrite, handles, LabelsFit, TypeOK, HoldsLock, OwnFiles,
         Key
<1>10. ASSUME NEW p \in Procs, MoveMeta(p) PROVE OwnFiles'
  BY <1>10, Kinds, RequestType
     DEF MoveMeta, Goto, At, LabelsFit, TypeOK, HoldsLock, OwnFiles, Key
<1>11. ASSUME NEW p \in Procs, RemoveBlobDir(p) PROVE OwnFiles'
  BY <1>11, Kinds, RequestType
     DEF RemoveBlobDir, Goto, At, handles, LabelsFit, TypeOK, HoldsLock, OwnFiles, Key
<1>12. ASSUME NEW p \in Procs, RemoveMetaDir(p) PROVE OwnFiles'
  BY <1>12, Kinds, RequestType
     DEF RemoveMetaDir, Goto, At, handles, LabelsFit, TypeOK, HoldsLock, OwnFiles, Key
<1>13. ASSUME NEW p \in Procs, MoveFailed(p) PROVE OwnFiles'
  BY <1>13, Kinds, RequestType
     DEF MoveFailed, Goto, At, DiscardStaged, handles, LabelsFit, TypeOK, HoldsLock,
         OwnFiles, Key
<1>14. ASSUME NEW p \in Procs, StatManifest(p) PROVE OwnFiles'
  BY <1>14, Kinds, RequestType
     DEF StatManifest, Goto, At, CanWrite, disk, handles, LabelsFit, TypeOK, HoldsLock,
         OwnFiles, Key
<1>15. ASSUME NEW p \in Procs, ExistingManifest(p) PROVE OwnFiles'
  BY <1>15, Kinds, RequestType
     DEF ExistingManifest, Goto, At, disk, handles, LabelsFit, TypeOK, HoldsLock,
         OwnFiles, Key
<1>16. ASSUME NEW p \in Procs, CreateManifest(p) PROVE OwnFiles'
  BY <1>16, Kinds, RequestType
     DEF CreateManifest, Goto, At, LabelsFit, TypeOK, HoldsLock, OwnFiles, Key
<1>17. ASSUME NEW p \in Procs, ManifestMetaCreate(p) PROVE OwnFiles'
  BY <1>17, Kinds, RequestType
     DEF ManifestMetaCreate, Goto, At, LabelsFit, TypeOK, HoldsLock, OwnFiles, Key
<1>18. ASSUME NEW p \in Procs, ManifestMetaWrite(p) PROVE OwnFiles'
  BY <1>18, Kinds, RequestType
     DEF ManifestMetaWrite, Goto, At, LabelsFit, TypeOK, HoldsLock, OwnFiles, Key
<1>19. ASSUME NEW p \in Procs, TagCreate(p) PROVE OwnFiles'
  BY <1>19, Kinds, RequestType
     DEF TagCreate, Goto, At, CanWrite, handles, LabelsFit, TypeOK, HoldsLock, OwnFiles,
         Key
<1>20. ASSUME NEW p \in Procs, TagWrite(p) PROVE OwnFiles'
  BY <1>20, Kinds, RequestType
     DEF TagWrite, Goto, At, handles, LabelsFit, TypeOK, HoldsLock, OwnFiles, Key
<1>21. ASSUME NEW p \in Procs, Copy(p) PROVE OwnFiles'
  BY <1>21, Kinds, RequestType
     DEF Copy, Goto, At, LabelsFit, TypeOK, HoldsLock, OwnFiles, Key
<1>22. ASSUME NEW p \in Procs, AddReference(p) PROVE OwnFiles'
  BY <1>22, Kinds, RequestType
     DEF AddReference, Goto, At, CanWrite, disk, handles, LabelsFit, TypeOK, HoldsLock,
         OwnFiles, Key
<1>23. ASSUME NEW p \in Procs, GetStep(p) PROVE OwnFiles'
  BY <1>23, GetFrame, Kinds DEF OwnFiles, Key
<1>24. ASSUME NEW p \in Procs, LockTimeout(p) PROVE OwnFiles'
  BY <1>24, TimeoutFrame, Kinds DEF TypeOK, OwnFiles, Key
<1> QED
  BY <1>1, <1>2, <1>3, <1>4, <1>5, <1>6, <1>7, <1>8, <1>9, <1>10, <1>11, <1>12, <1>13, <1>14,
     <1>15, <1>16, <1>17, <1>18, <1>19, <1>20, <1>21, <1>22, <1>23, <1>24
     DEF Next, Step, PutStep

(* The steps that touch a file or its name. *)
LEMMA WriteSteps ==
    ASSUME [Next]_vars
    PROVE  \/ UNCHANGED <<file, data>>
           \/ \E p \in Procs : StageCreate(p) \/ VerifyDigest(p) \/ MoveBlob(p)
                              \/ MoveFailed(p) \/ CreateManifest(p) \/ Copy(p)
<1>1. CASE UNCHANGED vars \/ Quiet \/ Crash
  BY <1>1 DEF vars, Quiet, Crash, disk
<1>2. ASSUME NEW p \in Procs, Step(p)
      PROVE  \/ UNCHANGED <<file, data>>
             \/ StageCreate(p) \/ VerifyDigest(p) \/ MoveBlob(p)
             \/ MoveFailed(p) \/ CreateManifest(p) \/ Copy(p)
  BY <1>2
     DEF Step, PutStep, GetStep, StageMkdir, StageMetaMkdir, StageMetaCreate,
         StageMetaWrite, MoveMeta, RemoveBlobDir, RemoveMetaDir, StatManifest,
         ExistingManifest, ManifestMetaCreate, ManifestMetaWrite, TagCreate, TagWrite,
         AddReference, GetBlobMeta, ResolveTag, GetManifestMeta, OpenBlob, ReadBlob,
         LockTimeout, disk
<1> QED BY <1>1, <1>2 DEF Next

(* No step takes a whole blob from its key, and none empties a key. *)
LEMMA WholeKept ==
    ASSUME Locked, TypeOK, LabelsFit, ContentInv, HoldsLock, OwnFiles, [Next]_vars,
           NEW k \in Bodies
    PROVE  (file[k] # None => file'[k] # None) /\ (Whole(k) => Whole(k)')
<1> DEFINE Kept == (file[k] # None => file'[k] # None) /\ (Whole(k) => Whole(k)')
<1> USE DEF Whole
<1>1. CASE UNCHANGED <<file, data>>
  BY <1>1
<1>2. ASSUME NEW p \in Procs, StageCreate(p) PROVE Kept
  BY <1>2, Kinds DEF StageCreate, At, TypeOK, OwnFiles
<1>3. ASSUME NEW p \in Procs, VerifyDigest(p) \/ MoveFailed(p) PROVE Kept
  BY <1>3, Kinds DEF VerifyDigest, MoveFailed, At, DiscardStaged, LabelsFit, TypeOK
<1>4. ASSUME NEW p \in Procs, MoveBlob(p) PROVE Kept
  <2>1. /\ p \in BlobPuts /\ Key(p) \in Bodies
        /\ file' = [file EXCEPT ![Key(p)] = file[p], ![p] = None] /\ data' = data
        /\ pc[p] = "move"
    BY <1>4, Kinds, RequestType DEF MoveBlob, At, LabelsFit, TypeOK
  <2>2. file[p] = p /\ data[p] = Key(p)
    BY <2>1, Kinds DEF OwnFiles, ContentInv, MatchesDigest
  <2> QED BY <2>1, <2>2, Kinds DEF TypeOK
<1>5. ASSUME NEW p \in Procs, CreateManifest(p) PROVE Kept
  BY <1>5, Kinds, RequestType DEF CreateManifest, At, TypeOK, OwnFiles
<1>6. ASSUME NEW p \in Procs, Copy(p) PROVE Kept
  <2>1. /\ p \in Puts /\ fd[p] = p /\ file' = file
        /\ data' = data \/ data' = [data EXCEPT ![p] = req[p].body]
    BY <1>6, Kinds DEF Copy, At, LabelsFit, OwnFiles
  <2>2. file[k] = p => req[p].body = k
    BY <2>1, Kinds DEF ContentInv, NamedByBody
  <2> QED BY <2>1, <2>2, Kinds DEF TypeOK
<1> QED BY <1>1, <1>2, <1>3, <1>4, <1>5, <1>6, WriteSteps

(* Each step publishes whole blobs only. *)
LEMMA StepPublished ==
    ASSUME Locked, TypeOK, LabelsFit, ContentInv, HoldsLock, OwnFiles, Published, MetaMeansWhole, [Next]_vars
    PROVE  Published'
<1> USE DEF Ended, Whole
<1>0. /\ req \in [Procs -> Request]
      /\ \A k \in Bodies : (file[k] # None => file'[k] # None) /\ (Whole(k) => Whole(k)')
  BY WholeKept DEF TypeOK
<1>1. CASE UNCHANGED vars \/ Quiet
  BY <1>1 DEF vars, Quiet, Published, Whole, Key
<1>2. CASE Crash
  BY <1>2, <1>0, Kinds, RequestType DEF Crash, Running, TypeOK, Published, Key
<1>3. ASSUME NEW p \in Procs, StageMkdir(p) PROVE Published'
  BY <1>3, Kinds, RequestType, <1>0
     DEF StageMkdir, Goto, At, LabelsFit, TypeOK, Published, Key
<1>4. ASSUME NEW p \in Procs, StageCreate(p) PROVE Published'
  BY <1>4, Kinds, RequestType, <1>0
     DEF StageCreate, Goto, At, LabelsFit, TypeOK, Published, Key
<1>5. ASSUME NEW p \in Procs, StageMetaMkdir(p) PROVE Published'
  BY <1>5, Kinds, RequestType, <1>0
     DEF StageMetaMkdir, Goto, At, LabelsFit, TypeOK, Published, Key
<1>6. ASSUME NEW p \in Procs, StageMetaCreate(p) PROVE Published'
  BY <1>6, Kinds, RequestType, <1>0
     DEF StageMetaCreate, Goto, At, LabelsFit, TypeOK, Published, Key
<1>7. ASSUME NEW p \in Procs, StageMetaWrite(p) PROVE Published'
  BY <1>7, Kinds, RequestType, <1>0
     DEF StageMetaWrite, Goto, At, LabelsFit, TypeOK, Published, Key
<1>8. ASSUME NEW p \in Procs, VerifyDigest(p) PROVE Published'
  BY <1>8, Kinds, RequestType, <1>0
     DEF VerifyDigest, Goto, At, LabelsFit, TypeOK, Published, Key
<1>9. ASSUME NEW p \in Procs, MoveBlob(p) PROVE Published'
  <2>1. /\ p \in BlobPuts /\ pc[p] = "move" /\ req' = req /\ data' = data
        /\ file' = [file EXCEPT ![Key(p)] = file[p], ![p] = None]
        /\ pc' = [pc EXCEPT ![p] = "movemeta"]
    BY <1>9 DEF MoveBlob, At, Goto, LabelsFit
  <2>2. file[p] = p /\ data[p] = Key(p)
    BY <2>1, Kinds DEF OwnFiles, ContentInv, MatchesDigest
  <2>3. Whole(Key(p))'
    BY <2>1, <2>2, Kinds, RequestType DEF TypeOK, Key
  <2>4. SUFFICES ASSUME NEW q \in Puts
                PROVE  /\ q \in BlobPuts /\ pc'[q] \in {"movemeta", "rmblobdir", "rmmetadir", "ref", "acked"} =>
                              Whole(Key(q))'
                       /\ q \in ManifestPuts /\ pc'[q] \in {"metadir", "metawrite"} => Whole(Key(q))'
                       /\ pc'[q] \in {"existing", "tag", "tagwrite", "ref"} => file'[Key(q)'] # None
    BY DEF Published
  <2>5. CASE q = p
    BY <2>1, <2>3, <2>5, <1>0, Kinds, RequestType DEF TypeOK, Published, Key
  <2>6. CASE q # p
    <3>1. pc'[q] = pc[q] /\ Key(q)' = Key(q) /\ Key(q) \in Bodies
      BY <2>1, <2>6, <1>0, Kinds, RequestType DEF TypeOK, Key
    <3> QED BY <3>1, <1>0 DEF Published
  <2> QED BY <2>5, <2>6
<1>10. ASSUME NEW p \in Procs, MoveMeta(p) PROVE Published'
  <2>1. p \in BlobPuts /\ pc[p] = "movemeta"
    BY <1>10 DEF MoveMeta, At, LabelsFit
  <2>2. pc' = [pc EXCEPT ![p] = "rmblobdir"] /\ req' = req
    BY <1>10 DEF MoveMeta, Goto
  <2>3. SUFFICES ASSUME NEW q \in Puts
                PROVE  /\ q \in BlobPuts /\ pc'[q] \in {"movemeta", "rmblobdir", "rmmetadir", "ref", "acked"} =>
                              Whole(Key(q))'
                       /\ q \in ManifestPuts /\ pc'[q] \in {"metadir", "metawrite"} => Whole(Key(q))'
                       /\ pc'[q] \in {"existing", "tag", "tagwrite", "ref"} => file'[Key(q)'] # None
    BY DEF Published
  <2>4. CASE q = p
    BY <2>1, <2>2, <2>4, <1>0, Kinds, RequestType DEF TypeOK, Published, Key
  <2>5. CASE q # p
    <3>1. pc'[q] = pc[q] /\ Key(q)' = Key(q) /\ Key(q) \in Bodies
      BY <2>1, <2>2, <2>5, <1>0, Kinds, RequestType DEF TypeOK, Key
    <3> QED BY <3>1, <1>0 DEF Published
  <2> QED BY <2>4, <2>5
<1>11. ASSUME NEW p \in Procs, RemoveBlobDir(p) PROVE Published'
  BY <1>11, Kinds, RequestType, <1>0
     DEF RemoveBlobDir, Goto, At, LabelsFit, TypeOK, Published, Key
<1>12. ASSUME NEW p \in Procs, RemoveMetaDir(p) PROVE Published'
  BY <1>12, Kinds, RequestType, <1>0
     DEF RemoveMetaDir, Goto, At, LabelsFit, TypeOK, Published, Key
<1>13. ASSUME NEW p \in Procs, MoveFailed(p) PROVE Published'
  <2>1. /\ p \in BlobPuts /\ req' = req
        /\ \/ meta[Key(p)] \notin {None, Torn} /\ pc' = [pc EXCEPT ![p] = "ref"]
           \/ pc' = [pc EXCEPT ![p] = "failed"]
    BY <1>13 DEF MoveFailed, At, Goto, LabelsFit
  <2>2. pc'[p] = "ref" => Whole(Key(p))'
    BY <2>1, <1>0, Kinds, RequestType DEF TypeOK, MetaMeansWhole, Key
  <2> QED BY <2>1, <2>2, <1>0, Kinds, RequestType DEF TypeOK, Published, Key
<1>14. ASSUME NEW p \in Procs, StatManifest(p) PROVE Published'
  BY <1>14, Kinds, RequestType, <1>0
     DEF StatManifest, Goto, At, CanWrite, LabelsFit, TypeOK, Published, Key
<1>15. ASSUME NEW p \in Procs, ExistingManifest(p) PROVE Published'
  BY <1>15, Kinds, RequestType, <1>0
     DEF ExistingManifest, Goto, At, LabelsFit, TypeOK, Published, Key
<1>16. ASSUME NEW p \in Procs, CreateManifest(p) PROVE Published'
  <2>1. p \in ManifestPuts /\ pc' = [pc EXCEPT ![p] = "copy"] /\ req' = req
    BY <1>16 DEF CreateManifest, Goto
  <2> QED BY <2>1, <1>0, Kinds, RequestType DEF TypeOK, Published, Key
<1>17. ASSUME NEW p \in Procs, ManifestMetaCreate(p) PROVE Published'
  BY <1>17, Kinds, RequestType, <1>0
     DEF ManifestMetaCreate, Goto, At, LabelsFit, TypeOK, Published, Key
<1>18. ASSUME NEW p \in Procs, ManifestMetaWrite(p) PROVE Published'
  BY <1>18, Kinds, RequestType, <1>0
     DEF ManifestMetaWrite, Goto, At, LabelsFit, TypeOK, Published, Key
<1>19. ASSUME NEW p \in Procs, TagCreate(p) PROVE Published'
  BY <1>19, Kinds, RequestType, <1>0
     DEF TagCreate, Goto, At, CanWrite, LabelsFit, TypeOK, Published, Key
<1>20. ASSUME NEW p \in Procs, TagWrite(p) PROVE Published'
  BY <1>20, Kinds, RequestType, <1>0
     DEF TagWrite, Goto, At, LabelsFit, TypeOK, Published, Key
<1>21. ASSUME NEW p \in Procs, Copy(p) PROVE Published'
  <2>1. /\ p \in Puts /\ pc[p] = "copy" /\ req' = req /\ file' = file
        /\ \/ data' = [data EXCEPT ![fd[p]] = req[p].body] /\ pc' = [pc EXCEPT ![p] = "metadir"]
           \/ pc' = [pc EXCEPT ![p] = "failed"]
    BY <1>21 DEF Copy, At, Goto, LabelsFit
  <2>2. pc'[p] = "metadir" /\ p \in ManifestPuts => Whole(Key(p))'
    BY <2>1, Kinds, RequestType DEF TypeOK, OwnFiles, ContentInv, MatchesDigest, Key
  <2> QED BY <2>1, <2>2, <1>0, Kinds, RequestType DEF TypeOK, Published, Key
<1>22. ASSUME NEW p \in Procs, AddReference(p) PROVE Published'
  BY <1>22, Kinds, RequestType, <1>0
     DEF AddReference, Goto, At, CanWrite, LabelsFit, TypeOK, Published, Key
<1>23. ASSUME NEW p \in Procs, GetStep(p) PROVE Published'
  BY <1>23, GetFrame, Kinds DEF Published, Key
<1>24. ASSUME NEW p \in Procs, LockTimeout(p) PROVE Published'
  BY <1>24, TimeoutFrame, Kinds DEF TypeOK, Published, Key
<1> QED
  BY <1>1, <1>2, <1>3, <1>4, <1>5, <1>6, <1>7, <1>8, <1>9, <1>10, <1>11, <1>12, <1>13, <1>14,
     <1>15, <1>16, <1>17, <1>18, <1>19, <1>20, <1>21, <1>22, <1>23, <1>24
     DEF Next, Step, PutStep

(* The steps that touch metadata. *)
LEMMA MetaSteps ==
    ASSUME [Next]_vars
    PROVE  \/ UNCHANGED meta
           \/ \E p \in Procs : StageMetaCreate(p) \/ StageMetaWrite(p) \/ VerifyDigest(p)
                              \/ MoveMeta(p) \/ MoveFailed(p) \/ ManifestMetaCreate(p)
                              \/ ManifestMetaWrite(p)
<1>1. CASE UNCHANGED vars \/ Quiet \/ Crash
  BY <1>1 DEF vars, Quiet, Crash, disk
<1>2. ASSUME NEW p \in Procs, Step(p)
      PROVE  \/ UNCHANGED meta
             \/ StageMetaCreate(p) \/ StageMetaWrite(p) \/ VerifyDigest(p) \/ MoveMeta(p)
             \/ MoveFailed(p) \/ ManifestMetaCreate(p) \/ ManifestMetaWrite(p)
  BY <1>2
     DEF Step, PutStep, GetStep, StageMkdir, StageCreate, StageMetaMkdir, MoveBlob,
         RemoveBlobDir, RemoveMetaDir, StatManifest, ExistingManifest, CreateManifest,
         TagCreate, TagWrite, Copy, AddReference, GetBlobMeta, ResolveTag,
         GetManifestMeta, OpenBlob, ReadBlob, LockTimeout, disk
<1> QED BY <1>1, <1>2 DEF Next

(* Metadata becomes readable only for a blob that is whole by then. *)
LEMMA StepMeta ==
    ASSUME Locked, TypeOK, LabelsFit, ContentInv, HoldsLock, OwnFiles, Published,
           MetaMeansWhole, [Next]_vars
    PROVE  MetaMeansWhole'
<1> DEFINE Readable(k) == meta[k] \notin {None, Torn}
<1> SUFFICES ASSUME NEW k \in Bodies, Readable(k)' PROVE Whole(k)'
  BY DEF MetaMeansWhole
<1>1. SUFFICES ASSUME ~Readable(k) PROVE Whole(k)
  BY WholeKept DEF MetaMeansWhole
<1>2. CASE UNCHANGED meta
  BY <1>1, <1>2
<1>3. ASSUME NEW p \in Procs,
             \/ StageMetaCreate(p) \/ StageMetaWrite(p) \/ VerifyDigest(p) \/ MoveFailed(p)
      PROVE  Whole(k)
  <2>1. p \in BlobPuts
    BY <1>3 DEF StageMetaCreate, StageMetaWrite, VerifyDigest, MoveFailed, At, LabelsFit
  <2>2. meta'[k] = meta[k]
    BY <1>3, <2>1, Kinds
       DEF StageMetaCreate, StageMetaWrite, VerifyDigest, MoveFailed, DiscardStaged, TypeOK
  <2> QED BY <1>1, <2>2
<1>4. ASSUME NEW p \in Procs, MoveMeta(p) PROVE Whole(k)
  <2>1. p \in BlobPuts /\ Whole(Key(p))
    BY <1>4, Kinds DEF MoveMeta, At, LabelsFit, Published
  <2>2. k = Key(p)
    BY <1>1, <1>4, <2>1, Kinds DEF MoveMeta, TypeOK
  <2> QED BY <2>1, <2>2
<1>5. ASSUME NEW p \in Procs, ManifestMetaCreate(p) PROVE Whole(k)
  BY <1>1, <1>5 DEF ManifestMetaCreate, TypeOK
<1>6. ASSUME NEW p \in Procs, ManifestMetaWrite(p) PROVE Whole(k)
  <2>1. Whole(Key(p))
    BY <1>6, Kinds DEF ManifestMetaWrite, At, Published
  <2>2. k = Key(p)
    BY <1>1, <1>6 DEF ManifestMetaWrite, TypeOK
  <2> QED BY <2>1, <2>2
<1> QED BY <1>2, <1>3, <1>4, <1>5, <1>6, MetaSteps

(***************************************************************************)
(* Readers: a file is complete or still torn, and once complete it does    *)
(* not change (WrittenOnce), so that whoever opened it reads it whole.     *)
(* Moved metadata names a staging key that has no file any more            *)
(* (StagedMeta, MetaNames): a reader that follows it finds nothing.        *)
(***************************************************************************)
WrittenOnce == \A q \in Puts : pc[q] \in {"idle", "create"} => data[q] = Torn
Gone(q) == pc[q] \notin {"idle", "create"} /\ file[q] = None
StagedMeta ==
    \A p \in BlobPuts :
        /\ meta[p] \in {None, Torn, p}
        /\ pc[p] = "movemeta" => file[p] = None
MetaNames ==
    \A k \in Bodies :
        \/ meta[k] \in {None, Torn, k}
        \/ \E q \in BlobPuts : meta[k] = q /\ Gone(q)
Reading(p) ==
    /\ pc[p] = "open" => \/ at[p] \in Bodies /\ Whole(at[p])
                         \/ \E q \in BlobPuts : at[p] = q /\ Gone(q)
    /\ pc[p] = "open" /\ p \in BlobGets => at[p] = Key(p)
    /\ pc[p] = "read" => /\ fd[p] \in Puts /\ seen[p] = data[fd[p]] /\ seen[p] # Torn
                         /\ (p \in BlobGets => seen[p] = Key(p))
ReadWhole == \A p \in Gets : Reading(p)

(* No request goes back to where it has not created its file yet. *)
LEMMA NoReturn ==
    ASSUME TypeOK, [Next]_vars, NEW q \in Procs, pc'[q] \in {"idle", "create"}
    PROVE  pc[q] \in {"idle", "create"}
<1>1. CASE UNCHANGED vars \/ Quiet \/ Crash
  BY <1>1 DEF vars, Quiet, Crash
<1>2. ASSUME NEW p \in Procs, PutStep(p) PROVE pc[q] \in {"idle", "create"}
  <2>1. pc' = pc \/ \E l \in Label : Goto(p, l) /\ (At(p, "idle") \/ l \notin {"idle", "create"})
    BY <1>2
       DEF PutStep, Label, Ended, StageMkdir, StageCreate, StageMetaMkdir,
           StageMetaCreate, StageMetaWrite, VerifyDigest, MoveBlob, MoveMeta,
           RemoveBlobDir, RemoveMetaDir, MoveFailed, StatManifest, ExistingManifest,
           CreateManifest, ManifestMetaCreate, ManifestMetaWrite, TagCreate, TagWrite,
           Copy, AddReference
  <2> QED BY <2>1 DEF Goto, At, TypeOK
<1>3. ASSUME NEW p \in Procs, GetStep(p) \/ LockTimeout(p) PROVE pc[q] \in {"idle", "create"}
  BY <1>3
     DEF GetStep, GetBlobMeta, ResolveTag, GetManifestMeta, OpenBlob, ReadBlob,
         LockTimeout, Goto, TypeOK
<1> QED BY <1>1, <1>2, <1>3 DEF Next, Step

(* No step changes a complete file, gives a moved blob its staging name back, or
   makes a file complete before its creator has created it. *)
LEMMA FilesKept ==
    ASSUME Locked, TypeOK, LabelsFit, ContentInv, HoldsLock, OwnFiles, WrittenOnce, [Next]_vars
    PROVE  /\ WrittenOnce'
           /\ \A q \in Puts : data[q] # Torn => data'[q] = data[q]
           /\ \A q \in BlobPuts : Gone(q) => Gone(q)'
<1> DEFINE Kept == /\ \A q \in Puts : data[q] # Torn => data'[q] = data[q]
                   /\ \A q \in BlobPuts :
                         pc[q] \notin {"idle", "create"} /\ file[q] = None => file'[q] = None
                   /\ \A q \in Puts : pc'[q] \in {"idle", "create"} => data'[q] = data[q]
<1>0. \A q \in Procs : pc'[q] \in {"idle", "create"} => pc[q] \in {"idle", "create"}
  BY NoReturn
<1>1. ASSUME UNCHANGED <<file, data>> PROVE Kept
  BY <1>1
<1>2. ASSUME NEW p \in Procs, StageCreate(p) PROVE Kept
  <2>1. /\ p \in BlobPuts /\ pc[p] = "create"
        /\ \/ UNCHANGED <<file, data>>
           \/ file' = [file EXCEPT ![p] = p] /\ data' = [data EXCEPT ![p] = Torn]
    BY <1>2 DEF StageCreate, At
  <2>2. data[p] = Torn
    BY <2>1, Kinds DEF WrittenOnce
  <2> QED BY <2>1, <2>2, Kinds DEF TypeOK
<1>3. ASSUME NEW p \in Procs, VerifyDigest(p) \/ MoveFailed(p) PROVE Kept
  BY <1>3, Kinds DEF VerifyDigest, MoveFailed, At, DiscardStaged, LabelsFit, TypeOK
<1>4. ASSUME NEW p \in Procs, MoveBlob(p) PROVE Kept
  BY <1>4, Kinds, RequestType DEF MoveBlob, At, LabelsFit, TypeOK
<1>5. ASSUME NEW p \in Procs, CreateManifest(p) PROVE Kept
  <2>1. /\ p \in ManifestPuts /\ pc[p] = "create" /\ file[Key(p)] = None
        /\ file' = [file EXCEPT ![Key(p)] = p] /\ data' = [data EXCEPT ![p] = Torn]
    BY <1>5, Kinds DEF CreateManifest, At, OwnFiles
  <2>2. data[p] = Torn /\ Key(p) \notin BlobPuts
    BY <2>1, Kinds, RequestType DEF WrittenOnce, TypeOK
  <2> QED BY <2>1, <2>2, Kinds, RequestType DEF TypeOK
<1>6. ASSUME NEW p \in Procs, Copy(p) PROVE Kept
  <2>1. /\ p \in Puts /\ pc[p] = "copy" /\ file' = file
        /\ pc' = [pc EXCEPT ![p] = "metadir"] \/ pc' = [pc EXCEPT ![p] = "failed"]
        /\ data' = data \/ data' = [data EXCEPT ![fd[p]] = req[p].body]
    BY <1>6 DEF Copy, At, Goto, LabelsFit
  <2>2. fd[p] = p
    BY <2>1, Kinds DEF OwnFiles
  <2>3. data[p] \in {req[p].body, Torn}
    BY <2>1 DEF ContentInv, DataOfCreator
  <2> QED BY <2>1, <2>2, <2>3, Kinds DEF TypeOK
<1>7. Kept
  BY <1>1, <1>2, <1>3, <1>4, <1>5, <1>6, WriteSteps
<1> QED BY <1>0, <1>7, Kinds DEF WrittenOnce, Gone

(* Staged metadata is its own request's, and outlives the staged blob in a Move only. *)
LEMMA StepStagedMeta ==
    ASSUME TypeOK, LabelsFit, StagedMeta, [Next]_vars
    PROVE  StagedMeta'
<1>1. CASE UNCHANGED vars \/ Quiet
  BY <1>1 DEF vars, Quiet, StagedMeta
<1>2. CASE Crash
  BY <1>2, Kinds DEF Crash, Running, Ended, disk, TypeOK, StagedMeta
<1>3. ASSUME NEW p \in Procs, StageMkdir(p) PROVE StagedMeta'
  BY <1>3, Kinds, RequestType DEF StageMkdir, Goto, At, LabelsFit, TypeOK, StagedMeta
<1>4. ASSUME NEW p \in Procs, StageCreate(p) PROVE StagedMeta'
  BY <1>4, Kinds, RequestType DEF StageCreate, Goto, At, LabelsFit, TypeOK, StagedMeta
<1>5. ASSUME NEW p \in Procs, StageMetaMkdir(p) PROVE StagedMeta'
  BY <1>5, Kinds, RequestType DEF StageMetaMkdir, Goto, At, LabelsFit, TypeOK, StagedMeta
<1>6. ASSUME NEW p \in Procs, StageMetaCreate(p) PROVE StagedMeta'
  BY <1>6, Kinds, RequestType DEF StageMetaCreate, Goto, At, LabelsFit, TypeOK, StagedMeta
<1>7. ASSUME NEW p \in Procs, StageMetaWrite(p) PROVE StagedMeta'
  BY <1>7, Kinds, RequestType DEF StageMetaWrite, Goto, At, LabelsFit, TypeOK, StagedMeta
<1>8. ASSUME NEW p \in Procs, VerifyDigest(p) PROVE StagedMeta'
  BY <1>8, Kinds, RequestType
     DEF VerifyDigest, Goto, At, DiscardStaged, LabelsFit, TypeOK, StagedMeta
<1>9. ASSUME NEW p \in Procs, MoveBlob(p) PROVE StagedMeta'
  BY <1>9, Kinds, RequestType DEF MoveBlob, Goto, At, LabelsFit, TypeOK, StagedMeta
<1>10. ASSUME NEW p \in Procs, MoveMeta(p) PROVE StagedMeta'
  BY <1>10, Kinds, RequestType DEF MoveMeta, Goto, At, LabelsFit, TypeOK, StagedMeta
<1>11. ASSUME NEW p \in Procs, RemoveBlobDir(p) PROVE StagedMeta'
  BY <1>11, Kinds, RequestType DEF RemoveBlobDir, Goto, At, LabelsFit, TypeOK, StagedMeta
<1>12. ASSUME NEW p \in Procs, RemoveMetaDir(p) PROVE StagedMeta'
  BY <1>12, Kinds, RequestType DEF RemoveMetaDir, Goto, At, LabelsFit, TypeOK, StagedMeta
<1>13. ASSUME NEW p \in Procs, MoveFailed(p) PROVE StagedMeta'
  BY <1>13, Kinds, RequestType
     DEF MoveFailed, Goto, At, DiscardStaged, LabelsFit, TypeOK, StagedMeta
<1>14. ASSUME NEW p \in Procs, StatManifest(p) PROVE StagedMeta'
  BY <1>14, Kinds, RequestType
     DEF StatManifest, Goto, At, disk, LabelsFit, TypeOK, StagedMeta
<1>15. ASSUME NEW p \in Procs, ExistingManifest(p) PROVE StagedMeta'
  BY <1>15, Kinds, RequestType
     DEF ExistingManifest, Goto, At, disk, LabelsFit, TypeOK, StagedMeta
<1>16. ASSUME NEW p \in Procs, CreateManifest(p) PROVE StagedMeta'
  BY <1>16, Kinds, RequestType DEF CreateManifest, Goto, At, LabelsFit, TypeOK, StagedMeta
<1>17. ASSUME NEW p \in Procs, ManifestMetaCreate(p) PROVE StagedMeta'
  BY <1>17, Kinds, RequestType
     DEF ManifestMetaCreate, Goto, At, LabelsFit, TypeOK, StagedMeta
<1>18. ASSUME NEW p \in Procs, ManifestMetaWrite(p) PROVE StagedMeta'
  BY <1>18, Kinds, RequestType
     DEF ManifestMetaWrite, Goto, At, LabelsFit, TypeOK, StagedMeta
<1>19. ASSUME NEW p \in Procs, TagCreate(p) PROVE StagedMeta'
  BY <1>19, Kinds, RequestType DEF TagCreate, Goto, At, LabelsFit, TypeOK, StagedMeta
<1>20. ASSUME NEW p \in Procs, TagWrite(p) PROVE StagedMeta'
  BY <1>20, Kinds, RequestType DEF TagWrite, Goto, At, LabelsFit, TypeOK, StagedMeta
<1>21. ASSUME NEW p \in Procs, Copy(p) PROVE StagedMeta'
  BY <1>21, Kinds, RequestType DEF Copy, Goto, At, LabelsFit, TypeOK, StagedMeta
<1>22. ASSUME NEW p \in Procs, AddReference(p) PROVE StagedMeta'
  BY <1>22, Kinds, RequestType
     DEF AddReference, Goto, At, disk, LabelsFit, TypeOK, StagedMeta
<1>23. ASSUME NEW p \in Procs, GetStep(p) PROVE StagedMeta'
  BY <1>23, GetFrame, Kinds DEF StagedMeta
<1>24. ASSUME NEW p \in Procs, LockTimeout(p) PROVE StagedMeta'
  BY <1>24, TimeoutFrame, Kinds DEF TypeOK, StagedMeta
<1> QED
  BY <1>1, <1>2, <1>3, <1>4, <1>5, <1>6, <1>7, <1>8, <1>9, <1>10, <1>11, <1>12, <1>13, <1>14,
     <1>15, <1>16, <1>17, <1>18, <1>19, <1>20, <1>21, <1>22, <1>23, <1>24
     DEF Next, Step, PutStep

(* Metadata names its own key, or the staging key it was moved from. *)
LEMMA StepMetaNames ==
    ASSUME Locked, TypeOK, LabelsFit, ContentInv, HoldsLock, OwnFiles, WrittenOnce,
           StagedMeta, MetaNames, [Next]_vars
    PROVE  MetaNames'
<1> SUFFICES ASSUME NEW k \in Bodies 
             PROVE  \/ meta'[k] \in {None, Torn, k}
                    \/ \E q \in BlobPuts : meta'[k] = q /\ Gone(q)'
  BY DEF MetaNames
<1>0. \A q \in BlobPuts : Gone(q) => Gone(q)'
  BY FilesKept
<1>1. CASE meta'[k] = meta[k]
  BY <1>0, <1>1 DEF MetaNames
<1>2. ASSUME NEW p \in Procs,
             StageMetaCreate(p) \/ StageMetaWrite(p) \/ VerifyDigest(p) \/ MoveFailed(p)
      PROVE  meta'[k] = meta[k]
  <2>1. p \in BlobPuts
    BY <1>2 DEF StageMetaCreate, StageMetaWrite, VerifyDigest, MoveFailed, At, LabelsFit
  <2> QED BY <1>2, <2>1, Kinds
          DEF StageMetaCreate, StageMetaWrite, VerifyDigest, MoveFailed, DiscardStaged, TypeOK
<1>3. ASSUME NEW p \in Procs, MoveMeta(p), meta'[k] # meta[k]
      PROVE  meta'[k] \in {None, Torn} \/ \E q \in BlobPuts : meta'[k] = q /\ Gone(q)
  <2>1. p \in BlobPuts /\ pc[p] = "movemeta" /\ file[p] = None
    BY <1>3 DEF MoveMeta, At, LabelsFit, StagedMeta
  <2>2. meta'[k] \in {None, Torn, p}
    BY <1>3, <2>1, Kinds DEF MoveMeta, TypeOK, StagedMeta
  <2> QED BY <2>1, <2>2 DEF Gone
<1>4. ASSUME NEW p \in Procs, ManifestMetaCreate(p) \/ ManifestMetaWrite(p), meta'[k] # meta[k]
      PROVE  meta'[k] \in {Torn, k}
  BY <1>4, Kinds DEF ManifestMetaCreate, ManifestMetaWrite, TypeOK
<1> QED BY <1>0, <1>1, <1>2, <1>3, <1>4, MetaSteps

(* No step changes what is asked for. *)
LEMMA ReqKept ==
    ASSUME TypeOK, LabelsFit, [Next]_vars
    PROVE  req' = req
<1>1. CASE UNCHANGED vars \/ Quiet \/ Crash
  BY <1>1 DEF vars, Quiet, Crash
<1>2. ASSUME NEW p \in Procs, GetStep(p) \/ LockTimeout(p) PROVE req' = req
  BY <1>2, GetFrame, TimeoutFrame
<1>3. ASSUME NEW p \in Procs,
             \/ StageMkdir(p) \/ StageCreate(p) \/ StageMetaMkdir(p) \/ StageMetaCreate(p)
             \/ StageMetaWrite(p) \/ VerifyDigest(p) \/ MoveBlob(p) \/ MoveMeta(p)
             \/ RemoveBlobDir(p) \/ RemoveMetaDir(p) \/ MoveFailed(p)
      PROVE  req' = req
  BY <1>3 DEF StageMkdir, StageCreate, StageMetaMkdir, StageMetaCreate, StageMetaWrite,
     VerifyDigest, MoveBlob, MoveMeta, RemoveBlobDir, RemoveMetaDir, MoveFailed
<1>4. ASSUME NEW p \in Procs,
             \/ StatManifest(p) \/ ExistingManifest(p) \/ CreateManifest(p)
             \/ ManifestMetaCreate(p) \/ ManifestMetaWrite(p) \/ TagCreate(p) \/ TagWrite(p)
             \/ Copy(p) \/ AddReference(p)
      PROVE  req' = req
  BY <1>4 DEF StatManifest, ExistingManifest, CreateManifest, ManifestMetaCreate,
     ManifestMetaWrite, TagCreate, TagWrite, Copy, AddReference
<1> QED BY <1>1, <1>2, <1>3, <1>4 DEF Next, Step, PutStep

(* A step of another request changes nothing a reader goes by; its own steps end it,
   or resolve or open what it reads. *)
LEMMA ReaderSteps ==
    ASSUME TypeOK, LabelsFit, [Next]_vars, NEW g \in Gets
    PROVE  \/ /\ pc'[g] = pc[g] /\ got'[g] = got[g]
              /\ pc[g] \in {"open", "read"} =>
                     at'[g] = at[g] /\ seen'[g] = seen[g] /\ fd'[g] = fd[g]
           \/ pc'[g] \notin {"open", "read", "served"}
           \/ GetBlobMeta(g) \/ GetManifestMeta(g) \/ OpenBlob(g) \/ ReadBlob(g)
<1> DEFINE Goal ==
        \/ /\ pc'[g] = pc[g] /\ got'[g] = got[g]
           /\ pc[g] \in {"open", "read"} =>
                  at'[g] = at[g] /\ seen'[g] = seen[g] /\ fd'[g] = fd[g]
        \/ pc'[g] \notin {"open", "read", "served"}
        \/ GetBlobMeta(g) \/ GetManifestMeta(g) \/ OpenBlob(g) \/ ReadBlob(g)
<1>1. CASE UNCHANGED vars \/ Quiet
  BY <1>1 DEF vars, Quiet
<1>2. CASE Crash
  BY <1>2, Kinds DEF Crash, Running, Ended
<1>3. ASSUME NEW p \in Procs, PutStep(p) PROVE Goal
  <2>1. UNCHANGED <<at, seen, got>>
    BY <1>3 DEF PutStep, StageMkdir, StageCreate, StageMetaMkdir, StageMetaCreate, StageMetaWrite,
       VerifyDigest, MoveBlob, MoveMeta, RemoveBlobDir, RemoveMetaDir, MoveFailed, StatManifest,
       ExistingManifest, CreateManifest, ManifestMetaCreate, ManifestMetaWrite, TagCreate,
       TagWrite, Copy, AddReference, handles
  <2>2. p \in Puts
    BY <1>3, Kinds
       DEF PutStep, StageMkdir, StageCreate, StageMetaMkdir, StageMetaCreate, StageMetaWrite,
       VerifyDigest, MoveBlob, MoveMeta, RemoveBlobDir, RemoveMetaDir, MoveFailed, StatManifest,
       ExistingManifest, CreateManifest, ManifestMetaCreate, ManifestMetaWrite, TagCreate,
       TagWrite, Copy, AddReference, At, LabelsFit
  <2>3. \E l : pc' = [pc EXCEPT ![p] = l]
    BY <1>3
       DEF PutStep, StageMkdir, StageCreate, StageMetaMkdir, StageMetaCreate, StageMetaWrite,
       VerifyDigest, MoveBlob, MoveMeta, RemoveBlobDir, RemoveMetaDir, MoveFailed, StatManifest,
       ExistingManifest, CreateManifest, ManifestMetaCreate, ManifestMetaWrite, TagCreate,
       TagWrite, Copy, AddReference, Goto
  <2>4. fd' = fd \/ \E f : fd' = [fd EXCEPT ![p] = f]
    BY <1>3
       DEF PutStep, StageMkdir, StageCreate, StageMetaMkdir, StageMetaCreate, StageMetaWrite,
       VerifyDigest, MoveBlob, MoveMeta, RemoveBlobDir, RemoveMetaDir, MoveFailed, StatManifest,
       ExistingManifest, CreateManifest, ManifestMetaCreate, ManifestMetaWrite, TagCreate,
       TagWrite, Copy, AddReference, handles
  <2> QED BY <2>1, <2>2, <2>3, <2>4, Kinds DEF TypeOK
<1>4. ASSUME NEW p \in Procs, GetStep(p) PROVE Goal
  <2>1. CASE p = g
    BY <1>4, <2>1 DEF GetStep, ResolveTag, Goto, TypeOK
  <2>2. CASE p # g
    <3>1. /\ \E l : pc' = [pc EXCEPT ![p] = l]
          /\ fd' = fd \/ \E f : fd' = [fd EXCEPT ![p] = f]
          /\ at' = at \/ \E k : at' = [at EXCEPT ![p] = k]
          /\ seen' = seen \/ \E d : seen' = [seen EXCEPT ![p] = d]
          /\ got' = got \/ \E d : got' = [got EXCEPT ![p] = d]
      <4>1. CASE GetBlobMeta(p) \/ ResolveTag(p)
        BY <4>1 DEF GetBlobMeta, ResolveTag, Goto
      <4>2. CASE GetManifestMeta(p)
        BY <4>2 DEF GetManifestMeta, Goto
      <4>3. CASE OpenBlob(p) \/ ReadBlob(p)
        BY <4>3 DEF OpenBlob, ReadBlob, Goto
      <4> QED BY <1>4, <4>1, <4>2, <4>3 DEF GetStep
    <3> QED BY <2>2, <3>1, Kinds DEF TypeOK
  <2> QED BY <2>1, <2>2
<1>5. ASSUME NEW p \in Procs, LockTimeout(p) PROVE Goal
  BY <1>5, Kinds DEF LockTimeout, Goto, TypeOK
<1> QED BY <1>1, <1>2, <1>3, <1>4, <1>5 DEF Next, Step

(* What a reader is about to open is whole or gone, and what it has open is whole. *)
LEMMA StepRead ==
    ASSUME Locked, TypeOK, LabelsFit, ContentInv, HoldsLock, OwnFiles, MetaMeansWhole,
           WrittenOnce, MetaNames, ReadWhole, [Next]_vars
    PROVE  ReadWhole'
<1> SUFFICES ASSUME NEW g \in Gets PROVE Reading(g)'
  BY DEF ReadWhole
<1> USE DEF Reading
<1>0. /\ req' = req /\ Key(g) \in Bodies /\ Key(g)' = Key(g)
      /\ \A q \in Puts : data[q] # Torn => data'[q] = data[q]
      /\ \A q \in BlobPuts : Gone(q) => Gone(q)'
      /\ \A k \in Bodies : Whole(k) => Whole(k)'
  <2>1. req' = req
    BY ReqKept
  <2>2. Key(g) \in Bodies /\ Key(g)' = Key(g)
    BY <2>1, RequestType, Kinds DEF TypeOK, Key
  <2>3. \A q \in BlobPuts : Gone(q) => Gone(q)'
    BY FilesKept
  <2>4. \A k \in Bodies : Whole(k) => Whole(k)'
    BY WholeKept
  <2> QED BY <2>1, <2>2, <2>3, <2>4, FilesKept
<1>1. CASE /\ pc'[g] = pc[g]
           /\ pc[g] \in {"open", "read"} =>
                  at'[g] = at[g] /\ seen'[g] = seen[g] /\ fd'[g] = fd[g]
  <2>1. CASE pc[g] = "open"
    <3>1. CASE at[g] \in Bodies /\ Whole(at[g])
      <4>1. file'[at[g]] # None /\ data'[file'[at[g]]] = at[g]
        BY <1>0, <3>1 DEF Whole
      <4> QED BY <1>0, <1>1, <2>1, <3>1, <4>1 DEF ReadWhole, Whole
    <3>2. CASE \E q \in BlobPuts : at[g] = q /\ Gone(q)
      BY <1>0, <1>1, <2>1, <3>2 DEF ReadWhole
    <3> QED BY <2>1, <3>1, <3>2 DEF ReadWhole
  <2>2. CASE pc[g] = "read"
    BY <1>0, <1>1, <2>2 DEF ReadWhole
  <2>3. CASE pc[g] \notin {"open", "read"}
    BY <1>1, <2>3
  <2> QED BY <2>1, <2>2, <2>3
<1>2. CASE pc'[g] \notin {"open", "read"}
  BY <1>2
<1>3. CASE GetBlobMeta(g)
  <2>1. CASE pc' = [pc EXCEPT ![g] = "notfound"]
    BY <2>1, Kinds DEF TypeOK
  <2>2. CASE /\ pc' = [pc EXCEPT ![g] = "open"] /\ at' = [at EXCEPT ![g] = Key(g)]
             /\ meta[Key(g)] \notin {None, Torn}
    <3>1. pc'[g] = "open" /\ at'[g] = Key(g)
      BY <2>2, Kinds DEF TypeOK
    <3>2. file'[Key(g)] # None /\ data'[file'[Key(g)]] = Key(g)
      BY <1>0, <2>2 DEF MetaMeansWhole, Whole
    <3> QED BY <1>0, <3>1, <3>2 DEF Whole
  <2> QED BY <1>3, <2>1, <2>2 DEF GetBlobMeta, Goto
<1>4. CASE GetManifestMeta(g)
  <2>1. CASE pc' = [pc EXCEPT ![g] = "notfound"]
    BY <2>1, Kinds DEF TypeOK
  <2>2. CASE pc' # [pc EXCEPT ![g] = "notfound"]
    <3> DEFINE k == lookup[req[g].tag]
    <3>1. /\ pc'[g] = "open" /\ at'[g] = meta[k] /\ k \in Bodies /\ g \notin BlobGets
          /\ meta[k] \notin {None, Torn}
      <4>1. g \in ManifestGets /\ g \notin BlobGets
        BY <1>4, ProcsAssumption DEF GetManifestMeta, At, LabelsFit, Procs
      <4>2. k \in Bodies \cup {Torn, None}
        BY Kinds, RequestType DEF TypeOK
      <4> QED BY <1>4, <2>2, <4>1, <4>2, Kinds DEF GetManifestMeta, At, LabelsFit, Goto, TypeOK
    <3> HIDE DEF k
    <3>2. CASE meta[k] = k
      <4>1. file'[k] # None /\ data'[file'[k]] = k
        BY <1>0, <3>1, <3>2 DEF MetaMeansWhole, Whole
      <4> QED BY <3>1, <3>2, <4>1 DEF Whole
    <3>3. CASE \E q \in BlobPuts : meta[k] = q /\ Gone(q)
      BY <1>0, <3>1, <3>3
    <3> QED BY <3>1, <3>2, <3>3 DEF MetaNames
  <2> QED BY <2>1, <2>2
<1>5. CASE OpenBlob(g)
  <2>1. pc[g] = "open"
    BY <1>5 DEF OpenBlob, At
  <2>2. CASE pc' = [pc EXCEPT ![g] = "notfound"]
    BY <2>2, Kinds DEF TypeOK
  <2>3. CASE /\ pc' = [pc EXCEPT ![g] = "read"] /\ file[at[g]] # None /\ data' = data
             /\ fd' = [fd EXCEPT ![g] = file[at[g]]]
             /\ seen' = [seen EXCEPT ![g] = data[file[at[g]]]]
    <3>1. at[g] \in Bodies /\ Whole(at[g])
      BY <2>1, <2>3 DEF ReadWhole, Gone
    <3>2. pc'[g] = "read" /\ fd'[g] = file[at[g]] /\ seen'[g] = at[g]
      BY <2>3, <3>1, Kinds DEF TypeOK, Whole
    <3>3. file[at[g]] \in Puts /\ at[g] # Torn /\ (g \in BlobGets => at[g] = Key(g))
      BY <2>1, <3>1, Kinds DEF TypeOK, ReadWhole, Whole
    <3> QED BY <1>0, <2>3, <3>1, <3>2, <3>3 DEF Whole
  <2> QED BY <1>5, <2>2, <2>3 DEF OpenBlob, Goto, disk
<1>6. CASE ReadBlob(g)
  <2>1. pc'[g] = "served"
    BY <1>6, Kinds DEF ReadBlob, Goto, TypeOK
  <2> QED BY <2>1
<1> QED BY <1>1, <1>2, <1>3, <1>4, <1>5, <1>6, ReaderSteps

(* What a reader has returned was whole when it was read. *)
LEMMA StepServed ==
    ASSUME TypeOK, LabelsFit, ReadWhole, ServedWhole, [Next]_vars
    PROVE  ServedWhole'
<1> SUFFICES ASSUME NEW g \in Gets, pc'[g] = "served"
             PROVE  got'[g] # Torn /\ (g \in BlobGets => got'[g] = Key(g)')
  BY DEF ServedWhole
<1>0. Key(g)' = Key(g)
  BY ReqKept DEF Key
<1>1. CASE pc'[g] = pc[g] /\ got'[g] = got[g]
  BY <1>0, <1>1 DEF ServedWhole
<1>2. ASSUME GetBlobMeta(g) \/ GetManifestMeta(g) \/ OpenBlob(g) PROVE FALSE
  BY <1>2, Kinds DEF GetBlobMeta, GetManifestMeta, OpenBlob, Goto, TypeOK
<1>3. CASE ReadBlob(g)
  <2>1. pc[g] = "read" /\ got'[g] = seen[g]
    BY <1>3 DEF ReadBlob, At, TypeOK, ReadWhole, Reading
  <2> QED BY <1>0, <2>1 DEF ReadWhole, Reading
<1> QED BY <1>1, <1>2, <1>3, ReaderSteps

LockedInv ==
    /\ TypeOK /\ LabelsFit /\ ContentInv
    /\ HoldsLock /\ OwnFiles /\ Published /\ MetaMeansWhole
    /\ WrittenOnce /\ StagedMeta /\ MetaNames /\ ReadWhole /\ ServedWhole

(* The invariant of the storage with locks: all of the above together. *)
LEMMA LockedInductive ==
    ASSUME Locked
    PROVE  Spec => []LockedInv
<1>1. Init => LockedInv
  <2>1. Init => TypeOK /\ LabelsFit /\ ContentInv
    BY InitInv
  <2>2. Init => HoldsLock /\ OwnFiles /\ Published /\ MetaMeansWhole
    BY Kinds, RequestType DEF Init, HoldsLock, OwnFiles, Published, MetaMeansWhole, Key
  <2>3. Init => WrittenOnce /\ StagedMeta /\ MetaNames /\ ReadWhole /\ ServedWhole
    BY Kinds, RequestType
       DEF Init, WrittenOnce, StagedMeta, MetaNames, ReadWhole, Reading, ServedWhole
  <2> QED BY <2>1, <2>2, <2>3 DEF LockedInv
<1>2. LockedInv /\ [Next]_vars => LockedInv'
  BY StepTypes, StepLabels, StepContent, StepLocks, StepFiles, StepPublished, StepMeta,
     FilesKept, StepStagedMeta, StepMetaNames, StepRead, StepServed
     DEF LockedInv
<1> QED BY <1>1, <1>2, PTL DEF Spec

(* With locks, what GetBlob and HEAD conclude from readable metadata is true: the whole
   content is there, at every moment of every push and after a crash at any of them. *)
THEOREM MetadataTruthful == ASSUME Locked PROVE Spec => []MetaMeansWhole
BY LockedInductive, PTL DEF LockedInv

(* With locks, no timeout, crash, failed copy or other push takes an acknowledged blob
   away or cuts it down. *)
THEOREM AcknowledgedKept == ASSUME Locked PROVE Spec => []AckedBlobKept
<1>1. LockedInv => AckedBlobKept
  BY Kinds DEF LockedInv, Published, AckedBlobKept
<1> QED BY <1>1, LockedInductive, PTL

(* With locks, no client is served a part of a blob or manifest, and a GET by digest
   serves the content of that digest, whatever is pushed while it reads. *)
THEOREM ServedIsWhole == ASSUME Locked PROVE Spec => []ServedWhole
BY LockedInductive, PTL DEF LockedInv

(* With locks, the nil reader with which references are added is never read. *)
THEOREM ReferencesFindArtifact == ASSUME Locked PROVE Spec => []ReferenceFindsArtifact
<1>1. LockedInv => ReferenceFindsArtifact
  BY DEF LockedInv, Published, ReferenceFindsArtifact
<1> QED BY <1>1, LockedInductive, PTL

(***************************************************************************)
(* Without crashes and failed copies a push that has begun to change a     *)
(* published artifact goes on to the end of it, locks or no locks.  Every  *)
(* file cut down has a request about to fill it (CutIsRefilled), and so    *)
(* has metadata (TornIsRewritten) and an artifact that has none yet        *)
(* (MetaFollows).  A push that is past its lookup or its Move has a file   *)
(* under its key (InPlace), and so has all metadata (MetaOfFile); what is  *)
(* staged stays until its own request moves it (StagedInPlace).            *)
(***************************************************************************)
CutIsRefilled ==
    \A k \in Keys : file[k] # None /\ data[file[k]] = Torn =>
        \E q \in Puts : pc[q] = "copy" /\ fd[q] = file[k]
TornIsRewritten ==
    \A k \in Bodies : meta[k] = Torn =>
        \E q \in ManifestPuts : pc[q] = "metawrite" /\ q \in linked /\ Key(q) = k
MetaFollows ==
    \A k \in Bodies : file[k] # None /\ meta[k] = None =>
        \E q \in Puts : /\ Key(q) = k
                        /\ \/ pc[q] = "movemeta"
                           \/ q \in ManifestPuts /\ pc[q] \in {"copy", "metadir"}
MetaOfFile == \A k \in Bodies : meta[k] # None => file[k] # None
StagedInPlace ==
    \A p \in BlobPuts :
        /\ pc[p] \in {"copy", "metadir", "meta", "metawrite", "verify", "move"} => file[p] = p
        /\ pc[p] \in {"verify", "move", "movemeta"} => meta[p] = p
InPlace ==
    \A p \in Puts :
        \/ pc[p] \in {"movemeta", "rmblobdir", "rmmetadir", "existing", "tag", "tagwrite", "ref", "acked"}
        \/ p \in ManifestPuts /\ pc[p] \in {"copy", "metadir", "metawrite"}
        => file[Key(p)] # None

Pending == CutIsRefilled /\ TornIsRewritten /\ MetaFollows
Placed == MetaOfFile /\ StagedInPlace /\ InPlace

(* A step that leaves files, metadata and the requests about to write them alone. *)
LEMMA PendingFrame ==
    ASSUME Pending, UNCHANGED <<req, file, data, meta>>,
           \A q \in Puts : pc[q] = "copy" => pc'[q] = "copy" /\ fd'[q] = fd[q],
           \A q \in Puts : pc[q] = "movemeta" => pc'[q] = "movemeta",
           \A q \in ManifestPuts : pc[q] = "metadir" => pc'[q] = "metadir",
           \A q \in ManifestPuts : pc[q] = "metawrite" =>
               pc'[q] = "metawrite" /\ (q \in linked => q \in linked')
    PROVE  Pending'
<1>1. CutIsRefilled'
  BY DEF Pending, CutIsRefilled
<1>2. TornIsRewritten'
  BY DEF Pending, TornIsRewritten, Key
<1>3. MetaFollows'
  BY Kinds DEF Pending, MetaFollows, Key
<1> QED BY <1>1, <1>2, <1>3 DEF Pending

(* Each step leaves somebody to finish what it begins. *)
LEMMA StepPending ==
    ASSUME WriteFaults = FALSE, MaxCrashes = 0, TypeOK, LabelsFit, Pending, Placed, [Next]_vars
    PROVE  Pending'
<1>1. CASE UNCHANGED vars \/ Quiet
  BY <1>1, PendingFrame DEF vars, Quiet
<1>2. CASE Crash
  BY <1>2 DEF Crash, TypeOK
<1>3. ASSUME NEW p \in Procs,
             \/ StageMkdir(p) \/ StageMetaMkdir(p) \/ RemoveBlobDir(p) \/ RemoveMetaDir(p)
             \/ StatManifest(p) \/ ExistingManifest(p) \/ TagCreate(p) \/ TagWrite(p)
             \/ AddReference(p)
      PROVE  Pending'
  <2>1. /\ UNCHANGED <<req, file, data, meta, fd, linked>>
        /\ \E l \in Label : pc' = [pc EXCEPT ![p] = l]
        /\ pc[p] \notin {"copy", "movemeta", "metawrite"}
        /\ pc[p] = "metadir" => p \in BlobPuts
    BY <1>3
       DEF StageMkdir, StageMetaMkdir, RemoveBlobDir, RemoveMetaDir, StatManifest,
           ExistingManifest, TagCreate, TagWrite, AddReference, At, Goto, Label, Ended,
           disk, handles
  <2> QED BY <2>1, PendingFrame, Kinds DEF TypeOK
<1>4. ASSUME NEW p \in Procs, GetStep(p) \/ LockTimeout(p) PROVE Pending'
  <2>1. CASE GetStep(p)
    <3>1. linked' = linked
      BY <2>1 DEF GetStep, GetBlobMeta, ResolveTag, GetManifestMeta, OpenBlob, ReadBlob
    <3> QED BY <2>1, <3>1, GetFrame, PendingFrame, Kinds
  <2>2. CASE LockTimeout(p)
    <3>1. /\ linked' = linked
          /\ p \in Puts => pc[p] \notin {"copy", "movemeta", "metadir", "metawrite"}
      BY <2>2, Kinds DEF LockTimeout, Waiting, At, LabelsFit
    <3> QED BY <2>2, <3>1, TimeoutFrame, PendingFrame, Kinds DEF TypeOK
  <2> QED BY <1>4, <2>1, <2>2
<1>5. ASSUME NEW p \in Procs, StageCreate(p) PROVE Pending'
  <2>1. p \in BlobPuts /\ pc[p] = "create"
    BY <1>5 DEF StageCreate, At
  <2>2. CASE UNCHANGED <<file, data, fd>>
    <3>1. UNCHANGED <<req, meta, linked>> /\ \E l \in Label : pc' = [pc EXCEPT ![p] = l]
      BY <1>5 DEF StageCreate, Goto, Label, Ended
    <3> QED BY <2>1, <2>2, <3>1, PendingFrame, Kinds DEF TypeOK
  <2>3. CASE /\ file' = [file EXCEPT ![p] = p] /\ data' = [data EXCEPT ![p] = Torn]
             /\ fd' = [fd EXCEPT ![p] = p] /\ pc' = [pc EXCEPT ![p] = "copy"]
    <3>1. UNCHANGED <<req, meta, linked>>
      BY <1>5 DEF StageCreate
    <3>2. CutIsRefilled'
      BY <2>1, <2>3, Kinds DEF Pending, CutIsRefilled, TypeOK
    <3>3. TornIsRewritten'
      BY <2>1, <2>3, <3>1, Kinds DEF Pending, TornIsRewritten, TypeOK, Key
    <3>4. MetaFollows'
      BY <2>1, <2>3, <3>1, Kinds DEF Pending, MetaFollows, TypeOK, Key
    <3> QED BY <3>2, <3>3, <3>4 DEF Pending
  <2> QED BY <1>5, <2>2, <2>3 DEF StageCreate, Goto
<1>6. ASSUME NEW p \in Procs, StageMetaCreate(p) \/ StageMetaWrite(p) PROVE Pending'
  <2>1. /\ UNCHANGED <<req, file, data, fd, linked>>
        /\ p \in BlobPuts /\ pc[p] \in {"meta", "metawrite"}
        /\ \E l \in Label : pc' = [pc EXCEPT ![p] = l]
        /\ \E m \in Keys \cup {Torn} : meta' = [meta EXCEPT ![p] = m] \/ meta' = meta
    BY <1>6, Kinds DEF StageMetaCreate, StageMetaWrite, At, Goto, Label, Ended, handles
  <2>2. CutIsRefilled'
    BY <2>1, Kinds DEF Pending, CutIsRefilled, TypeOK
  <2>3. TornIsRewritten' /\ MetaFollows'
    BY <2>1, Kinds DEF Pending, TornIsRewritten, MetaFollows, TypeOK, Key
  <2> QED BY <2>2, <2>3 DEF Pending
<1>7. ASSUME NEW p \in Procs, VerifyDigest(p) \/ MoveFailed(p) PROVE Pending'
  <2>1. /\ UNCHANGED <<req, data, fd, linked>>
        /\ p \in BlobPuts /\ pc[p] \in {"verify", "movefailed"}
        /\ \E l \in Label : pc' = [pc EXCEPT ![p] = l]
        /\ \/ UNCHANGED <<file, meta>>
           \/ file' = [file EXCEPT ![p] = None] /\ meta' = [meta EXCEPT ![p] = None]
    BY <1>7
       DEF VerifyDigest, MoveFailed, DiscardStaged, At, Goto, Label, Ended, handles, LabelsFit
  <2>2. CutIsRefilled'
    BY <2>1, Kinds DEF Pending, CutIsRefilled, TypeOK
  <2>3. TornIsRewritten' /\ MetaFollows'
    BY <2>1, Kinds DEF Pending, TornIsRewritten, MetaFollows, TypeOK, Key
  <2> QED BY <2>2, <2>3 DEF Pending
<1>8. ASSUME NEW p \in Procs, MoveBlob(p) PROVE Pending'
  <2>1. p \in BlobPuts /\ pc[p] = "move" /\ Key(p) \in Bodies /\ file[p] = p
    BY <1>8, Kinds, RequestType
       DEF MoveBlob, At, LabelsFit, TypeOK, Placed, StagedInPlace
  <2>2. /\ file' = [file EXCEPT ![Key(p)] = p, ![p] = None]
        /\ pc' = [pc EXCEPT ![p] = "movemeta"]
        /\ UNCHANGED <<req, data, meta, fd, linked>>
    BY <1>8, <2>1 DEF MoveBlob, Goto, handles
  <2>3. CutIsRefilled'
    BY <2>1, <2>2, Kinds DEF Pending, CutIsRefilled, TypeOK
  <2>4. TornIsRewritten'
    BY <2>1, <2>2, Kinds DEF Pending, TornIsRewritten, TypeOK, Key
  <2>5. MetaFollows'
    BY <2>1, <2>2, Kinds DEF Pending, MetaFollows, TypeOK, Key
  <2> QED BY <2>3, <2>4, <2>5 DEF Pending
<1>9. ASSUME NEW p \in Procs, MoveMeta(p) PROVE Pending'
  <2>1. p \in BlobPuts /\ pc[p] = "movemeta" /\ Key(p) \in Bodies /\ meta[p] = p
    BY <1>9, Kinds, RequestType
       DEF MoveMeta, At, LabelsFit, TypeOK, Placed, StagedInPlace
  <2>2. /\ meta' = [meta EXCEPT ![Key(p)] = p, ![p] = None]
        /\ linked' = {q \in linked : Key(q) # Key(p)}
        /\ pc' = [pc EXCEPT ![p] = "rmblobdir"]
        /\ UNCHANGED <<req, file, data, fd>>
    BY <1>9, <2>1 DEF MoveMeta, Goto
  <2>3. CutIsRefilled'
    BY <2>1, <2>2, Kinds DEF Pending, CutIsRefilled, TypeOK
  <2>4. TornIsRewritten'
    BY <2>1, <2>2, Kinds DEF Pending, TornIsRewritten, TypeOK, Key
  <2>5. MetaFollows'
    BY <2>1, <2>2, Kinds DEF Pending, MetaFollows, TypeOK, Key
  <2> QED BY <2>3, <2>4, <2>5 DEF Pending
<1>10. ASSUME NEW p \in Procs, CreateManifest(p) PROVE Pending'
  <2> DEFINE f == IF file[Key(p)] = None THEN p ELSE file[Key(p)]
  <2>1. p \in ManifestPuts /\ pc[p] = "create" /\ Key(p) \in Bodies /\ f \in Puts
    BY <1>10, Kinds, RequestType DEF CreateManifest, At, TypeOK
  <2>2. /\ file' = [file EXCEPT ![Key(p)] = f] /\ data' = [data EXCEPT ![f] = Torn]
        /\ fd' = [fd EXCEPT ![p] = f] /\ pc' = [pc EXCEPT ![p] = "copy"]
        /\ UNCHANGED <<req, meta, linked>>
    BY <1>10 DEF CreateManifest, Goto
  <2>3. pc'[p] = "copy" /\ fd'[p] = f /\ p \in Puts
    BY <2>1, <2>2, Kinds DEF TypeOK
  <2>4. CutIsRefilled'
    <3> HIDE DEF f
    <3> QED BY <2>1, <2>2, <2>3, Kinds DEF Pending, CutIsRefilled, TypeOK
  <2>5. TornIsRewritten'
    BY <2>1, <2>2, Kinds DEF Pending, TornIsRewritten, TypeOK, Key
  <2>6. MetaFollows'
    <3> HIDE DEF f
    <3> QED BY <2>1, <2>2, <2>3, Kinds DEF Pending, MetaFollows, TypeOK, Key
  <2> QED BY <2>4, <2>5, <2>6 DEF Pending
<1>11. ASSUME NEW p \in Procs, Copy(p) PROVE Pending'
  <2>1. p \in Puts /\ pc[p] = "copy" /\ req[p].body \in Bodies
    BY <1>11, Kinds, RequestType DEF Copy, At, LabelsFit, TypeOK
  <2>2. /\ data' = [data EXCEPT ![fd[p]] = req[p].body]
        /\ fd' = [fd EXCEPT ![p] = None] /\ pc' = [pc EXCEPT ![p] = "metadir"]
        /\ UNCHANGED <<req, file, meta, linked>>
    BY <1>11 DEF Copy, Goto
  <2>3. CutIsRefilled'
    BY <2>1, <2>2, Kinds, TornAssumption DEF Pending, CutIsRefilled, TypeOK
  <2>4. TornIsRewritten'
    BY <2>1, <2>2, Kinds DEF Pending, TornIsRewritten, TypeOK, Key
  <2>5. MetaFollows'
    BY <2>1, <2>2, Kinds DEF Pending, MetaFollows, TypeOK, Key
  <2> QED BY <2>3, <2>4, <2>5 DEF Pending
<1>12. ASSUME NEW p \in Procs, ManifestMetaCreate(p) PROVE Pending'
  <2>1. p \in ManifestPuts /\ pc[p] = "metadir" /\ Key(p) \in Bodies
    BY <1>12, RequestType DEF ManifestMetaCreate, At, TypeOK
  <2>2. /\ meta' = [meta EXCEPT ![Key(p)] = Torn] /\ linked' = linked \cup {p}
        /\ pc' = [pc EXCEPT ![p] = "metawrite"]
        /\ UNCHANGED <<req, file, data, fd>>
    BY <1>12 DEF ManifestMetaCreate, Goto
  <2>3. CutIsRefilled'
    BY <2>1, <2>2, Kinds DEF Pending, CutIsRefilled, TypeOK
  <2>4. TornIsRewritten'
    BY <2>1, <2>2, Kinds DEF Pending, TornIsRewritten, TypeOK, Key
  <2>5. MetaFollows'
    BY <2>1, <2>2, Kinds DEF Pending, MetaFollows, TypeOK, Key
  <2> QED BY <2>3, <2>4, <2>5 DEF Pending
<1>13. ASSUME NEW p \in Procs, ManifestMetaWrite(p) PROVE Pending'
  <2>1. p \in ManifestPuts /\ pc[p] = "metawrite" /\ Key(p) \in Bodies
    BY <1>13, RequestType DEF ManifestMetaWrite, At, TypeOK
  <2>2. /\ meta' = IF p \in linked THEN [meta EXCEPT ![Key(p)] = Key(p)] ELSE meta
        /\ linked' = linked \ {p} /\ pc' = [pc EXCEPT ![p] = "tag"]
        /\ UNCHANGED <<req, file, data, fd>>
    BY <1>13 DEF ManifestMetaWrite, Goto
  <2>3. CutIsRefilled'
    BY <2>1, <2>2, Kinds DEF Pending, CutIsRefilled, TypeOK
  <2>4. TornIsRewritten'
    BY <2>1, <2>2, Kinds DEF Pending, TornIsRewritten, TypeOK, Key
  <2>5. MetaFollows'
    BY <2>1, <2>2, Kinds DEF Pending, MetaFollows, TypeOK, Key
  <2> QED BY <2>3, <2>4, <2>5 DEF Pending
<1> QED
  BY <1>1, <1>2, <1>3, <1>4, <1>5, <1>6, <1>7, <1>8, <1>9, <1>10, <1>11, <1>12, <1>13
     DEF Next, Step, PutStep

(* Each step keeps files and metadata where the requests past them count on them. *)
LEMMA StepPlaced ==
    ASSUME MaxCrashes = 0, TypeOK, LabelsFit, Placed, [Next]_vars
    PROVE  Placed'
<1>1. CASE UNCHANGED vars \/ Quiet
  BY <1>1 DEF vars, Quiet, Placed, MetaOfFile, StagedInPlace, InPlace, Key
<1>2. CASE Crash
  BY <1>2 DEF Crash, TypeOK
<1>3. ASSUME NEW p \in Procs,
             \/ StageMkdir(p) \/ StageMetaMkdir(p) \/ RemoveBlobDir(p) \/ RemoveMetaDir(p)
             \/ ExistingManifest(p) \/ TagCreate(p) \/ TagWrite(p) \/ AddReference(p)
      PROVE  Placed'
  <2>1. /\ UNCHANGED <<req, file, meta>>
        /\ \/ pc' = [pc EXCEPT ![p] = "create"]
           \/ pc' = [pc EXCEPT ![p] = "failed"]
           \/ pc[p] = "metadir" /\ p \in BlobPuts /\ pc' = [pc EXCEPT ![p] = "meta"]
           \/ /\ pc[p] \in {"rmblobdir", "rmmetadir", "existing", "tag", "tagwrite", "ref"}
              /\ \E l \in {"rmmetadir", "ref", "tag", "tagwrite", "acked"} :
                     pc' = [pc EXCEPT ![p] = l]
    BY <1>3
       DEF StageMkdir, StageMetaMkdir, RemoveBlobDir, RemoveMetaDir, ExistingManifest,
           TagCreate, TagWrite, AddReference, At, Goto, disk
  <2>2. MetaOfFile'
    BY <2>1 DEF Placed, MetaOfFile
  <2>3. StagedInPlace'
    BY <2>1, Kinds DEF Placed, StagedInPlace, TypeOK
  <2>4. InPlace'
    BY <2>1, Kinds DEF Placed, InPlace, TypeOK, Key
  <2> QED BY <2>2, <2>3, <2>4 DEF Placed
<1>4. ASSUME NEW p \in Procs, GetStep(p) \/ LockTimeout(p) PROVE Placed'
  <2>1. /\ UNCHANGED <<req, file, meta>>
        /\ \A q \in Puts : pc'[q] = pc[q] \/ pc'[q] \in {"movefailed", "failed"}
    BY <1>4, GetFrame, TimeoutFrame, Kinds DEF TypeOK
  <2> QED BY <2>1, Kinds DEF Placed, MetaOfFile, StagedInPlace, InPlace, Key
<1>5. ASSUME NEW p \in Procs, StatManifest(p) PROVE Placed'
  <2>1. /\ UNCHANGED <<req, file, meta>> /\ p \in ManifestPuts
        /\ \/ file[Key(p)] # None /\ pc' = [pc EXCEPT ![p] = "existing"]
           \/ pc' = [pc EXCEPT ![p] = "create"]
    BY <1>5 DEF StatManifest, Goto, disk
  <2>2. MetaOfFile' /\ StagedInPlace'
    BY <2>1, Kinds DEF Placed, MetaOfFile, StagedInPlace, TypeOK
  <2>3. InPlace'
    BY <2>1, Kinds DEF Placed, InPlace, TypeOK, Key
  <2> QED BY <2>2, <2>3 DEF Placed
<1>6. ASSUME NEW p \in Procs, StageCreate(p) PROVE Placed'
  <2>1. /\ UNCHANGED <<req, meta>> /\ p \in BlobPuts /\ pc[p] = "create"
        /\ \/ file' = [file EXCEPT ![p] = p] /\ pc' = [pc EXCEPT ![p] = "copy"]
           \/ file' = file /\ pc' = [pc EXCEPT ![p] = "failed"]
    BY <1>6 DEF StageCreate, At, Goto
  <2>2. MetaOfFile'
    BY <2>1, Kinds DEF Placed, MetaOfFile, TypeOK
  <2>3. StagedInPlace'
    BY <2>1, Kinds DEF Placed, StagedInPlace, TypeOK
  <2>4. InPlace'
    BY <2>1, Kinds, RequestType DEF Placed, InPlace, TypeOK, Key
  <2> QED BY <2>2, <2>3, <2>4 DEF Placed
<1>7. ASSUME NEW p \in Procs, StageMetaCreate(p) \/ StageMetaWrite(p) PROVE Placed'
  <2>1. /\ UNCHANGED <<req, file>> /\ p \in BlobPuts
        /\ \/ /\ pc[p] = "meta" /\ meta' = [meta EXCEPT ![p] = Torn]
              /\ pc' = [pc EXCEPT ![p] = "metawrite"]
           \/ /\ pc[p] = "metawrite" /\ meta' = [meta EXCEPT ![p] = p]
              /\ pc' = [pc EXCEPT ![p] = "verify"]
           \/ meta' = meta /\ pc' = [pc EXCEPT ![p] = "failed"]
    BY <1>7 DEF StageMetaCreate, StageMetaWrite, At, Goto
  <2>2. MetaOfFile'
    BY <2>1, Kinds DEF Placed, MetaOfFile, TypeOK
  <2>3. StagedInPlace'
    BY <2>1, Kinds DEF Placed, StagedInPlace, TypeOK
  <2>4. InPlace'
    BY <2>1, Kinds DEF Placed, InPlace, TypeOK, Key
  <2> QED BY <2>2, <2>3, <2>4 DEF Placed
<1>8. ASSUME NEW p \in Procs, VerifyDigest(p) \/ MoveFailed(p) PROVE Placed'
  <2>1. /\ req' = req /\ p \in BlobPuts /\ Key(p) \in Bodies
        /\ \/ /\ UNCHANGED <<file, meta>> /\ pc[p] = "verify"
              /\ pc' = [pc EXCEPT ![p] = "move"]
           \/ /\ file' = [file EXCEPT ![p] = None] /\ meta' = [meta EXCEPT ![p] = None]
              /\ \/ pc' = [pc EXCEPT ![p] = "rejected"] \/ pc' = [pc EXCEPT ![p] = "failed"]
                 \/ meta[Key(p)] # None /\ pc' = [pc EXCEPT ![p] = "ref"]
    BY <1>8, RequestType
       DEF VerifyDigest, MoveFailed, DiscardStaged, At, Goto, LabelsFit, TypeOK
  <2>2. MetaOfFile'
    BY <2>1, Kinds DEF Placed, MetaOfFile, TypeOK
  <2>3. StagedInPlace'
    BY <2>1, Kinds DEF Placed, StagedInPlace, TypeOK
  <2>4. InPlace'
    BY <2>1, Kinds, RequestType DEF Placed, InPlace, MetaOfFile, TypeOK, Key
  <2> QED BY <2>2, <2>3, <2>4 DEF Placed
<1>9. ASSUME NEW p \in Procs, MoveBlob(p) PROVE Placed'
  <2>1. p \in BlobPuts /\ pc[p] = "move" /\ Key(p) \in Bodies /\ file[p] = p
    BY <1>9, Kinds, RequestType
       DEF MoveBlob, At, LabelsFit, TypeOK, Placed, StagedInPlace
  <2>2. /\ file' = [file EXCEPT ![Key(p)] = p, ![p] = None]
        /\ pc' = [pc EXCEPT ![p] = "movemeta"]
        /\ UNCHANGED <<req, meta>>
    BY <1>9, <2>1 DEF MoveBlob, Goto
  <2>3. \A k \in Bodies : file[k] # None \/ k = Key(p) => file'[k] # None
    BY <2>1, <2>2, Kinds DEF TypeOK
  <2>4. MetaOfFile'
    BY <2>2, <2>3 DEF Placed, MetaOfFile
  <2>5. StagedInPlace'
    BY <2>1, <2>2, Kinds DEF Placed, StagedInPlace, TypeOK
  <2>6. InPlace'
    BY <2>2, <2>3, Kinds, RequestType DEF Placed, InPlace, TypeOK, Key
  <2> QED BY <2>4, <2>5, <2>6 DEF Placed
<1>10. ASSUME NEW p \in Procs, MoveMeta(p) PROVE Placed'
  <2>1. p \in BlobPuts /\ pc[p] = "movemeta" /\ Key(p) \in Bodies /\ file[Key(p)] # None
    BY <1>10, Kinds, RequestType DEF MoveMeta, At, LabelsFit, TypeOK, Placed, InPlace
  <2>2. /\ meta' = [meta EXCEPT ![Key(p)] = meta[p], ![p] = None]
        /\ pc' = [pc EXCEPT ![p] = "rmblobdir"]
        /\ UNCHANGED <<req, file>>
    BY <1>10 DEF MoveMeta, Goto
  <2>3. MetaOfFile'
    BY <2>1, <2>2, Kinds DEF Placed, MetaOfFile, TypeOK
  <2>4. StagedInPlace'
    BY <2>1, <2>2, Kinds DEF Placed, StagedInPlace, TypeOK
  <2>5. InPlace'
    BY <2>1, <2>2, Kinds DEF Placed, InPlace, TypeOK, Key
  <2> QED BY <2>3, <2>4, <2>5 DEF Placed
<1>11. ASSUME NEW p \in Procs, CreateManifest(p) PROVE Placed'
  <2> DEFINE f == IF file[Key(p)] = None THEN p ELSE file[Key(p)]
  <2>1. p \in ManifestPuts /\ Key(p) \in Bodies /\ f # None
    BY <1>11, Kinds, RequestType DEF CreateManifest, TypeOK
  <2>2. /\ file' = [file EXCEPT ![Key(p)] = f] /\ pc' = [pc EXCEPT ![p] = "copy"]
        /\ UNCHANGED <<req, meta>>
    BY <1>11 DEF CreateManifest, Goto
  <2> HIDE DEF f
  <2>3. \A k \in Bodies : file[k] # None \/ k = Key(p) => file'[k] # None
    BY <2>1, <2>2, Kinds DEF TypeOK
  <2>4. MetaOfFile'
    BY <2>2, <2>3 DEF Placed, MetaOfFile
  <2>5. StagedInPlace'
    BY <2>1, <2>2, Kinds DEF Placed, StagedInPlace, TypeOK
  <2>6. InPlace'
    BY <2>2, <2>3, Kinds, RequestType DEF Placed, InPlace, TypeOK, Key
  <2> QED BY <2>4, <2>5, <2>6 DEF Placed
<1>12. ASSUME NEW p \in Procs, Copy(p) PROVE Placed'
  <2>1. /\ p \in Puts /\ pc[p] = "copy" /\ UNCHANGED <<req, file, meta>>
        /\ pc' = [pc EXCEPT ![p] = "metadir"] \/ pc' = [pc EXCEPT ![p] = "failed"]
    BY <1>12 DEF Copy, At, Goto, LabelsFit
  <2>2. MetaOfFile' /\ StagedInPlace'
    BY <2>1, Kinds DEF Placed, MetaOfFile, StagedInPlace, TypeOK
  <2>3. InPlace'
    BY <2>1, Kinds DEF Placed, InPlace, TypeOK, Key
  <2> QED BY <2>2, <2>3 DEF Placed
<1>13. ASSUME NEW p \in Procs, ManifestMetaCreate(p) \/ ManifestMetaWrite(p) PROVE Placed'
  <2>1. /\ p \in ManifestPuts /\ pc[p] \in {"metadir", "metawrite"} /\ Key(p) \in Bodies
        /\ UNCHANGED <<req, file>>
        /\ meta' = meta \/ \E m \in Keys \cup {Torn} : meta' = [meta EXCEPT ![Key(p)] = m]
        /\ pc' = [pc EXCEPT ![p] = "metawrite"] \/ pc' = [pc EXCEPT ![p] = "tag"]
    BY <1>13, Kinds, RequestType
       DEF ManifestMetaCreate, ManifestMetaWrite, At, Goto, TypeOK, LabelsFit
  <2>2. file[Key(p)] # None
    BY <2>1, Kinds DEF Placed, InPlace
  <2>3. MetaOfFile'
    BY <2>1, <2>2, Kinds DEF Placed, MetaOfFile, TypeOK
  <2>4. StagedInPlace'
    BY <2>1, Kinds DEF Placed, StagedInPlace, TypeOK
  <2>5. InPlace'
    BY <2>1, <2>2, Kinds DEF Placed, InPlace, TypeOK, Key
  <2> QED BY <2>3, <2>4, <2>5 DEF Placed
<1> QED
  BY <1>1, <1>2, <1>3, <1>4, <1>5, <1>6, <1>7, <1>8, <1>9, <1>10, <1>11, <1>12, <1>13
     DEF Next, Step, PutStep

(* With locks or without, however many pushes cut each other's files down on the way:
   once all have ended, and none broke off, what they acknowledged is whole and can be
   read. *)
THEOREM WholeWhenQuiet ==
    ASSUME WriteFaults = FALSE, MaxCrashes = 0
    PROVE  Spec => []AckedWholeWhenQuiet
<1> DEFINE QuietInv == TypeOK /\ LabelsFit /\ ContentInv /\ Pending /\ Placed
<1>1. Init => QuietInv
  <2>1. Init => Pending
    BY Kinds DEF Init, Pending, CutIsRefilled, TornIsRewritten, MetaFollows
  <2>2. Init => Placed
    BY Kinds DEF Init, Placed, MetaOfFile, StagedInPlace, InPlace
  <2> QED BY <2>1, <2>2, InitInv
<1>2. QuietInv /\ [Next]_vars => QuietInv'
  BY StepTypes, StepLabels, StepContent, StepPending, StepPlaced
<1>3. QuietInv => AckedWholeWhenQuiet
  <2> SUFFICES ASSUME QuietInv, AllEnded, NEW p \in Puts, pc[p] = "acked"
               PROVE  Whole(Key(p)) /\ meta[Key(p)] \notin {None, Torn}
    BY DEF AckedWholeWhenQuiet
  <2>1. Key(p) \in Bodies /\ file[Key(p)] # None
    BY Kinds, RequestType DEF TypeOK, Placed, InPlace
  <2>2. \A q \in Puts : pc[q] \notin {"copy", "metadir", "metawrite", "movemeta"}
    BY Kinds DEF AllEnded, Ended
  <2>3. Whole(Key(p))
    <3>1. data[file[Key(p)]] # Torn
      BY <2>1, <2>2, Kinds DEF Pending, CutIsRefilled
    <3>2. data[file[Key(p)]] \in {Key(p), Torn}
      BY <2>1, Kinds DEF TypeOK, ContentInv, DataOfCreator, NamedByBody
    <3> QED BY <2>1, <3>1, <3>2 DEF Whole
  <2>4. meta[Key(p)] \notin {None, Torn}
    BY <2>1, <2>2, Kinds DEF Pending, TornIsRewritten, MetaFollows
  <2> QED BY <2>3, <2>4
<1> QED BY <1>1, <1>2, <1>3, PTL DEF Spec

(***************************************************************************)
(* What the two findings about pushes come down to.  With locks and        *)
(* nothing that breaks off, an artifact whose lock is free is finished      *)
(* (FreeIsSettled).  So a manifest is acknowledged torn only after a copy   *)
(* that failed or a crash.  An upload that matches its digest, and neither   *)
(* times out nor fails to copy, fails only for a directory that another     *)
(* request removed under it (DirsKept), whatever crashes came before.       *)
(***************************************************************************)
\* A blob that is still being staged is not the file of a content key.
StagedUnpublished ==
    \A q \in BlobPuts : pc[q] = "copy" => \A k \in Bodies : file[k] # q

\* No step removes a directory between the MkdirAll and the os.Create of an upload.
DirsKept ==
    \A p \in BlobPuts : /\ At(p, "create") /\ "blob" \in dirs => "blob" \in dirs'
                        /\ At(p, "meta") /\ "meta" \in dirs => "meta" \in dirs'

\* The directories are there when files are created in them, no Move times out, and
\* what is to be moved has its metadata.
StagesOn ==
    \A p \in BlobPuts : /\ pc[p] = "create" => "blob" \in dirs
                        /\ pc[p] = "meta" => "meta" \in dirs
                        /\ pc[p] # "movefailed"
                        /\ pc[p] \in {"verify", "move", "movemeta"} => meta[p] = p

\* A manifest writer that found no blob is not there when an upload is published, and
\* none comes later: the metadata under the key stays readable.
Moved(p) == pc[p] \in {"rmblobdir", "rmmetadir", "ref"}
NoLateManifest ==
    \A m \in ManifestPuts, p \in BlobPuts :
        pc[m] \in {"create", "copy", "metadir", "metawrite"} /\ Moved(p) => Key(m) # Key(p)
MovedReadable == \A p \in BlobPuts : Moved(p) => meta[Key(p)] # Torn

(* A request's label changes in a step of its own, or in a crash. *)
LEMMA OwnStep ==
    ASSUME TypeOK, [Next]_vars, NEW q \in Procs, pc'[q] # pc[q]
    PROVE  Step(q) \/ pc'[q] = "crashed"
<1>1. ~UNCHANGED vars /\ ~Quiet
  BY DEF vars, Quiet
<1>2. CASE Crash
  BY <1>2 DEF Crash, TypeOK
<1>3. ASSUME NEW p \in Procs, Step(p)
      PROVE  \E l : pc' = [pc EXCEPT ![p] = l]
  <2>1. CASE PutStep(p)
    BY <2>1
       DEF PutStep, StageMkdir, StageCreate, StageMetaMkdir, StageMetaCreate, StageMetaWrite,
       VerifyDigest, MoveBlob, MoveMeta, RemoveBlobDir, RemoveMetaDir, MoveFailed, StatManifest,
       ExistingManifest, CreateManifest, ManifestMetaCreate, ManifestMetaWrite, TagCreate,
       TagWrite, Copy, AddReference, Goto
  <2>2. CASE GetStep(p)
    BY <2>2 DEF GetStep, GetBlobMeta, ResolveTag, GetManifestMeta, OpenBlob, ReadBlob, Goto
  <2>3. CASE LockTimeout(p)
    BY <2>3 DEF LockTimeout, Goto
  <2> QED BY <1>3, <2>1, <2>2, <2>3 DEF Step
<1> QED BY <1>1, <1>2, <1>3 DEF Next, TypeOK

(* A push takes no reader's step. *)
LEMMA PutsDoNotRead ==
    ASSUME LabelsFit, NEW p \in Procs, p \notin Gets
    PROVE  ~GetStep(p)
BY Kinds DEF GetStep, GetBlobMeta, ResolveTag, GetManifestMeta, OpenBlob, ReadBlob, At, LabelsFit

(* What a push that gets the lock of its key finds there. *)
LEMMA FreeIsSettled ==
    ASSUME Locked, TypeOK, ContentInv, HoldsLock, OwnFiles, Pending, StagedUnpublished,
           NEW k \in Bodies, CanWrite(k)
    PROVE  (file[k] # None => Whole(k)) /\ meta[k] # Torn
<1>1. writer[k] = None
  BY DEF CanWrite
<1>2. meta[k] # Torn
  <2> SUFFICES ASSUME meta[k] = Torn PROVE FALSE
    OBVIOUS
  <2>1. PICK q \in ManifestPuts : pc[q] = "metawrite" /\ Key(q) = k
    BY DEF Pending, TornIsRewritten
  <2> QED BY <1>1, <2>1, Kinds DEF HoldsLock
<1>3. ASSUME file[k] # None PROVE Whole(k)
  <2>1. data[file[k]] \in {k, Torn}
    BY <1>3, Kinds DEF TypeOK, ContentInv, DataOfCreator, NamedByBody
  <2>2. ASSUME data[file[k]] = Torn PROVE FALSE
    <3>1. PICK q \in Puts : pc[q] = "copy" /\ fd[q] = file[k]
      BY <1>3, <2>2, Kinds DEF Pending, CutIsRefilled
    <3>2. file[k] = q
      BY <1>3, <3>1 DEF OwnFiles
    <3>3. q \in ManifestPuts
      BY <3>1, <3>2, Kinds DEF StagedUnpublished
    <3>4. Key(q) = k
      BY <1>3, <3>2, <3>3, Kinds DEF ContentInv, MatchesDigest, NamedByBody
    <3> QED BY <1>1, <3>1, <3>3, <3>4, Kinds DEF HoldsLock
  <2> QED BY <1>3, <2>1, <2>2 DEF Whole
<1> QED BY <1>2, <1>3

(* A blob gets its own file before it copies, and the name of a body after. *)
LEMMA StepUnpublished ==
    ASSUME TypeOK, LabelsFit, ContentInv, OwnFiles, StagedUnpublished, [Next]_vars
    PROVE  StagedUnpublished'
<1> SUFFICES ASSUME NEW q \in BlobPuts, pc'[q] = "copy", NEW k \in Bodies
             PROVE  file'[k] # q
  BY DEF StagedUnpublished
<1>1. pc[q] \in {"create", "copy"}
  <2> SUFFICES ASSUME pc[q] # "copy" PROVE pc[q] = "create"
    OBVIOUS
  <2>1. Step(q)
    BY Kinds, OwnStep
  <2>2. ~GetStep(q) /\ ~LockTimeout(q)
    BY Kinds DEF GetStep, GetBlobMeta, ResolveTag, GetManifestMeta, OpenBlob, ReadBlob,
                 LockTimeout, Goto, TypeOK
  <2> QED BY <2>1, <2>2, Kinds
          DEF Step, PutStep, StageMkdir, StageCreate, StageMetaMkdir, StageMetaCreate,
          StageMetaWrite, VerifyDigest, MoveBlob, MoveMeta, RemoveBlobDir, RemoveMetaDir,
          MoveFailed, StatManifest, ExistingManifest, CreateManifest, ManifestMetaCreate,
          ManifestMetaWrite, TagCreate, TagWrite, Copy, AddReference, Goto, At, TypeOK
<1>2. file[k] # q
  BY <1>1, Kinds DEF OwnFiles, StagedUnpublished
<1>3. CASE UNCHANGED <<file, data>>
  BY <1>2, <1>3
<1>4. ASSUME NEW p \in Procs,
             StageCreate(p) \/ VerifyDigest(p) \/ MoveFailed(p) \/ Copy(p)
      PROVE  file'[k] # q
  BY <1>2, <1>4, Kinds
     DEF StageCreate, VerifyDigest, MoveFailed, Copy, At, DiscardStaged, LabelsFit, TypeOK
<1>5. ASSUME NEW p \in Procs, MoveBlob(p) PROVE file'[k] # q
  <2>1. /\ p \in BlobPuts /\ Key(p) \in Bodies
        /\ file' = [file EXCEPT ![Key(p)] = file[p], ![p] = None]
        /\ pc[p] = "move"
    BY <1>5, Kinds, RequestType DEF MoveBlob, At, LabelsFit, TypeOK
  <2>2. file[p] = p /\ p # q
    BY <1>1, <2>1, Kinds DEF OwnFiles
  <2> QED BY <1>2, <2>1, <2>2, Kinds DEF TypeOK
<1>6. ASSUME NEW p \in Procs, CreateManifest(p) PROVE file'[k] # q
  BY <1>2, <1>6, Kinds, RequestType DEF CreateManifest, At, TypeOK, OwnFiles
<1> QED BY <1>3, <1>4, <1>5, <1>6, WriteSteps

(* With locks, a torn manifest is acknowledged only after a failed copy or a crash: what
   the code says of a hash conflict is true as long as no push breaks off. *)
THEOREM ManifestsWhole ==
    ASSUME Locked, WriteFaults = FALSE, MaxCrashes = 0
    PROVE  Spec => []AckedManifestWhole
<1> DEFINE Inv == LockedInv /\ Pending /\ StagedUnpublished /\ AckedManifestWhole
                  /\ Placed
<1>1. Init => Pending /\ Placed /\ StagedUnpublished /\ AckedManifestWhole
  BY Kinds DEF Init, Pending, CutIsRefilled, TornIsRewritten, MetaFollows, Placed, MetaOfFile,
               StagedInPlace, InPlace, StagedUnpublished, AckedManifestWhole
<1>2. Inv /\ LockedInv' /\ [Next]_vars => Inv'
  <2> SUFFICES ASSUME Inv, LockedInv', [Next]_vars PROVE Inv'
    OBVIOUS
  <2>1. Pending' /\ Placed' /\ StagedUnpublished'
    BY StepPending, StepPlaced, StepUnpublished DEF LockedInv
  <2>2. ASSUME NEW p \in ManifestPuts, pc'[p] = "acked" PROVE Whole(Key(p))'
    <3>1. p \in Procs /\ p \in Puts /\ Key(p) \in Bodies /\ Key(p)' = Key(p)
      BY Kinds, RequestType, ReqKept DEF LockedInv, TypeOK, Key
    <3>2. CASE pc[p] = "acked"
      BY <3>1, <3>2, WholeKept DEF LockedInv, AckedManifestWhole
    <3>3. CASE pc[p] # "acked"
      <4>1. Step(p)
        BY <2>2, <3>1, <3>3, OwnStep DEF LockedInv
      <4>2. ~GetStep(p) /\ ~LockTimeout(p)
        BY <2>2, <3>1, Kinds DEF GetStep, GetBlobMeta, ResolveTag, GetManifestMeta,
           OpenBlob, ReadBlob, LockTimeout, Goto, LockedInv, TypeOK
      <4>3. AddReference(p)
        BY <2>2, <3>1, <4>1, <4>2
           DEF Step, PutStep, StageMkdir, StageCreate, StageMetaMkdir, StageMetaCreate,
           StageMetaWrite, VerifyDigest, MoveBlob, MoveMeta, RemoveBlobDir, RemoveMetaDir,
           MoveFailed, StatManifest, ExistingManifest, CreateManifest, ManifestMetaCreate,
           ManifestMetaWrite, TagCreate, TagWrite, Copy, Goto, LockedInv, TypeOK
      <4>4. pc[p] = "ref" /\ CanWrite(Key(p)) /\ UNCHANGED <<file, data>>
        BY <4>3 DEF AddReference, At, disk
      <4>5. Whole(Key(p))
        BY <3>1, <4>4, FreeIsSettled DEF LockedInv, Published
      <4> QED BY <3>1, <4>4, <4>5 DEF Whole
    <3> QED BY <3>2, <3>3
  <2> QED BY <2>1, <2>2 DEF AckedManifestWhole
<1> QED BY <1>1, <1>2, LockedInductive, PTL DEF Spec

(* Uploads find the directories they made, and their metadata. *)
LEMMA StepStages ==
    ASSUME Timeouts = FALSE, TypeOK, LabelsFit, StagesOn, DirsKept, [Next]_vars
    PROVE  StagesOn'
<1> DEFINE Staged(p) == /\ pc[p] = "create" => "blob" \in dirs
                        /\ pc[p] = "meta" => "meta" \in dirs
                        /\ pc[p] # "movefailed"
                        /\ pc[p] \in {"verify", "move", "movemeta"} => meta[p] = p
<1> SUFFICES ASSUME NEW p \in BlobPuts PROVE Staged(p)'
  BY DEF StagesOn
<1>0. p \in Procs /\ p \in Keys /\ p \notin Gets /\ Staged(p)
  BY Kinds DEF StagesOn
<1>1. CASE pc'[p] = pc[p]
  <2>1. ASSUME pc[p] \in {"verify", "move", "movemeta"} PROVE meta'[p] = meta[p]
    <3>1. CASE UNCHANGED meta
      BY <3>1
    <3>2. ASSUME NEW q \in Procs,
                 StageMetaCreate(q) \/ StageMetaWrite(q) \/ VerifyDigest(q) \/ MoveFailed(q)
          PROVE  meta'[p] = meta[p]
      BY <1>0, <1>1, <2>1, <3>2
         DEF StageMetaCreate, StageMetaWrite, VerifyDigest, MoveFailed, DiscardStaged, Goto, At, TypeOK
    <3>3. ASSUME NEW q \in Procs, MoveMeta(q) \/ ManifestMetaCreate(q) \/ ManifestMetaWrite(q)
          PROVE  meta'[p] = meta[p]
      <4>1. Key(q) \in Bodies /\ p # Key(q) /\ (MoveMeta(q) => q # p)
        BY <1>0, <1>1, <3>3, RequestType, Kinds DEF MoveMeta, Goto, At, TypeOK
      <4> QED BY <1>0, <3>3, <4>1
              DEF MoveMeta, ManifestMetaCreate, ManifestMetaWrite, TypeOK
    <3> QED BY <3>1, <3>2, <3>3, MetaSteps
  <2> QED BY <1>0, <1>1, <2>1 DEF DirsKept, At
<1>2. CASE pc'[p] # pc[p]
  <2>1. CASE pc'[p] = "crashed"
    BY <2>1
  <2>2. CASE PutStep(p)
    <3>1. CASE StageMkdir(p) \/ StageMetaMkdir(p) \/ StageMetaWrite(p)
      BY <1>0, <3>1 DEF StageMkdir, StageMetaMkdir, StageMetaWrite, Goto, TypeOK
    <3>2. CASE VerifyDigest(p) \/ MoveBlob(p)
      BY <1>0, <3>2 DEF VerifyDigest, MoveBlob, Goto, At, TypeOK
    <3>3. CASE StatManifest(p)
      BY <3>3, Kinds DEF StatManifest
    <3>4. CASE pc'[p] \notin {"create", "meta", "movefailed", "verify", "move", "movemeta"}
      BY <3>4
    <3> QED BY <1>0, <2>2, <3>1, <3>2, <3>3, <3>4
            DEF PutStep, StageCreate, StageMetaCreate, MoveMeta, RemoveBlobDir, RemoveMetaDir,
            MoveFailed, ExistingManifest, CreateManifest, ManifestMetaCreate,
            ManifestMetaWrite, TagCreate, TagWrite, Copy, AddReference, Goto, TypeOK
  <2>3. ~LockTimeout(p) /\ ~GetStep(p)
    BY <1>0, PutsDoNotRead DEF LockTimeout
  <2> QED BY <1>0, <1>2, <2>1, <2>2, <2>3, OwnStep DEF Step
<1> QED BY <1>1, <1>2

(* Only its Move brings an upload to its references. *)
LEMMA MovedBy ==
    ASSUME Timeouts = FALSE, TypeOK, LabelsFit, StagesOn, [Next]_vars,
           NEW p \in BlobPuts, Moved(p)', ~Moved(p)
    PROVE  MoveMeta(p)
<1>1. p \in Procs /\ p \notin Gets /\ p \notin ManifestPuts
  BY Kinds
<1>2. Step(p)
  BY <1>1, OwnStep DEF Moved
<1>3. ~LockTimeout(p) /\ ~GetStep(p)
  BY <1>1, PutsDoNotRead DEF LockTimeout
<1>4. pc[p] # "movefailed" /\ pc[p] \notin {"existing", "tag", "tagwrite"}
  BY <1>1 DEF StagesOn, LabelsFit
<1> QED BY <1>1, <1>2, <1>3, <1>4
        DEF Step, PutStep, StageMkdir, StageCreate, StageMetaMkdir, StageMetaCreate,
        StageMetaWrite, VerifyDigest, MoveBlob, RemoveBlobDir, RemoveMetaDir, MoveFailed,
        StatManifest, ExistingManifest, CreateManifest, ManifestMetaCreate,
        ManifestMetaWrite, TagCreate, TagWrite, Copy, AddReference, Goto, At, Moved, TypeOK

(* A manifest that finds no blob at a key comes before the uploads to it. *)
LEMMA StepLate ==
    ASSUME Locked, Timeouts = FALSE, TypeOK, LabelsFit, HoldsLock, Published, StagesOn,
           NoLateManifest, [Next]_vars
    PROVE  NoLateManifest'
<1> DEFINE L == {"create", "copy", "metadir", "metawrite"}
<1> SUFFICES ASSUME NEW m \in ManifestPuts, NEW p \in BlobPuts,
                    pc'[m] \in L, Moved(p)', Key(m) = Key(p)
             PROVE  FALSE
  BY ReqKept DEF NoLateManifest, Key
<1>0. m \in Procs /\ m \in Puts /\ m \notin BlobPuts /\ m \notin Gets
      /\ p \in Procs /\ p \in Puts /\ Key(m) \in Bodies
  BY Kinds, RequestType DEF TypeOK
<1>1. CASE Moved(p)
  <2>1. pc[m] \notin L
    BY <1>1 DEF NoLateManifest
  <2>2. file[Key(m)] # None
    BY <1>0, <1>1 DEF Published, Moved, Whole
  <2>3. Step(m)
    BY <1>0, <2>1, OwnStep
  <2>4. ~LockTimeout(m) /\ ~GetStep(m)
    BY <1>0, PutsDoNotRead DEF LockTimeout
  <2> QED BY <1>0, <2>1, <2>2, <2>3, <2>4
          DEF Step, PutStep, StageMkdir, StageCreate, StageMetaMkdir, StageMetaCreate,
          StageMetaWrite, VerifyDigest, MoveBlob, MoveMeta, RemoveBlobDir, RemoveMetaDir,
          MoveFailed, StatManifest, ExistingManifest, CreateManifest, ManifestMetaCreate,
          ManifestMetaWrite, TagCreate, TagWrite, Copy, AddReference, Goto, At, TypeOK
<1>2. CASE ~Moved(p)
  <2>1. MoveMeta(p)
    BY <1>2, MovedBy
  <2>2. pc[p] = "movemeta" /\ pc[m] \in L
    BY <1>0, <2>1 DEF MoveMeta, Goto, At, TypeOK
  <2>3. writer[Key(p)] = p /\ writer[Key(m)] = m
    BY <1>0, <2>2 DEF HoldsLock
  <2> QED BY <1>0, <2>3
<1> QED BY <1>1, <1>2

(* The metadata that an upload published stays readable. *)
LEMMA StepReadable ==
    ASSUME Locked, Timeouts = FALSE, TypeOK, LabelsFit, StagesOn, NoLateManifest,
           MovedReadable, [Next]_vars
    PROVE  MovedReadable'
<1> SUFFICES ASSUME NEW p \in BlobPuts, Moved(p)' PROVE meta'[Key(p)] # Torn
  BY ReqKept DEF MovedReadable, Key
<1>0. p \in Procs /\ Key(p) \in Bodies /\ Key(p) \in Keys
  BY Kinds, RequestType DEF TypeOK
<1>1. ASSUME NEW q \in Procs, MoveMeta(q), Key(q) = Key(p) PROVE meta'[Key(p)] # Torn
  <2>1. q \in BlobPuts /\ pc[q] = "movemeta" /\ meta[q] = q
    BY <1>1 DEF MoveMeta, At, LabelsFit, StagesOn
  <2> QED BY <1>0, <1>1, <2>1, Kinds DEF MoveMeta, TypeOK
<1>2. CASE ~Moved(p)
  BY <1>0, <1>1, <1>2, MovedBy
<1>3. CASE Moved(p)
  <2>1. meta[Key(p)] # Torn
    BY <1>3 DEF MovedReadable
  <2>2. CASE UNCHANGED meta
    BY <2>1, <2>2
  <2>3. ASSUME NEW q \in Procs,
               StageMetaCreate(q) \/ StageMetaWrite(q) \/ VerifyDigest(q) \/ MoveFailed(q)
        PROVE  meta'[Key(p)] # Torn
    BY <1>0, <2>1, <2>3, Kinds
       DEF StageMetaCreate, StageMetaWrite, VerifyDigest, MoveFailed, DiscardStaged, At,
           LabelsFit, TypeOK
  <2>4. ASSUME NEW q \in Procs, MoveMeta(q) PROVE meta'[Key(p)] # Torn
    <3>1. q \in BlobPuts /\ Key(q) \in Bodies
      BY <2>4, RequestType DEF MoveMeta, At, LabelsFit, TypeOK
    <3> QED BY <1>0, <1>1, <2>1, <2>4, <3>1, Kinds DEF MoveMeta, TypeOK
  <2>5. ASSUME NEW q \in Procs, ManifestMetaCreate(q) PROVE meta'[Key(p)] # Torn
    <3>1. q \in ManifestPuts /\ pc[q] = "metadir" /\ Key(q) # Key(p)
      BY <1>3, <2>5 DEF ManifestMetaCreate, At, NoLateManifest
    <3> QED BY <1>0, <2>1, <2>5, <3>1 DEF ManifestMetaCreate, TypeOK
  <2>6. ASSUME NEW q \in Procs, ManifestMetaWrite(q) PROVE meta'[Key(p)] # Torn
    <3>1. Key(q) \in Bodies
      BY <2>6, RequestType DEF TypeOK
    <3> QED BY <1>0, <2>1, <2>6, <3>1, Kinds DEF ManifestMetaWrite, TypeOK
  <2> QED BY <2>2, <2>3, <2>4, <2>5, <2>6, MetaSteps
<1> QED BY <1>2, <1>3

(* With locks, an upload that matches its digest and neither times out nor fails to copy
   is published, if only the staging directories stay: crashes, wrong digests and other
   pushes of the same content do not make it fail. *)
THEOREM UploadsSucceed ==
    ASSUME Locked, Timeouts = FALSE, WriteFaults = FALSE
    PROVE  Spec /\ [][DirsKept]_vars => []MatchingUploadSucceeds
<1> DEFINE Inv == StagesOn /\ NoLateManifest /\ MovedReadable /\ MatchingUploadSucceeds
<1>1. Init => Inv
  BY Kinds DEF Init, StagesOn, NoLateManifest, MovedReadable, Moved, MatchingUploadSucceeds
<1>2. Inv /\ LockedInv /\ [Next]_vars /\ [DirsKept]_vars => Inv'
  <2> SUFFICES ASSUME Inv, LockedInv, [Next]_vars, [DirsKept]_vars PROVE Inv'
    OBVIOUS
  <2>1. CASE UNCHANGED vars
    BY <2>1 DEF vars, StagesOn, NoLateManifest, MovedReadable, Moved, Key, MatchingUploadSucceeds
  <2>2. CASE DirsKept
    <3>1. StagesOn' /\ NoLateManifest' /\ MovedReadable'
      BY <2>2, StepStages, StepLate, StepReadable DEF LockedInv
    <3>2. ASSUME NEW p \in BlobPuts, pc'[p] = "failed", (req[p].body = req[p].digest)'
          PROVE  FALSE
      <4>1. p \in Procs /\ p \notin Gets /\ p \notin ManifestPuts /\ pc[p] # "failed"
            /\ req[p].body = req[p].digest
        BY <3>2, Kinds, ReqKept DEF LockedInv, MatchingUploadSucceeds
      <4>2. Step(p)
        BY <3>2, <4>1, OwnStep DEF LockedInv
      <4>3. ~LockTimeout(p) /\ ~GetStep(p)
        BY <4>1, PutsDoNotRead DEF LockTimeout, LockedInv
      <4>4. ~StageCreate(p) /\ ~StageMetaCreate(p)
        BY <3>2, <4>1 DEF StageCreate, StageMetaCreate, Goto, At, StagesOn, LockedInv, TypeOK
      <4>5. ~MoveFailed(p) /\ ~AddReference(p)
        BY <3>2, <4>1 DEF MoveFailed, AddReference, Goto, At, StagesOn, MovedReadable, Moved,
                          LockedInv, TypeOK
      <4>6. ~ExistingManifest(p) /\ ~TagCreate(p)
        BY <4>1 DEF ExistingManifest, TagCreate, At, LockedInv, LabelsFit
      <4> QED BY <3>2, <4>1, <4>2, <4>3, <4>4, <4>5, <4>6
              DEF Step, PutStep, StageMkdir, StageMetaMkdir, StageMetaWrite, VerifyDigest,
              MoveBlob, MoveMeta, RemoveBlobDir, RemoveMetaDir, StatManifest, CreateManifest,
              ManifestMetaCreate, ManifestMetaWrite, TagWrite, Copy, Goto, LockedInv, TypeOK
    <3> QED BY <3>1, <3>2 DEF MatchingUploadSucceeds
  <2> QED BY <2>1, <2>2
<1> QED BY <1>1, <1>2, LockedInductive, PTL DEF Spec

==============================================================================
