-------------------------- MODULE Registry_proofs ----------------------------
(* RegistryPush with locks implements Registry, for any requests, bodies, tags and
   crashes. *)
EXTENDS RegistryPush_proofs

(***************************************************************************)
(* What LockedInv does not say yet.  Content is stored from the last step  *)
(* of its metadata on, which nobody else can have taken before (PushFits); *)
(* a blob without readable metadata is being written, or was left by a     *)
(* push that failed (Leftovers); a lookup leads to what was pushed under   *)
(* the tag (Lookups); what a pull has found is stored (PullFits).          *)
(***************************************************************************)
Broken(k) == \E p \in Puts : Key(p) = k /\ pc[p] \in {"failed", "crashed"}

PushFits(p) ==
    /\ p \in BlobPuts =>
         /\ pc[p] \in {"verify", "move", "movemeta"} => meta[p] = p
         /\ pc[p] = "movemeta" => req[p].body = Key(p)
         /\ pc[p] \in {"rmblobdir", "rmmetadir", "ref"} => Key(p) \in Stored
    /\ p \in ManifestPuts =>
         /\ pc[p] \in {"create", "copy", "metadir", "metawrite"} => Key(p) \notin Stored
         /\ pc[p] = "metawrite" => p \in linked
         /\ pc[p] \in {"existing", "tag", "tagwrite", "ref"} =>
                Key(p) \in Stored \/ Broken(Key(p))
PushesFit == \A p \in Puts : PushFits(p)

Writing(p) == pc[p] = "movemeta" \/ (p \in ManifestPuts /\ pc[p] \in {"copy", "metadir", "metawrite"})
Leftovers ==
    \A k \in Bodies : file[k] # None =>
        k \in Stored \/ Broken(k) \/ \E p \in Puts : Key(p) = k /\ Writing(p)

Pushed(k, t) == \E m \in ManifestPuts : Key(m) = k /\ req[m].tag = t
Lookups == \A t \in Tags : lookup[t] \in Bodies => Pushed(lookup[t], t)

Found(g, k) == k \in Stored /\ IF g \in BlobGets THEN k = Key(g) ELSE Pushed(k, req[g].tag)
PullFits(g) ==
    /\ pc[g] = "open" => at[g] \in BlobPuts \/ Found(g, at[g])
    /\ pc[g] = "read" => Found(g, seen[g])
PullsFit == \A g \in Gets : PullFits(g)

PromiseInv == LockedInv /\ PushesFit /\ Leftovers /\ Lookups /\ PullsFit

(* Facts of LockedInv that most steps below use. *)
LEMMA Basics ==
    ASSUME LockedInv
    PROVE  /\ TypeOK /\ LabelsFit /\ HoldsLock /\ MetaMeansWhole
           /\ \A p \in Procs : Key(p) \in Bodies /\ req[p].tag \in Tags
           /\ \A k \in Bodies : k \in Stored <=> meta[k] \notin {None, Torn}
           /\ Stored \subseteq Bodies
BY RequestType DEF LockedInv, TypeOK, Stored

(* Steps of a request change no label but its own. *)
LEMMA OwnLabel ==
    ASSUME NEW p \in Procs, Step(p)
    PROVE  \E l : pc' = [pc EXCEPT ![p] = l]
BY DEF Step, PutStep, GetStep, Goto,
     StageMkdir, StageCreate, StageMetaMkdir, StageMetaCreate, StageMetaWrite, VerifyDigest,
     MoveBlob, MoveMeta, RemoveBlobDir, RemoveMetaDir, MoveFailed, StatManifest,
     ExistingManifest, CreateManifest, ManifestMetaCreate, ManifestMetaWrite, TagCreate,
     TagWrite, Copy, AddReference, GetBlobMeta, ResolveTag, GetManifestMeta, OpenBlob,
     ReadBlob, LockTimeout

(* The steps of a request that touch metadata. *)
LEMMA OwnMeta ==
    ASSUME NEW p \in Procs, Step(p)
    PROVE  \/ UNCHANGED <<meta, linked>>
           \/ StageMetaCreate(p) \/ StageMetaWrite(p) \/ VerifyDigest(p) \/ MoveMeta(p)
           \/ MoveFailed(p) \/ ManifestMetaCreate(p) \/ ManifestMetaWrite(p)
BY DEF Step, PutStep, GetStep, disk, handles, StageMkdir, StageCreate, StageMetaMkdir, MoveBlob,
   RemoveBlobDir, RemoveMetaDir, StatManifest, ExistingManifest, CreateManifest,
   TagCreate, TagWrite, Copy, AddReference, GetBlobMeta, ResolveTag, GetManifestMeta, OpenBlob,
   ReadBlob, LockTimeout

(* What is stored changes in two steps only, by the key of a request that holds its
   lock and brings a body of that digest. *)
LEMMA StoredStep ==
    ASSUME Locked, PromiseInv, NEW p \in Procs, Step(p)
    PROVE  \/ Stored' = Stored
           \/ /\ p \in Puts /\ pc[p] \in {"movemeta", "metawrite"} /\ writer[Key(p)] = p
              /\ req[p].body = Key(p) /\ Stored' = Stored \cup {Key(p)}
<1>0. /\ TypeOK /\ LabelsFit /\ HoldsLock /\ (p \in Puts => PushFits(p))
      /\ Key(p) \in Bodies /\ (p \in ManifestPuts => req[p].body = Key(p))
      /\ Stored' = {k \in Bodies : meta'[k] \notin {None, Torn}}
      /\ Stored = {k \in Bodies : meta[k] \notin {None, Torn}}
  BY Basics, Kinds DEF PromiseInv, PushesFit, LockedInv, ContentInv, MatchesDigest, Stored
<1>1. CASE UNCHANGED <<meta, linked>>
  BY <1>0, <1>1
<1>2. CASE StageMetaCreate(p) \/ StageMetaWrite(p) \/ VerifyDigest(p) \/ MoveFailed(p)
  <2>1. p \in BlobPuts
    BY <1>0, <1>2 DEF StageMetaCreate, StageMetaWrite, VerifyDigest, MoveFailed, At, LabelsFit
  <2>2. \A k \in Bodies : meta'[k] = meta[k]
    BY <1>0, <1>2, <2>1, Kinds
       DEF StageMetaCreate, StageMetaWrite, VerifyDigest, MoveFailed, DiscardStaged, TypeOK
  <2> QED BY <1>0, <2>2
<1>3. CASE MoveMeta(p)
  <2>1. p \in BlobPuts /\ pc[p] = "movemeta"
    BY <1>0, <1>3 DEF MoveMeta, At, LabelsFit
  <2>2. meta[p] = p /\ req[p].body = Key(p) /\ writer[Key(p)] = p
    BY <1>0, <2>1, Kinds DEF PushFits, HoldsLock
  <2>3. meta' = [meta EXCEPT ![Key(p)] = p, ![p] = None]
    BY <1>3, <2>2 DEF MoveMeta
  <2>4. \A k \in Bodies : meta'[k] = IF k = Key(p) THEN p ELSE meta[k]
    BY <1>0, <2>1, <2>3, Kinds DEF TypeOK
  <2>5. p \notin {None, Torn} /\ p \in Puts
    BY <2>1, Kinds, TornAssumption
  <2> QED BY <1>0, <2>1, <2>2, <2>4, <2>5
<1>4. CASE ManifestMetaCreate(p)
  <2>1. p \in ManifestPuts /\ pc[p] = "metadir" /\ meta' = [meta EXCEPT ![Key(p)] = Torn]
    BY <1>4 DEF ManifestMetaCreate, At
  <2>2. Key(p) \notin Stored
    BY <1>0, <2>1, Kinds DEF PushFits
  <2>3. \A k \in Bodies : meta'[k] = IF k = Key(p) THEN Torn ELSE meta[k]
    BY <1>0, <2>1, Kinds DEF TypeOK
  <2> QED BY <1>0, <2>2, <2>3
<1>5. CASE ManifestMetaWrite(p)
  <2>1. p \in ManifestPuts /\ pc[p] = "metawrite"
    BY <1>5 DEF ManifestMetaWrite, At
  <2>2. p \in linked /\ writer[Key(p)] = p
    BY <1>0, <2>1, Kinds DEF PushFits, HoldsLock
  <2>3. meta' = [meta EXCEPT ![Key(p)] = Key(p)]
    BY <1>5, <2>2 DEF ManifestMetaWrite
  <2>4. \A k \in Bodies : meta'[k] = IF k = Key(p) THEN Key(p) ELSE meta[k]
    BY <1>0, <2>3, Kinds DEF TypeOK
  <2>5. Key(p) \notin {None, Torn} /\ p \in Puts
    BY <1>0, <2>1, Kinds
  <2> QED BY <1>0, <2>1, <2>2, <2>4, <2>5
<1> QED BY <1>1, <1>2, <1>3, <1>4, <1>5, OwnMeta

(* Stored content stays stored, and failed requests stay failed. *)
LEMMA Grows ==
    ASSUME Locked, PromiseInv, [Next]_vars
    PROVE  /\ Stored \subseteq Stored' /\ req' = req
           /\ \A p \in Procs : Key(p)' = Key(p)
           /\ \A p \in Procs : pc[p] \in Ended => pc'[p] = pc[p]
           /\ \A k \in Bodies : Broken(k) => Broken(k)'
<1>0. req' = req /\ TypeOK
  BY ReqKept DEF PromiseInv, LockedInv
<1>1. Stored \subseteq Stored'
  <2>1. CASE UNCHANGED vars \/ Quiet \/ Crash
    BY <2>1 DEF vars, Quiet, Crash, disk, Stored
  <2> QED BY <2>1, StoredStep DEF Next
<1>2. \A p \in Procs : pc[p] \in Ended => pc'[p] = pc[p]
  <2>1. CASE UNCHANGED vars \/ Quiet \/ Crash
    BY <2>1 DEF vars, Quiet, Crash, Running
  <2>2. ASSUME NEW p \in Procs, Step(p), NEW q \in Procs, pc[q] \in Ended PROVE pc'[q] = pc[q]
    <3>1. CASE q = p
      BY <2>2, <3>1 DEF Step, PutStep, GetStep, At, Waiting, Ended,
     StageMkdir, StageCreate, StageMetaMkdir, StageMetaCreate, StageMetaWrite, VerifyDigest,
     MoveBlob, MoveMeta, RemoveBlobDir, RemoveMetaDir, MoveFailed, StatManifest,
     ExistingManifest, CreateManifest, ManifestMetaCreate, ManifestMetaWrite, TagCreate,
     TagWrite, Copy, AddReference, GetBlobMeta, ResolveTag, GetManifestMeta, OpenBlob,
     ReadBlob, LockTimeout
    <3>2. CASE q # p
      BY <2>2, <3>2, <1>0, OwnLabel DEF TypeOK
    <3> QED BY <3>1, <3>2
  <2> QED BY <2>1, <2>2 DEF Next
<1>3. \A p \in Procs : Key(p)' = Key(p)
  BY <1>0 DEF Key
<1>4. \A k \in Bodies : Broken(k) => Broken(k)'
  BY <1>2, <1>3, Kinds DEF Broken, Ended
<1> QED BY <1>0, <1>1, <1>2, <1>3, <1>4


(* A step of another request leaves a push where it was. *)
LEMMA OthersFit ==
    ASSUME Locked, PromiseInv, NEW p \in Procs, Step(p), NEW q \in Puts, q # p
    PROVE  PushFits(q)'
<1>0. /\ TypeOK /\ LabelsFit /\ HoldsLock /\ PushFits(q) /\ q \in Procs
      /\ Key(p) \in Bodies /\ Key(q) \in Bodies
  BY Basics, Kinds DEF PromiseInv, PushesFit
<1>1. /\ Stored \subseteq Stored' /\ req' = req /\ Key(q)' = Key(q)
      /\ Broken(Key(q)) => Broken(Key(q))'
  BY <1>0, Grows DEF Next
<1>2. pc'[q] = pc[q]
  BY <1>0, OwnLabel DEF TypeOK
<1>3. Key(p) # Key(q) \/ ~(/\ pc[p] \in {"movemeta", "metawrite"} /\ p \in Puts
                           /\ \/ writer[Key(q)] = q
                              \/ q \in ManifestPuts /\ pc[q] = "metawrite")
      \/ writer[Key(p)] # p
  BY <1>0 DEF HoldsLock
<1>4. q \in BlobPuts => meta'[q] = meta[q]
  BY <1>0, OwnMeta, Kinds
     DEF StageMetaCreate, StageMetaWrite, VerifyDigest, MoveMeta, MoveFailed, DiscardStaged,
         ManifestMetaCreate, ManifestMetaWrite, TypeOK
<1>5. q \in ManifestPuts /\ pc[q] = "metawrite" /\ q \in linked => q \in linked'
  <2> SUFFICES ASSUME q \in ManifestPuts, pc[q] = "metawrite", q \in linked PROVE q \in linked'
    OBVIOUS
  <2>1. CASE MoveMeta(p)
    <3>1. p \in BlobPuts /\ pc[p] = "movemeta" /\ linked' = {r \in linked : Key(r) # Key(p)}
      BY <1>0, <2>1 DEF MoveMeta, At, LabelsFit
    <3>2. writer[Key(p)] = p
      BY <1>0, <3>1, Kinds DEF HoldsLock
    <3> QED BY <1>3, <3>1, <3>2, Kinds
  <2>2. CASE ManifestMetaCreate(p) \/ ManifestMetaWrite(p)
    BY <2>2 DEF ManifestMetaCreate, ManifestMetaWrite
  <2>3. CASE \/ UNCHANGED <<meta, linked>> \/ StageMetaCreate(p) \/ StageMetaWrite(p)
             \/ VerifyDigest(p) \/ MoveFailed(p)
    BY <2>3 DEF StageMetaCreate, StageMetaWrite, VerifyDigest, MoveFailed, handles
  <2> QED BY <2>1, <2>2, <2>3, OwnMeta
<1>6. q \in ManifestPuts /\ pc[q] \in {"create", "copy", "metadir", "metawrite"}
      /\ Key(q) \notin Stored => Key(q) \notin Stored'
  <2>1. q \in ManifestPuts /\ pc[q] \in {"create", "copy", "metadir", "metawrite"} =>
          writer[Key(q)] = q
    BY <1>0 DEF HoldsLock
  <2> QED BY <1>3, <2>1, StoredStep
<1> QED BY <1>0, <1>1, <1>2, <1>4, <1>5, <1>6 DEF PushFits

(* What a push starts from, in every case of the next lemma. *)
LEMMA PushBasics ==
    ASSUME Locked, PromiseInv, NEW p \in Puts, Step(p)
    PROVE  /\ TypeOK /\ LabelsFit /\ HoldsLock /\ PushFits(p) /\ p \in Procs
           /\ Key(p) \in Bodies /\ Key(p)' = Key(p) /\ req' = req
           /\ Stored \subseteq Stored' /\ (Broken(Key(p)) => Broken(Key(p))')
           /\ p \in BlobPuts \/ p \in ManifestPuts
           /\ (p \in BlobPuts => p \notin ManifestPuts)
           /\ \A k \in Bodies : k \in Stored <=> meta[k] \notin {None, Torn}
           /\ \A k \in Bodies : k \in Stored' <=> meta'[k] \notin {None, Torn}
<1>1. p \in Procs
  BY Kinds
<1>2. Stored \subseteq Stored' /\ Key(p)' = Key(p) /\ req' = req
  BY <1>1, Grows DEF Next
<1>3. Key(p) \in Bodies /\ TypeOK /\ LabelsFit /\ HoldsLock
  BY <1>1, Basics DEF PromiseInv
<1>4. Broken(Key(p)) => Broken(Key(p))'
  BY <1>1, <1>2, <1>3, Grows DEF Next
<1> QED BY <1>1, <1>2, <1>3, <1>4, Kinds DEF PromiseInv, PushesFit, Stored

(* The step of a push leaves it fit. *)
LEMMA OwnFits ==
    ASSUME Locked, PromiseInv, NEW p \in Puts, Step(p)
    PROVE  PushFits(p)'
<1>0. /\ TypeOK /\ LabelsFit /\ PushFits(p) /\ p \in Procs
      /\ Key(p) \in Bodies /\ Key(p)' = Key(p) /\ req' = req
      /\ Stored \subseteq Stored' /\ (Broken(Key(p)) => Broken(Key(p))')
      /\ p \in BlobPuts \/ p \in ManifestPuts
      /\ (p \in BlobPuts => p \notin ManifestPuts)
  BY PushBasics
<1>1. CASE StageMkdir(p) \/ StageCreate(p) \/ StageMetaMkdir(p) \/ StageMetaCreate(p)
  <2>1. p \in BlobPuts /\ pc'[p] \in {"create", "copy", "meta", "metawrite", "failed"}
    BY <1>0, <1>1 DEF StageMkdir, StageCreate, StageMetaMkdir, StageMetaCreate, Goto, TypeOK
  <2> QED BY <1>0, <2>1 DEF PushFits
<1>2. CASE StageMetaWrite(p)
  <2>1. p \in BlobPuts /\ pc'[p] = "verify" /\ meta'[p] = p
    BY <1>0, <1>2, Kinds DEF StageMetaWrite, Goto, TypeOK
  <2> QED BY <1>0, <2>1 DEF PushFits
<1>3. CASE VerifyDigest(p)
  <2>1. p \in BlobPuts /\ pc[p] = "verify"
        /\ ((pc'[p] = "move" /\ meta' = meta) \/ pc'[p] = "rejected")
    BY <1>0, <1>3 DEF VerifyDigest, At, Goto, LabelsFit, TypeOK
  <2> QED BY <1>0, <2>1 DEF PushFits
<1>4. CASE MoveBlob(p)
  <2>1. p \in BlobPuts /\ pc[p] = "move" /\ pc'[p] = "movemeta" /\ meta' = meta
    BY <1>0, <1>4 DEF MoveBlob, At, Goto, LabelsFit, TypeOK
  <2>2. req[p].body = Key(p)
    BY <2>1 DEF PromiseInv, LockedInv, ContentInv, MatchesDigest
  <2> QED BY <1>0, <2>1, <2>2 DEF PushFits
<1>5. CASE MoveMeta(p)
  <2>1. p \in BlobPuts /\ pc[p] = "movemeta" /\ pc'[p] = "rmblobdir" /\ meta'[Key(p)] = meta[p]
    BY <1>0, <1>5, Kinds DEF MoveMeta, At, Goto, LabelsFit, TypeOK
  <2>2. Key(p) \in Stored'
    BY <1>0, <2>1, PushBasics, Kinds, TornAssumption DEF PushFits
  <2> QED BY <1>0, <2>1, <2>2 DEF PushFits
<1>6. CASE RemoveBlobDir(p) \/ RemoveMetaDir(p)
  <2>1. p \in BlobPuts /\ pc[p] \in {"rmblobdir", "rmmetadir"} /\ pc'[p] \in {"rmmetadir", "ref"}
    BY <1>0, <1>6 DEF RemoveBlobDir, RemoveMetaDir, At, Goto, LabelsFit, TypeOK
  <2> QED BY <1>0, <2>1 DEF PushFits
<1>7. CASE MoveFailed(p)
  <2>1. p \in BlobPuts /\ pc'[p] \in {"ref", "failed"}
        /\ (pc'[p] = "ref" => meta[Key(p)] \notin {None, Torn})
    BY <1>0, <1>7 DEF MoveFailed, At, Goto, LabelsFit, TypeOK
  <2>2. pc'[p] = "ref" => Key(p) \in Stored'
    BY <1>0, <2>1, PushBasics
  <2> QED BY <1>0, <2>1, <2>2 DEF PushFits
<1>8. CASE StatManifest(p)
  <2>1. /\ p \in ManifestPuts /\ writer[Key(p)] = None /\ meta' = meta
        /\ \/ file[Key(p)] # None /\ pc'[p] = "existing"
           \/ file[Key(p)] = None /\ pc'[p] = "create"
    BY <1>0, <1>8 DEF StatManifest, CanWrite, Goto, disk, TypeOK
  <2>2. ~\E q \in Puts : Key(q) = Key(p) /\ Writing(q)
    BY <2>1, Kinds DEF PromiseInv, LockedInv, HoldsLock, Writing
  <2>3. file[Key(p)] # None => Key(p) \in Stored \/ Broken(Key(p))
    BY <1>0, <2>2 DEF PromiseInv, Leftovers
  <2>4. file[Key(p)] = None => Key(p) \notin Stored'
    <3>1. MetaMeansWhole
      BY DEF PromiseInv, LockedInv
    <3> QED BY <1>0, <2>1, <3>1, PushBasics DEF MetaMeansWhole, Whole
  <2> QED BY <1>0, <2>1, <2>3, <2>4 DEF PushFits
<1>9. CASE ExistingManifest(p)
  <2>1. p \in ManifestPuts /\ pc[p] = "existing" /\ pc'[p] \in {"tag", "failed"}
    BY <1>0, <1>9 DEF ExistingManifest, At, Goto, LabelsFit, TypeOK
  <2> QED BY <1>0, <2>1 DEF PushFits
<1>10. CASE CreateManifest(p)
  <2>1. p \in ManifestPuts /\ pc[p] = "create" /\ pc'[p] = "copy" /\ meta' = meta
    BY <1>0, <1>10 DEF CreateManifest, At, Goto, TypeOK
  <2>2. Key(p) \notin Stored'
    BY <1>0, <2>1, PushBasics DEF PushFits
  <2> QED BY <1>0, <2>1, <2>2 DEF PushFits
<1>11. CASE Copy(p)
  <2>1. pc[p] = "copy" /\ pc'[p] \in {"metadir", "failed"} /\ meta' = meta
    BY <1>0, <1>11 DEF Copy, At, Goto, TypeOK
  <2>2. p \in ManifestPuts => Key(p) \notin Stored'
    BY <1>0, <2>1, PushBasics DEF PushFits
  <2> QED BY <1>0, <2>1, <2>2 DEF PushFits
<1>12. CASE ManifestMetaCreate(p)
  <2>1. p \in ManifestPuts /\ pc'[p] = "metawrite" /\ meta'[Key(p)] = Torn /\ p \in linked'
    BY <1>0, <1>12, Kinds DEF ManifestMetaCreate, At, Goto, TypeOK
  <2>2. Key(p) \notin Stored'
    BY <1>0, <2>1, PushBasics
  <2> QED BY <1>0, <2>1, <2>2 DEF PushFits
<1>13. CASE ManifestMetaWrite(p)
  <2>1. p \in ManifestPuts /\ pc[p] = "metawrite" /\ pc'[p] = "tag"
        /\ meta' = IF p \in linked THEN [meta EXCEPT ![Key(p)] = Key(p)] ELSE meta
    BY <1>0, <1>13 DEF ManifestMetaWrite, At, Goto, TypeOK
  <2>2. meta'[Key(p)] = Key(p)
    BY <1>0, <2>1, Kinds DEF PushFits, TypeOK
  <2>3. Key(p) \in Stored'
    BY <1>0, <2>2, PushBasics, Kinds
  <2> QED BY <1>0, <2>1, <2>3 DEF PushFits
<1>14. CASE TagCreate(p) \/ TagWrite(p)
  <2>1. p \in ManifestPuts /\ pc[p] \in {"tag", "tagwrite"}
        /\ pc'[p] \in {"tagwrite", "ref", "failed"}
    BY <1>0, <1>14 DEF TagCreate, TagWrite, At, Goto, LabelsFit, TypeOK
  <2> QED BY <1>0, <2>1 DEF PushFits
<1>15. CASE AddReference(p) \/ LockTimeout(p)
  <2>1. pc'[p] \in {"acked", "failed", "movefailed"}
    BY <1>0, <1>15 DEF AddReference, LockTimeout, Goto, TypeOK
  <2> QED BY <1>0, <2>1 DEF PushFits
<1>16. CASE GetStep(p)
  BY <1>0, <1>16, Kinds DEF GetStep, GetBlobMeta, ResolveTag, GetManifestMeta, OpenBlob, ReadBlob, At, LabelsFit
<1> QED BY <1>1, <1>2, <1>3, <1>4, <1>5, <1>6, <1>7, <1>8, <1>9, <1>10, <1>11, <1>12, <1>13,
           <1>14, <1>15, <1>16 DEF Step, PutStep

(* Every step leaves all pushes fit; a crash ends them. *)
LEMMA StepPushesFit ==
    ASSUME Locked, PromiseInv, [Next]_vars
    PROVE  PushesFit'
<1>1. CASE UNCHANGED vars \/ Quiet
  BY <1>1 DEF vars, Quiet, PromiseInv, PushesFit, PushFits, Broken, Stored, Key
<1>2. CASE Crash
  <2>1. \A q \in Puts : (pc'[q] = pc[q] /\ pc[q] \in {"idle"} \cup Ended) \/ pc'[q] = "crashed"
    BY <1>2, Kinds DEF Crash, Running
  <2> QED BY <2>1 DEF PushesFit, PushFits, Ended
<1> QED BY <1>1, <1>2, OthersFit, OwnFits DEF Next, PushesFit

(* The steps of a request that give a key its blob. *)
LEMMA OwnFile ==
    ASSUME Locked, PromiseInv, NEW p \in Procs, Step(p), NEW k \in Bodies, file[k] = None,
           file'[k] # None
    PROVE  p \in Puts /\ k = Key(p) /\ Writing(p)'
<1>0. TypeOK /\ LabelsFit /\ Key(p) \in Bodies
  BY Basics DEF PromiseInv
<1>1. StageCreate(p) \/ VerifyDigest(p) \/ MoveBlob(p) \/ MoveFailed(p) \/ CreateManifest(p)
  BY DEF Step, PutStep, GetStep, disk, StageMkdir, StageMetaMkdir, StageMetaCreate, StageMetaWrite,
     MoveMeta, RemoveBlobDir, RemoveMetaDir, StatManifest, ExistingManifest, ManifestMetaCreate,
     ManifestMetaWrite, TagCreate, TagWrite, Copy, AddReference, GetBlobMeta, ResolveTag,
     GetManifestMeta, OpenBlob, ReadBlob, LockTimeout
<1>2. CASE StageCreate(p) \/ VerifyDigest(p) \/ MoveFailed(p)
  <2>1. p \in BlobPuts
    BY <1>0, <1>2 DEF StageCreate, VerifyDigest, MoveFailed, At, LabelsFit
  <2> QED BY <1>0, <1>2, <2>1, Kinds
          DEF StageCreate, VerifyDigest, MoveFailed, DiscardStaged, TypeOK
<1>3. CASE MoveBlob(p)
  BY <1>0, <1>3, Kinds DEF MoveBlob, At, Goto, LabelsFit, TypeOK, Writing
<1>4. CASE CreateManifest(p)
  BY <1>0, <1>4, Kinds DEF CreateManifest, Goto, TypeOK, Writing
<1> QED BY <1>1, <1>2, <1>3, <1>4

(* A push that stops writing has stored its content, or failed. *)
LEMMA WritingEnds ==
    ASSUME Locked, PromiseInv, NEW p \in Puts, Step(p), Writing(p)
    PROVE  Writing(p)' \/ Key(p) \in Stored' \/ Broken(Key(p))'
<1>0. TypeOK /\ p \in Procs /\ Key(p)' = Key(p) /\ (p \in BlobPuts => p \notin ManifestPuts)
      /\ PushFits(p)' /\ LabelsFit
  BY PushBasics, OwnFits
<1>1. CASE pc[p] = "movemeta"
  <2>1. MoveMeta(p)
    BY <1>1
       DEF Step, PutStep, GetStep, At, Waiting,
           StageMkdir, StageCreate, StageMetaMkdir, StageMetaCreate, StageMetaWrite, VerifyDigest,
           MoveBlob, RemoveBlobDir, RemoveMetaDir, MoveFailed, StatManifest,
           ExistingManifest, CreateManifest, ManifestMetaCreate, ManifestMetaWrite, TagCreate,
           TagWrite, Copy, AddReference, GetBlobMeta, ResolveTag, GetManifestMeta, OpenBlob,
           ReadBlob, LockTimeout
  <2>2. pc'[p] = "rmblobdir" /\ p \in BlobPuts
    BY <1>0, <1>1, <2>1 DEF MoveMeta, Goto, LabelsFit, TypeOK
  <2> QED BY <1>0, <2>2 DEF PushFits
<1>2. CASE p \in ManifestPuts /\ pc[p] \in {"copy", "metadir", "metawrite"}
  <2>1. Copy(p) \/ ManifestMetaCreate(p) \/ ManifestMetaWrite(p)
    BY <1>0, <1>2
       DEF Step, PutStep, GetStep, At, Waiting,
           StageMkdir, StageCreate, StageMetaMkdir, StageMetaCreate, StageMetaWrite, VerifyDigest,
           MoveBlob, MoveMeta, RemoveBlobDir, RemoveMetaDir, MoveFailed, StatManifest,
           ExistingManifest, CreateManifest, TagCreate,
           TagWrite, AddReference, GetBlobMeta, ResolveTag, GetManifestMeta, OpenBlob,
           ReadBlob, LockTimeout
  <2>2. pc'[p] \in {"metadir", "metawrite", "tag", "failed"}
    BY <1>0, <2>1 DEF Copy, ManifestMetaCreate, ManifestMetaWrite, Goto, TypeOK
  <2>3. CASE pc'[p] = "failed"
    BY <1>0, <2>3 DEF Broken
  <2> QED BY <1>0, <1>2, <2>2, <2>3 DEF PushFits, Writing
<1> QED BY <1>1, <1>2 DEF Writing

(* Every blob without readable metadata is accounted for. *)
LEMMA StepLeftovers ==
    ASSUME Locked, PromiseInv, [Next]_vars
    PROVE  Leftovers'
<1> DEFINE Writer(k) == \E p \in Puts : Key(p) = k /\ Writing(p)
<1> SUFFICES ASSUME NEW k \in Bodies, file'[k] # None
             PROVE  k \in Stored' \/ Broken(k)' \/ Writer(k)'
  BY DEF Leftovers
<1>0. /\ Stored \subseteq Stored' /\ (Broken(k) => Broken(k)') /\ TypeOK
      /\ \A p \in Procs : Key(p)' = Key(p)
      /\ file[k] # None => k \in Stored \/ Broken(k) \/ Writer(k)
  BY Grows, Basics DEF PromiseInv, Leftovers
<1>1. CASE UNCHANGED vars \/ Quiet
  BY <1>0, <1>1, Kinds DEF vars, Quiet, Writing
<1>2. CASE Crash
  <2>1. file' = file /\ \A p \in Puts : Writing(p) => pc'[p] = "crashed"
    BY <1>2, Kinds DEF Crash, disk, Running, Writing, Ended
  <2>2. Writer(k) => Broken(k)'
    BY <1>0, <2>1, Kinds DEF Broken
  <2> QED BY <1>0, <2>1, <2>2
<1>3. ASSUME NEW p \in Procs, Step(p) PROVE k \in Stored' \/ Broken(k)' \/ Writer(k)'
  <2>1. CASE file[k] = None
    <3>1. p \in Puts /\ k = Key(p) /\ Writing(p)'
      BY <1>3, <2>1, OwnFile
    <3> QED BY <1>0, <3>1, Kinds
  <2>2. ASSUME NEW q \in Puts, Key(q) = k, Writing(q)
        PROVE  k \in Stored' \/ Broken(k)' \/ Writer(k)'
    <3>1. CASE q = p
      BY <1>0, <1>3, <2>2, <3>1, WritingEnds, Kinds
    <3>2. CASE q # p
      <4>1. Writing(q)'
        BY <1>0, <1>3, <2>2, <3>2, OwnLabel, Kinds DEF Writing, TypeOK
      <4> QED BY <1>0, <2>2, <4>1, Kinds
    <3> QED BY <3>1, <3>2
  <2> QED BY <1>0, <2>1, <2>2
<1> QED BY <1>1, <1>2, <1>3 DEF Next

(* A lookup is written by a manifest push, for its tag. *)
LEMMA StepLookups ==
    ASSUME Locked, PromiseInv, [Next]_vars
    PROVE  Lookups'
<1>0. TypeOK /\ LabelsFit /\ Lookups /\ \A p \in Procs : Key(p) \in Bodies /\ req[p].tag \in Tags
  BY Basics DEF PromiseInv
<1>1. req' = req /\ (\A k, t : Pushed(k, t) => Pushed(k, t)')
  BY Grows, Kinds DEF Pushed
<1>2. ASSUME UNCHANGED lookup PROVE Lookups'
  BY <1>0, <1>1, <1>2 DEF Lookups
<1>3. ASSUME NEW p \in Procs, TagCreate(p) PROVE Lookups'
  <2>1. lookup' = lookup \/ lookup' = [lookup EXCEPT ![req[p].tag] = Torn]
    BY <1>3 DEF TagCreate
  <2> QED BY <1>0, <1>1, <2>1, TornAssumption DEF Lookups, TypeOK
<1>4. ASSUME NEW p \in Procs, TagWrite(p) PROVE Lookups'
  <2>1. p \in ManifestPuts /\ lookup' = [lookup EXCEPT ![req[p].tag] = Key(p)]
    BY <1>0, <1>4 DEF TagWrite, At, LabelsFit
  <2>2. Pushed(Key(p), req[p].tag)
    BY <2>1 DEF Pushed
  <2> QED BY <1>0, <1>1, <2>1, <2>2 DEF Lookups, TypeOK
<1>5. CASE UNCHANGED vars \/ Quiet \/ Crash
  BY <1>2, <1>5 DEF vars, Quiet, Crash, disk
<1>6. ASSUME NEW p \in Procs, Step(p) PROVE UNCHANGED lookup \/ TagCreate(p) \/ TagWrite(p)
  BY <1>6 DEF Step, PutStep, GetStep, disk, StageMkdir, StageCreate, StageMetaMkdir, StageMetaCreate,
     StageMetaWrite, VerifyDigest, MoveBlob, MoveMeta, RemoveBlobDir, RemoveMetaDir, MoveFailed,
     StatManifest, ExistingManifest, CreateManifest, ManifestMetaCreate, ManifestMetaWrite, Copy,
     AddReference, GetBlobMeta, ResolveTag, GetManifestMeta, OpenBlob, ReadBlob, LockTimeout
<1> QED BY <1>2, <1>3, <1>4, <1>5, <1>6 DEF Next

(* What a pull has found stays found. *)
LEMMA StepPullsFit ==
    ASSUME Locked, PromiseInv, [Next]_vars
    PROVE  PullsFit'
<1> SUFFICES ASSUME NEW g \in Gets PROVE PullFits(g)'
  BY DEF PullsFit
<1>0. /\ TypeOK /\ LabelsFit /\ PullFits(g) /\ Reading(g) /\ g \in Procs
      /\ Key(g) \in Bodies /\ req[g].tag \in Tags /\ Key(g)' = Key(g) /\ req' = req
      /\ Stored \subseteq Stored'
      /\ \A k \in Bodies : k \in Stored <=> meta[k] \notin {None, Torn}
  BY Basics, Grows, Kinds DEF PromiseInv, PullsFit, LockedInv, ReadWhole
<1>1. \A k : Found(g, k) => Found(g, k)'
  <2>1. \A k, t : Pushed(k, t) => Pushed(k, t)'
    BY Grows, Kinds DEF Pushed
  <2> QED BY <1>0, <2>1 DEF Found
<1>2. CASE /\ pc'[g] = pc[g]
           /\ pc[g] \in {"open", "read"} => at'[g] = at[g] /\ seen'[g] = seen[g]
  BY <1>0, <1>1, <1>2 DEF PullFits
<1>3. CASE pc'[g] \notin {"open", "read"}
  BY <1>3 DEF PullFits
<1>4. CASE GetBlobMeta(g)
  <2>1. CASE pc'[g] = "notfound"
    BY <2>1 DEF PullFits
  <2>2. CASE pc'[g] # "notfound"
    <3>1. g \in BlobGets /\ pc'[g] = "open" /\ at'[g] = Key(g) /\ meta[Key(g)] \notin {None, Torn}
      BY <1>0, <1>4, <2>2 DEF GetBlobMeta, Goto, TypeOK
    <3> QED BY <1>0, <1>1, <3>1 DEF PullFits, Found
  <2> QED BY <2>1, <2>2
<1>5. CASE GetManifestMeta(g)
  <2>1. CASE pc'[g] = "notfound"
    BY <2>1 DEF PullFits
  <2>2. CASE pc'[g] # "notfound"
    <3> DEFINE k == lookup[req[g].tag]
    <3>1. /\ pc'[g] = "open" /\ at'[g] = meta[k] /\ k \in Bodies
          /\ g \notin BlobGets /\ meta[k] \notin {None, Torn}
      <4>1. g \in ManifestGets /\ g \notin BlobGets
        BY <1>0, <1>5, ProcsAssumption DEF GetManifestMeta, At, LabelsFit
      <4>2. k \in Bodies \cup {Torn, None}
        BY <1>0 DEF TypeOK
      <4> QED BY <1>0, <1>5, <2>2, <4>1, <4>2 DEF GetManifestMeta, Goto, TypeOK
    <3>2. Pushed(k, req[g].tag)
      BY <1>0, <3>1 DEF PromiseInv, Lookups
    <3> HIDE DEF k
    <3>3. meta[k] = k \/ meta[k] \in BlobPuts
      BY <3>1 DEF PromiseInv, LockedInv, MetaNames
    <3>4. meta[k] = k => Found(g, k)
      BY <1>0, <3>1, <3>2 DEF Found
    <3> QED BY <1>1, <3>1, <3>3, <3>4 DEF PullFits
  <2> QED BY <2>1, <2>2
<1>6. CASE OpenBlob(g)
  <2>1. pc[g] = "open"
    BY <1>6 DEF OpenBlob, At
  <2>2. CASE pc'[g] = "notfound"
    BY <2>2 DEF PullFits
  <2>3. CASE pc'[g] # "notfound"
    <3>1. pc'[g] = "read" /\ file[at[g]] # None /\ seen'[g] = data[file[at[g]]]
      BY <1>0, <1>6, <2>3 DEF OpenBlob, Goto, TypeOK
    <3>2. at[g] \in Bodies /\ data[file[at[g]]] = at[g]
      BY <1>0, <2>1, <3>1 DEF Reading, Gone, Whole
    <3>3. Found(g, at[g])
      BY <1>0, <2>1, <3>2, Kinds DEF PullFits
    <3> QED BY <1>1, <3>1, <3>2, <3>3 DEF PullFits
  <2> QED BY <2>2, <2>3
<1>7. CASE ReadBlob(g)
  <2>1. pc'[g] = "served"
    BY <1>0, <1>7 DEF ReadBlob, Goto, TypeOK
  <2> QED BY <2>1 DEF PullFits
<1> QED BY <1>2, <1>3, <1>4, <1>5, <1>6, <1>7, <1>0, ReaderSteps

(* The invariant of the refinement. *)
LEMMA PromiseInductive ==
    ASSUME Locked
    PROVE  Spec => []PromiseInv
<1>1. Init => PushesFit /\ Leftovers /\ Lookups /\ PullsFit
  BY Kinds, RequestType, TornAssumption
     DEF Init, PushesFit, PushFits, Leftovers, Lookups, PullsFit, PullFits
<1>2. PromiseInv /\ [Next]_vars => (PushesFit /\ Leftovers /\ Lookups /\ PullsFit)'
  BY StepPushesFit, StepLeftovers, StepLookups, StepPullsFit
<1> QED BY <1>1, <1>2, LockedInductive, PTL DEF Spec, PromiseInv

(***************************************************************************)
(* Each step is one of Registry's, or none.                                *)
(***************************************************************************)
LEMMA SameRequests ==
    /\ Abstract!Puts = Puts /\ Abstract!Gets = Gets /\ Abstract!Procs = Procs
BY DEF Abstract!Puts, Abstract!Gets, Abstract!Procs, Puts, Gets, Procs

(* How a request is seen before and after it ends. *)
LEMMA StateType ==
    ASSUME TypeOK
    PROVE  States \in [Procs -> Abstract!Status]
BY DEF States, State, TypeOK, Label, Ended, Abstract!Status

LEMMA OwnState ==
    ASSUME TypeOK, TypeOK', NEW p \in Procs, Step(p)
    PROVE  /\ States[p] = "open" /\ pc[p] \notin Ended
           /\ States' = [States EXCEPT ![p] = State(p)']
<1>1. pc[p] \notin Ended
  BY DEF Step, PutStep, GetStep, At, Waiting, Ended,
     StageMkdir, StageCreate, StageMetaMkdir, StageMetaCreate, StageMetaWrite, VerifyDigest,
     MoveBlob, MoveMeta, RemoveBlobDir, RemoveMetaDir, MoveFailed, StatManifest,
     ExistingManifest, CreateManifest, ManifestMetaCreate, ManifestMetaWrite, TagCreate,
     TagWrite, Copy, AddReference, GetBlobMeta, ResolveTag, GetManifestMeta, OpenBlob,
     ReadBlob, LockTimeout
<1>2. States[p] = "open"
  BY <1>1 DEF States, State
<1>3. \A q \in Procs : q # p => State(q)' = State(q)
  BY OwnLabel DEF State, TypeOK
<1> QED BY <1>1, <1>2, <1>3 DEF States

(* The steps that end a request, or answer it. *)
LEMMA Endings ==
    ASSUME TypeOK, LabelsFit, NEW p \in Procs, Step(p), pc'[p] \in Ended
    PROVE  \/ pc'[p] = "failed" /\ UNCHANGED got
           \/ pc'[p] = "acked" /\ AddReference(p)
           \/ pc'[p] = "rejected" /\ VerifyDigest(p)
           \/ pc'[p] = "served" /\ ReadBlob(p)
           \/ pc'[p] = "notfound" /\ (GetBlobMeta(p) \/ ResolveTag(p) \/ GetManifestMeta(p) \/ OpenBlob(p))
<1>1. CASE \/ StageMkdir(p) \/ StageMetaMkdir(p) \/ StageMetaWrite(p) \/ MoveBlob(p) \/ MoveMeta(p)
           \/ RemoveBlobDir(p) \/ RemoveMetaDir(p) \/ StatManifest(p) \/ CreateManifest(p)
           \/ ManifestMetaCreate(p) \/ ManifestMetaWrite(p) \/ TagWrite(p)
  BY <1>1 DEF StageMkdir, StageMetaMkdir, StageMetaWrite, MoveBlob, MoveMeta, RemoveBlobDir,
     RemoveMetaDir, StatManifest, CreateManifest, ManifestMetaCreate, ManifestMetaWrite, TagWrite,
     Goto, TypeOK, Ended
<1>2. CASE \/ StageCreate(p) \/ StageMetaCreate(p) \/ MoveFailed(p) \/ ExistingManifest(p)
           \/ TagCreate(p) \/ Copy(p) \/ LockTimeout(p)
  BY <1>2 DEF StageCreate, StageMetaCreate, MoveFailed, ExistingManifest, TagCreate, Copy,
     LockTimeout, handles, Goto, TypeOK, Ended
<1>3. CASE AddReference(p)
  BY <1>3 DEF AddReference, handles, Goto, TypeOK, Ended
<1>4. CASE VerifyDigest(p)
  BY <1>4 DEF VerifyDigest, Goto, TypeOK, Ended
<1>5. CASE GetBlobMeta(p) \/ ResolveTag(p) \/ GetManifestMeta(p) \/ OpenBlob(p)
  BY <1>5 DEF GetBlobMeta, ResolveTag, GetManifestMeta, OpenBlob, Goto, TypeOK, Ended
<1>6. CASE ReadBlob(p)
  BY <1>6 DEF ReadBlob, Goto, TypeOK, Ended
<1> QED BY <1>1, <1>2, <1>3, <1>4, <1>5, <1>6 DEF Step, PutStep, GetStep

(* Only a read changes what has been answered. *)
LEMMA Unanswered ==
    ASSUME NEW p \in Procs, Step(p), ~ReadBlob(p)
    PROVE  got' = got
BY DEF Step, PutStep, GetStep, handles,
     StageMkdir, StageCreate, StageMetaMkdir, StageMetaCreate, StageMetaWrite, VerifyDigest,
     MoveBlob, MoveMeta, RemoveBlobDir, RemoveMetaDir, MoveFailed, StatManifest,
     ExistingManifest, CreateManifest, ManifestMetaCreate, ManifestMetaWrite, TagCreate,
     TagWrite, Copy, AddReference, GetBlobMeta, ResolveTag, GetManifestMeta, OpenBlob,
     ReadBlob, LockTimeout

(* The step that stores content ends no request. *)
LEMMA StoredGoesOn ==
    ASSUME Locked, PromiseInv, NEW p \in Procs, Step(p), Stored' # Stored
    PROVE  pc'[p] \notin Ended /\ ~ReadBlob(p)
<1>1. pc[p] \in {"movemeta", "metawrite"}
  BY StoredStep
<1>2. TypeOK /\ LabelsFit
  BY Basics DEF PromiseInv
<1>3. CASE UNCHANGED <<meta, linked>>
  BY <1>3 DEF Stored
<1>4. CASE MoveMeta(p) \/ ManifestMetaWrite(p)
  BY <1>1, <1>2, <1>4 DEF MoveMeta, ManifestMetaWrite, ReadBlob, At, Goto, TypeOK, Ended
<1>5. CASE StageMetaWrite(p)
  BY <1>1, <1>2, <1>5 DEF StageMetaWrite, ReadBlob, At, Goto, TypeOK, Ended
<1>6. CASE StageMetaCreate(p) \/ VerifyDigest(p) \/ MoveFailed(p) \/ ManifestMetaCreate(p)
  BY <1>1, <1>6 DEF StageMetaCreate, VerifyDigest, MoveFailed, ManifestMetaCreate, At
<1> QED BY <1>3, <1>4, <1>5, <1>6, OwnMeta

(* A request ends as Registry lets it. *)
LEMMA EndRefines ==
    ASSUME Locked, PromiseInv, PromiseInv', NEW p \in Procs, Step(p), pc'[p] \in Ended
    PROVE  Abstract!Next
<1>0. /\ TypeOK /\ LabelsFit /\ req' = req /\ Stored' = Stored /\ Key(p) \in Bodies
      /\ States[p] = "open" /\ States' = [States EXCEPT ![p] = State(p)']
      /\ States \in [Procs -> Abstract!Status] /\ States' \in [Procs -> Abstract!Status]
  <2>1. TypeOK /\ LabelsFit /\ TypeOK' /\ Key(p) \in Bodies
    BY Basics DEF PromiseInv, LockedInv
  <2>2. req' = req /\ Stored' = Stored
    BY Grows, StoredGoesOn DEF Next
  <2>3. States' \in [Procs -> Abstract!Status]
    BY <2>1 DEF States, State, TypeOK, Label, Ended, Abstract!Status
  <2> QED BY <2>1, <2>2, <2>3, OwnState, StateType
<1> DEFINE Ends(how) == Abstract!End(p, how)
<1>1. CASE pc'[p] = "failed" /\ UNCHANGED got
  <2>1. State(p)' = "failed"
    BY <1>1 DEF State, Ended
  <2>2. Abstract!Fail
    BY <1>0, <1>1, <2>1, SameRequests DEF Abstract!Fail
  <2> QED BY <2>2 DEF Abstract!Next
<1>2. CASE pc'[p] = "acked" /\ AddReference(p)
  <2>1. p \in Puts /\ pc[p] = "ref" /\ State(p)' = "acked" /\ got' = got
    BY <1>0, <1>2, Unanswered DEF AddReference, At, LabelsFit, State, Ended, handles
  <2>2. Key(p) \in Stored \/ (p \in ManifestPuts /\ Broken(Key(p)))
    BY <2>1, Kinds DEF PromiseInv, PushesFit, PushFits
  <2>3. Broken(Key(p)) => Abstract!Broken(req[p].digest)
    BY SameRequests, Kinds DEF Broken, Abstract!Broken, Key, States, State, Ended
  <2>4. Abstract!Acknowledge(p)
    BY <1>0, <2>1, <2>2, <2>3 DEF Abstract!Acknowledge, Abstract!End, Key
  <2> QED BY <2>1, <2>4, SameRequests DEF Abstract!Next
<1>3. CASE pc'[p] = "rejected" /\ VerifyDigest(p)
  <2>1. p \in Puts /\ req[p].body # req[p].digest /\ State(p)' = "rejected" /\ got' = got
    BY <1>0, <1>3, Kinds DEF VerifyDigest, At, Goto, LabelsFit, TypeOK, State, Ended, handles
  <2>2. Abstract!Reject(p)
    BY <1>0, <2>1 DEF Abstract!Reject, Abstract!End
  <2> QED BY <2>1, <2>2, SameRequests DEF Abstract!Next
<1>4. CASE pc'[p] = "served" /\ ReadBlob(p)
  <2>1. p \in Gets /\ pc[p] = "read" /\ State(p)' = "served"
    BY <1>0, <1>4 DEF ReadBlob, At, LabelsFit, State, Ended
  <2>2. got' = [got EXCEPT ![p] = seen[p]]
    BY <1>4, <2>1 DEF ReadBlob, PromiseInv, LockedInv, ReadWhole, Reading
  <2>3. seen[p] \in Stored /\ Abstract!Wanted(p, seen[p])
    BY <2>1 DEF PromiseInv, PullsFit, PullFits, Found, Pushed, Abstract!Wanted, Key
  <2>4. Abstract!Serve(p)
    BY <1>0, <2>1, <2>2, <2>3 DEF Abstract!Serve, Abstract!End
  <2> QED BY <2>1, <2>4, SameRequests DEF Abstract!Next
<1>5. CASE /\ pc'[p] = "notfound"
           /\ GetBlobMeta(p) \/ ResolveTag(p) \/ GetManifestMeta(p) \/ OpenBlob(p)
  <2>1. p \in Gets /\ State(p)' = "notfound" /\ got' = got
    BY <1>0, <1>5, Kinds
       DEF GetBlobMeta, ResolveTag, GetManifestMeta, OpenBlob, At, LabelsFit, State, Ended
  <2>2. p \in BlobGets => Key(p) \notin Stored
    <3>1. CASE GetBlobMeta(p)
      <4>1. meta[Key(p)] \in {None, Torn}
        BY <1>0, <1>5, <3>1 DEF GetBlobMeta, Goto, TypeOK
      <4> QED BY <4>1 DEF Stored
    <3>2. CASE ResolveTag(p) \/ GetManifestMeta(p)
      BY <1>0, <3>2, ProcsAssumption DEF ResolveTag, GetManifestMeta, At, LabelsFit
    <3>3. CASE OpenBlob(p)
      <4>1. file[at[p]] = None /\ pc[p] = "open"
        BY <1>0, <1>5, <3>3 DEF OpenBlob, At, Goto, TypeOK
      <4>2. p \in BlobGets => at[p] = Key(p) /\ Whole(at[p])
        <5>1. Reading(p)
          BY <2>1 DEF PromiseInv, LockedInv, ReadWhole
        <5> QED BY <1>0, <4>1, <5>1, Kinds DEF Reading
      <4> QED BY <4>1, <4>2 DEF Whole
    <3> QED BY <1>5, <3>1, <3>2, <3>3
  <2>3. Abstract!Miss(p)
    BY <1>0, <2>1, <2>2 DEF Abstract!Miss, Abstract!End, Key
  <2> QED BY <2>1, <2>3, SameRequests DEF Abstract!Next
<1> QED BY <1>0, <1>1, <1>2, <1>3, <1>4, <1>5, Endings

(* A step that ends no request stores its content, or shows nothing. *)
LEMMA StepRefines ==
    ASSUME Locked, PromiseInv, PromiseInv', NEW p \in Procs, Step(p)
    PROVE  Abstract!Next \/ UNCHANGED Abstract!vars
<1>1. CASE pc'[p] \in Ended
  BY <1>1, EndRefines
<1>2. CASE pc'[p] \notin Ended
  <2>0. TypeOK /\ TypeOK' /\ req' = req
    BY Grows DEF PromiseInv, LockedInv, Next
  <2>1. ~ReadBlob(p)
    BY <1>2, <2>0 DEF ReadBlob, Goto, TypeOK, Ended
  <2>2. got' = got
    BY <2>1, Unanswered
  <2>3. States[p] = "open" /\ States' = States
    <3>1. State(p)' = "open" /\ States[p] = "open"
      BY <1>2, <2>0, OwnState DEF State
    <3>2. States' = [States EXCEPT ![p] = State(p)']
      BY <2>0, OwnState
    <3>3. States \in [Procs -> Abstract!Status]
      BY <2>0, StateType
    <3> QED BY <3>1, <3>2, <3>3
  <2>4. CASE Stored' = Stored
    BY <2>0, <2>2, <2>3, <2>4 DEF Abstract!vars
  <2>5. CASE p \in Puts /\ req[p].body = Key(p) /\ Stored' = Stored \cup {Key(p)}
    <3>1. Abstract!Publish(p)
      BY <2>0, <2>2, <2>3, <2>5 DEF Abstract!Publish, Key
    <3> QED BY <2>5, <3>1, SameRequests DEF Abstract!Next
  <2> QED BY <2>4, <2>5, StoredStep
<1> QED BY <1>1, <1>2

(* A crash fails requests and takes nothing away. *)
LEMMA CrashRefines ==
    ASSUME TypeOK, TypeOK', Crash
    PROVE  Abstract!Fail
<1>1. UNCHANGED <<req, Stored, got>>
  BY DEF Crash, disk, Stored
<1>2. States' \in [Procs -> Abstract!Status]
  BY DEF States, State, TypeOK, Label, Ended, Abstract!Status
<1>3. ASSUME NEW p \in Procs, States'[p] # States[p]
      PROVE  States[p] = "open" /\ States'[p] = "failed"
  BY <1>3 DEF Crash, Running, States, State, Ended
<1> QED BY <1>1, <1>2, <1>3, SameRequests DEF Abstract!Fail

(* With locks, the registry keeps what Registry promises: content appears under its
   digest at one step of a push and stays, and no acknowledgement, answer or miss
   contradicts it, whatever the other requests do and wherever the server dies. *)
THEOREM Implements == ASSUME Locked PROVE Spec => ImplementsRegistry
<1>1. Init => Abstract!Init
  <2> SUFFICES ASSUME Init PROVE Abstract!Init
    OBVIOUS
  <2>1. Stored = {}
    BY Kinds DEF Init, Stored
  <2>2. States = [p \in Procs |-> "open"]
    BY DEF Init, States, State, Ended
  <2>3. /\ req \in [Procs -> [body : Bodies, digest : Bodies, tag : Tags]]
        /\ \A p \in Procs \ BlobPuts : req[p].body = req[p].digest
        /\ got = [p \in Gets |-> None]
    BY DEF Init, Request
  <2> QED BY <2>1, <2>2, <2>3, SameRequests DEF Abstract!Init
<1>2. PromiseInv /\ PromiseInv' /\ [Next]_vars => [Abstract!Next]_Abstract!vars
  <2> SUFFICES ASSUME PromiseInv, PromiseInv', [Next]_vars
               PROVE  [Abstract!Next]_Abstract!vars
    OBVIOUS
  <2>1. CASE UNCHANGED vars \/ Quiet
    <3>1. UNCHANGED <<req, Stored, States, got>>
      BY <2>1 DEF vars, Quiet, Stored, States, State
    <3> QED BY <3>1 DEF Abstract!vars
  <2>2. CASE Crash
    BY <2>2, CrashRefines DEF PromiseInv, LockedInv, Abstract!Next
  <2>3. CASE \E p \in Procs : Step(p)
    BY <2>3, StepRefines
  <2> QED BY <2>1, <2>2, <2>3 DEF Next
<1> QED BY <1>1, <1>2, PromiseInductive, PTL DEF Spec, ImplementsRegistry, Abstract!Spec

==============================================================================
