---------------------------- MODULE HashComputing ----------------------------
(***************************************************************************)
(* HashComputingArtifactStorage                                            *)
(* (internal/storage/hash_computing_artifact_storage.go) over              *)
(* ConcurrentArtifactStorage over SimpleFileStorage.  CreateArtifact with  *)
(* an unknown hash is five calls of the wrapped storage: create under a    *)
(* temporary hash, look the computed hash up, move, clean up, read back.   *)
(* The wrapper holds no lock across them.                                  *)
(*                                                                         *)
(* Every wrapped call on a content hash runs under that hash's lock and is *)
(* one step here.  The temporary hash "temp-<uuid>" is the process: nobody *)
(* else names it, so calls on it join the step they follow.  A lock may    *)
(* time out at any call on a content hash: other server processes and slow *)
(* readers hold the same lock files.                                       *)
(***************************************************************************)
EXTENDS FiniteSets

CONSTANTS
    Creates,   \* calls of CreateArtifact with an unknown hash
    Bodies,    \* contents, and the hashes they have
    Refs,      \* references
    Deletes,   \* other clients delete artifacts
    Timeouts,  \* the lock of a content hash may time out
    Torn,      \* a blob cut short
    None       \* no file, no reference

Keys == Creates \cup Bodies

ASSUME KeysAssumption == Creates \cap Bodies = {}
ASSUME FlagsAssumption == Deletes \in BOOLEAN /\ Timeouts \in BOOLEAN
ASSUME TornAssumption == Torn # None /\ Torn \notin Keys /\ None \notin Keys \cup Refs

VARIABLES
    body, ref,  \* what each call is given: contents and a reference or None
    pc,         \* the next wrapped call, or how the call ended
    blob,       \* the contents of the blob under each hash, Torn or None
    meta,       \* the Hash field of the metadata under each hash, or None
    refs        \* the references (metaref/) of each hash

request == <<body, ref>>
disk == <<blob, meta, refs>>
vars == <<body, ref, pc, blob, meta, refs>>

Label == {"create", "lookup", "move", "reread", "readback", "ok", "failed", "unstaged"}

Goto(p, label) == pc' = [pc EXCEPT ![p] = label]
At(p, label) == pc[p] = label

Init ==
    /\ body \in [Creates -> Bodies]
    /\ ref \in [Creates -> Refs \cup {None}]
    /\ pc = [p \in Creates |-> "create"]
    /\ blob = [k \in Keys |-> None]
    /\ meta = [k \in Keys |-> None]
    /\ refs = [k \in Keys |-> {}]

------------------------------------------------------------------------------
(* The wrapped storage *)

\* CreateArtifact of new content c under hash k, with references rs.
Written(k, c, rs) ==
    /\ blob[k] = None
    /\ blob' = [blob EXCEPT ![k] = c]
    /\ meta' = [meta EXCEPT ![k] = k]
    /\ refs' = [refs EXCEPT ![k] = @ \cup rs]

\* GetMeta: fails without metadata, and when the lock times out.
Found(k) == meta[k] # None
NotFound(k) == meta[k] = None \/ Timeouts

------------------------------------------------------------------------------
(* CreateArtifact with an unknown hash *)

\* Create under the temporary hash.  The identifier of this call carries no
\* reference, whatever the caller's did.
Stage(p) ==
    /\ At(p, "create")
    /\ Written(p, body[p], {})
    /\ Goto(p, "lookup")
    /\ UNCHANGED request

\* The copy failed, or another Move removed the directory all temporary hashes
\* share: what was written stays behind.
StageFails(p) ==
    /\ At(p, "create")
    /\ \E left \in {None, Torn, body[p]} : blob' = [blob EXCEPT ![p] = left]
    /\ Goto(p, "unstaged")
    /\ UNCHANGED <<request, meta, refs>>

\* cleanupTempHash: DeleteArtifact, if the temporary artifact has metadata.
CleanupTempHash(p) ==
    IF Found(p)
    THEN /\ blob' = [blob EXCEPT ![p] = None]
         /\ meta' = [meta EXCEPT ![p] = None]
         /\ refs' = [refs EXCEPT ![p] = {}]
    ELSE UNCHANGED disk

\* Seeded fault: a duplicate is answered without cleaning up.
LookUpOnly(p) ==
    /\ At(p, "lookup")
    /\ \/ Found(body[p]) /\ Goto(p, "reread")
       \/ NotFound(body[p]) /\ Goto(p, "move")
    /\ UNCHANGED <<request, disk>>

\* Is the computed hash there already?  An error counts as no.
LookUp(p) ==
    /\ At(p, "lookup")
    /\ \/ Found(body[p]) /\ CleanupTempHash(p) /\ Goto(p, "reread")
       \/ NotFound(body[p]) /\ Goto(p, "move") /\ UNCHANGED disk
    /\ UNCHANGED request

\* Seeded fault: the metadata found by the look-up is answered, however old.
RereadSkipped(p) ==
    /\ At(p, "reread")
    /\ Goto(p, "ok")
    /\ UNCHANGED <<request, disk>>

\* handleExistingHash, having cleaned up, reads the metadata again.
Reread(p) ==
    /\ At(p, "reread")
    /\ \/ Found(body[p]) /\ Goto(p, "ok")
       \/ NotFound(body[p]) /\ Goto(p, "failed")
    /\ UNCHANGED <<request, disk>>

\* Move: blob and metadata are renamed over whatever is there; metaref/ is not.
MoveToFinalHash(p) ==
    /\ At(p, "move")
    /\ blob' = [blob EXCEPT ![body[p]] = blob[p], ![p] = None]
    /\ meta' = [meta EXCEPT ![body[p]] = meta[p], ![p] = None]
    /\ Goto(p, "readback")
    /\ UNCHANGED <<request, refs>>

\* The lock timed out: the content may have come from elsewhere meanwhile.
MoveFails(p) ==
    /\ At(p, "move") /\ Timeouts
    /\ CleanupTempHash(p)
    /\ \/ Found(body[p]) /\ Goto(p, "reread")
       \/ NotFound(body[p]) /\ Goto(p, "failed")
    /\ UNCHANGED request

\* The metadata is read from its new place; the Hash it is returned with is
\* corrected, the file's is not.
ReadBack(p) ==
    /\ At(p, "readback")
    /\ \/ Found(body[p]) /\ Goto(p, "ok")
       \/ NotFound(body[p]) /\ Goto(p, "failed")
    /\ UNCHANGED <<request, disk>>

------------------------------------------------------------------------------
(* Other clients, who name the hash, and rightly: the wrapper delegates. *)

CreateKnown(b, rs) ==
    /\ Written(b, b, rs)
    /\ UNCHANGED <<request, pc>>

\* An artifact, or the part of one, that is there only gains references.
CreateOnExisting(b, rs) ==
    /\ blob[b] # None
    /\ refs' = [refs EXCEPT ![b] = @ \cup rs]
    /\ UNCHANGED <<request, pc, blob, meta>>

\* The copy fails half-way.
CreateKnownFails(b) ==
    /\ blob[b] = None
    /\ blob' = [blob EXCEPT ![b] = Torn]
    /\ UNCHANGED <<request, pc, meta, refs>>

DeleteArtifact(b) ==
    /\ Deletes /\ blob[b] # None
    /\ blob' = [blob EXCEPT ![b] = None]
    /\ meta' = [meta EXCEPT ![b] = None]
    /\ refs' = [refs EXCEPT ![b] = {}]
    /\ UNCHANGED <<request, pc>>

Step(p) ==
    \/ Stage(p) \/ StageFails(p) \/ LookUp(p) \/ Reread(p)
    \/ MoveToFinalHash(p) \/ MoveFails(p) \/ ReadBack(p)
Client(b) ==
    \/ \E rs \in SUBSET Refs : CreateKnown(b, rs) \/ CreateOnExisting(b, rs)
    \/ CreateKnownFails(b) \/ DeleteArtifact(b)

Next == (\E p \in Creates : Step(p)) \/ (\E b \in Bodies : Client(b))

Spec == Init /\ [][Next]_vars

------------------------------------------------------------------------------
(* Properties *)

TypeOK ==
    /\ body \in [Creates -> Bodies]
    /\ ref \in [Creates -> Refs \cup {None}]
    /\ pc \in [Creates -> Label]
    /\ blob \in [Keys -> Bodies \cup {Torn, None}]
    /\ meta \in [Keys -> Keys \cup {None}]
    /\ refs \in [Keys -> SUBSET Refs]

\* A call that got past staging leaves nothing under its temporary hash, whether
\* its content was a duplicate, was moved, or lost the race for the final hash: no
\* blob, no metadata, and no reference, which a Move would not take along.
TempReclaimed ==
    \A p \in Creates : pc[p] \in {"reread", "readback", "ok", "failed"} =>
        blob[p] = None /\ meta[p] = None /\ refs[p] = {}

\* The artifacts clients can find: whole, with metadata.
Stored == {b \in Bodies : blob[b] = b /\ meta[b] # None}

State(p) ==
    CASE pc[p] \in {"create", "lookup", "move", "reread"} -> "asked"
      [] pc[p] = "readback" -> "kept"
      [] pc[p] = "ok" -> "ok"
      [] OTHER -> "failed"

Store == INSTANCE ContentStore
         WITH stored <- Stored, state <- [p \in Creates |-> State(p)]

\* The wrapper implements ContentStore: when a create with an unknown hash
\* succeeds, its content can be read at that moment under the computed hash, and a
\* failed one takes nothing away, with creates of the same content, deletions, torn
\* uploads and lock timeouts between any two of its calls.
ImplementsStore == Store!Spec

==============================================================================
