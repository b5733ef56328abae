--------------------------- MODULE UploadSessions ----------------------------
(***************************************************************************)
(* Chunked blob uploads of the private registry                            *)
(* (internal/registry/docker/private/service.go): the session map and its  *)
(* RWMutex, a mutex, temp file and offset per session, and the requests    *)
(* and the cleanup goroutine that share them.                              *)
(*   Sessions    POST  StartBlobUpload: each creates the session named so  *)
(*   Chunks      PATCH UploadBlobChunk                                     *)
(*   Completions PUT   CompleteBlobUpload, up to the digest check          *)
(* A file is a sequence of blocks; a chunk is one block, named by its      *)
(* request.  All requests share one open file per session, and with it the *)
(* offset at which reads and writes happen.                                *)
(*                                                                         *)
(* Critical sections with nothing slow in them are one step.  Two stay     *)
(* apart: a chunk holds the session's mutex while its body arrives, and    *)
(* cleanup holds the map's while it waits for the mutex of a session.      *)
(***************************************************************************)
EXTENDS Naturals, Sequences

CONSTANTS
    Sessions,
    Chunks,
    Completions,
    Strangers,     \* requests that name another repository than the session's
    None           \* no mutex holder, no session

Clients == Chunks \cup Completions

ASSUME ClientsAssumption ==
    /\ Chunks \cap Completions = {}
    /\ Strangers \subseteq Clients
ASSUME NoneAssumption == None \notin Clients /\ None \notin Sessions

VARIABLES
    phase,       \* where a session stands: its temp file, the map, out of it
    isOpen,      \* sessions whose file is not nil: the temp file is there
    content,     \* the blocks of each temp file
    position,    \* the offset of each open file, in blocks
    offset,      \* UploadSession.Offset, in blocks
    mu,          \* the chunk that holds the mutex of a session
    expired,     \* sessions older than an hour
    sweeping,    \* cleanup holds sessionsMutex
    doomed,      \* the expired sessions this sweep has not come to yet
    discarding,  \* the session cleanup took from the map and has yet to discard
    pc, sess,    \* the next step of each request, and the session it found
    body,        \* what a completion read for PutBlob
    accepted,    \* blocks acknowledged to clients, in order (history)
    disturbed    \* sessions with a failed chunk, or one written too late (history)

sessionVars == <<phase, isOpen, content, position, offset, mu>>
cleanupVars == <<expired, sweeping, doomed, discarding>>
clientVars == <<pc, sess, body>>
history == <<accepted, disturbed>>
vars == <<phase, isOpen, content, position, offset, mu, expired, sweeping, doomed,
          discarding, pc, sess, body, accepted, disturbed>>

\* new: no request yet; created: temp file made, not in the map; taken, swept: out
\* of the map again, by a completion or by cleanup.
Phase == {"new", "created", "inMap", "taken", "swept"}
Ended == {"accepted", "stored", "unknown", "mismatch", "failed", "closed"}
Label == Ended \cup {"idle", "lock", "copy", "rewind", "reading", "close", "evict"}

Goto(c, label) == pc' = [pc EXCEPT ![c] = label]

Init ==
    /\ phase = [s \in Sessions |-> "new"]
    /\ isOpen = {}
    /\ content = [s \in Sessions |-> << >>]
    /\ position = [s \in Sessions |-> 0]
    /\ offset = [s \in Sessions |-> 0]
    /\ mu = [s \in Sessions |-> None]
    /\ expired = {} /\ sweeping = FALSE /\ doomed = {} /\ discarding = None
    /\ pc = [c \in Clients |-> "idle"]
    /\ sess = [c \in Clients |-> None]
    /\ body = [c \in Completions |-> << >>]
    /\ accepted = [s \in Sessions |-> << >>]
    /\ disturbed = {}

\* sessionsMutex: only cleanup holds it across steps.
MapFree == ~sweeping

------------------------------------------------------------------------------
(* StartBlobUpload: the temp file, then the entry in the map. *)

CreateTemp(s) ==
    /\ phase[s] = "new"
    /\ phase' = [phase EXCEPT ![s] = "created"]
    /\ isOpen' = isOpen \cup {s}
    /\ UNCHANGED <<content, position, offset, mu, cleanupVars, clientVars, history>>

EnterSession(s) ==
    /\ phase[s] = "created" /\ MapFree
    /\ phase' = [phase EXCEPT ![s] = "inMap"]
    /\ UNCHANGED <<isOpen, content, position, offset, mu, cleanupVars, clientVars, history>>

------------------------------------------------------------------------------
(* UploadBlobChunk *)

\* Seeded fault: the repository is not compared with the session's.
LookupAnyName(c, s) ==
    /\ c \in Chunks /\ pc[c] = "idle" /\ MapFree
    /\ \/ phase[s] = "inMap" /\ sess' = [sess EXCEPT ![c] = s] /\ Goto(c, "lock")
       \/ phase[s] # "inMap" /\ Goto(c, "unknown") /\ UNCHANGED sess
    /\ UNCHANGED <<sessionVars, cleanupVars, body, history>>

\* The map is unlocked again before the session's mutex is taken: whatever
\* happens to the session in between, the request goes on with it.
LookupSession(c, s) ==
    /\ c \in Chunks /\ pc[c] = "idle" /\ MapFree
    /\ \/ /\ phase[s] = "inMap" /\ c \notin Strangers
          /\ sess' = [sess EXCEPT ![c] = s]
          /\ Goto(c, "lock")
       \/ phase[s] = "inMap" /\ c \in Strangers /\ Goto(c, "mismatch") /\ UNCHANGED sess
       \/ phase[s] # "inMap" /\ Goto(c, "unknown") /\ UNCHANGED sess
    /\ UNCHANGED <<sessionVars, cleanupVars, body, history>>

LockChunk(c) ==
    /\ pc[c] = "lock" /\ mu[sess[c]] = None
    /\ \/ /\ sess[c] \in isOpen
          /\ mu' = [mu EXCEPT ![sess[c]] = c]
          /\ Goto(c, "copy")
       \/ sess[c] \notin isOpen /\ Goto(c, "closed") /\ UNCHANGED mu
    /\ UNCHANGED <<phase, isOpen, content, position, offset, cleanupVars, sess, body, history>>

\* A block written where the file's offset stands: at the end, or over a block that
\* is there when a completion has rewound the file.
WriteBlock(s, b) ==
    /\ content' = [content EXCEPT ![s] =
                      IF position[s] = Len(@) THEN Append(@, b)
                                              ELSE [@ EXCEPT ![position[s] + 1] = b]]
    /\ position' = [position EXCEPT ![s] = @ + 1]

CopyChunk(c) ==
    LET s == sess[c] IN
    /\ pc[c] = "copy"
    /\ WriteBlock(s, c)
    /\ offset' = [offset EXCEPT ![s] = @ + 1]
    /\ mu' = [mu EXCEPT ![s] = None]
    /\ Goto(c, "accepted")
    /\ accepted' = [accepted EXCEPT ![s] = Append(@, c)]
    /\ disturbed' = IF phase[s] = "inMap" THEN disturbed ELSE disturbed \cup {s}
    /\ UNCHANGED <<phase, isOpen, cleanupVars, sess, body>>

\* Seeded fault: a failed chunk takes its block back from Offset as well.
FailChunkTakesBack(c) ==
    LET s == sess[c] IN
    /\ pc[c] = "copy"
    /\ offset' = [offset EXCEPT ![s] = @ - 1]
    /\ mu' = [mu EXCEPT ![s] = None]
    /\ Goto(c, "failed")
    /\ disturbed' = disturbed \cup {s}
    /\ UNCHANGED <<phase, isOpen, content, position, cleanupVars, sess, body, accepted>>

\* The body breaks off: what arrived is in the file, Offset does not count it.
FailChunk(c) ==
    LET s == sess[c] IN
    /\ pc[c] = "copy"
    /\ WriteBlock(s, c) \/ UNCHANGED <<content, position>>
    /\ mu' = [mu EXCEPT ![s] = None]
    /\ Goto(c, "failed")
    /\ disturbed' = disturbed \cup {s}
    /\ UNCHANGED <<phase, isOpen, offset, cleanupVars, sess, body, accepted>>

------------------------------------------------------------------------------
(* CompleteBlobUpload *)

\* Seeded fault: a completion finds its session and leaves it in the map.
TakeSessionInMap(k, s) ==
    /\ k \in Completions /\ pc[k] = "idle" /\ MapFree
    /\ phase[s] = "inMap"
    /\ sess' = [sess EXCEPT ![k] = s]
    /\ Goto(k, IF k \in Strangers THEN "evict" ELSE "rewind")
    /\ UNCHANGED <<sessionVars, cleanupVars, body, history>>

\* The session leaves the map, for good, even when the name turns out to be wrong.
TakeSession(k, s) ==
    /\ k \in Completions /\ pc[k] = "idle" /\ MapFree
    /\ \/ /\ phase[s] = "inMap"
          /\ phase' = [phase EXCEPT ![s] = "taken"]
          /\ sess' = [sess EXCEPT ![k] = s]
          /\ Goto(k, IF k \in Strangers THEN "evict" ELSE "rewind")
       \/ phase[s] # "inMap" /\ Goto(k, "unknown") /\ UNCHANGED <<phase, sess>>
    /\ UNCHANGED <<isOpen, content, position, offset, mu, cleanupVars, body, history>>

\* Seeded fault: the file is read from where the last chunk left it.
RewindForgotten(k) ==
    /\ pc[k] = "rewind" /\ mu[sess[k]] = None
    /\ Goto(k, IF sess[k] \in isOpen THEN "reading" ELSE "closed")
    /\ UNCHANGED <<sessionVars, cleanupVars, sess, body, history>>

\* Seek to the start under the session's mutex, which is not held any longer.
Rewind(k) ==
    /\ pc[k] = "rewind" /\ mu[sess[k]] = None
    /\ position' = [position EXCEPT ![sess[k]] = 0]
    /\ Goto(k, IF sess[k] \in isOpen THEN "reading" ELSE "closed")
    /\ UNCHANGED <<phase, isOpen, content, offset, mu, cleanupVars, sess, body, history>>

\* PutBlob reads the file, then the final chunk, and compares digests; staging may
\* fail at any time.  (What PutBlob does with the blob: RegistryPush.)
ReadBlock(k) ==
    LET s == sess[k] IN
    /\ pc[k] = "reading" /\ position[s] < Len(content[s])
    /\ \/ /\ body' = [body EXCEPT ![k] = Append(@, content[s][position[s] + 1])]
          /\ position' = [position EXCEPT ![s] = @ + 1]
          /\ UNCHANGED pc
       \/ Goto(k, "evict") /\ UNCHANGED <<body, position>>
    /\ UNCHANGED <<phase, isOpen, content, offset, mu, cleanupVars, sess, history>>

ReadEnd(k) ==
    LET s == sess[k] IN
    /\ pc[k] = "reading" /\ position[s] = Len(content[s])
    /\ body' = [body EXCEPT ![k] = Append(@, k)]
    /\ Goto(k, "close") \/ Goto(k, "evict")
    /\ UNCHANGED <<sessionVars, cleanupVars, sess, history>>

\* UploadSession.discard, deferred: closes and removes the temp file.
CloseFile(s) ==
    /\ mu[s] = None
    /\ isOpen' = isOpen \ {s}
    /\ content' = [content EXCEPT ![s] = << >>]
    /\ position' = [position EXCEPT ![s] = 0]

Discard(k) ==
    /\ pc[k] \in {"close", "evict"}
    /\ CloseFile(sess[k])
    /\ Goto(k, IF pc[k] = "close" THEN "stored"
               ELSE IF k \in Strangers THEN "mismatch" ELSE "failed")
    /\ UNCHANGED <<phase, offset, mu, cleanupVars, sess, body, history>>

------------------------------------------------------------------------------
(* cleanupExpiredSessions: one sweep for each tick of an hour. *)

\* Expiry counts from CreatedAt, not from the last chunk.
Expire(s) ==
    /\ phase[s] # "new" /\ s \notin expired
    /\ expired' = expired \cup {s}
    /\ UNCHANGED <<sessionVars, sweeping, doomed, discarding, clientVars, history>>

StartSweep ==
    /\ ~sweeping
    /\ sweeping' = TRUE
    /\ doomed' = {s \in expired : phase[s] = "inMap"}
    /\ UNCHANGED <<sessionVars, expired, discarding, clientVars, history>>

\* Seeded fault: an expired session is dropped from the map and not discarded.
RemoveExpiredOnly(s) ==
    /\ sweeping /\ discarding = None /\ s \in doomed
    /\ phase' = [phase EXCEPT ![s] = "swept"]
    /\ doomed' = doomed \ {s}
    /\ UNCHANGED <<isOpen, content, position, offset, mu, expired, sweeping, discarding,
                   clientVars, history>>

RemoveExpired(s) ==
    /\ sweeping /\ discarding = None /\ s \in doomed
    /\ phase' = [phase EXCEPT ![s] = "swept"]
    /\ doomed' = doomed \ {s}
    /\ discarding' = s
    /\ UNCHANGED <<isOpen, content, position, offset, mu, expired, sweeping, clientVars, history>>

\* Waits for a chunk in progress with sessionsMutex held.
DiscardExpired(s) ==
    /\ discarding = s
    /\ CloseFile(s)
    /\ discarding' = None
    /\ UNCHANGED <<phase, offset, mu, expired, sweeping, doomed, clientVars, history>>

\* Seeded fault: the sweep ends without unlocking sessionsMutex.
EndSweepLocked ==
    /\ sweeping /\ discarding = None /\ doomed = {}
    /\ sweeping' = TRUE
    /\ UNCHANGED <<sessionVars, expired, doomed, discarding, clientVars, history>>

EndSweep ==
    /\ sweeping /\ discarding = None /\ doomed = {}
    /\ sweeping' = FALSE
    /\ UNCHANGED <<sessionVars, expired, doomed, discarding, clientVars, history>>

------------------------------------------------------------------------------
ChunkEnds(c) == CopyChunk(c) \/ FailChunk(c)
Read(k) == ReadBlock(k) \/ ReadEnd(k)
Looks(c) == \E s \in Sessions : LookupSession(c, s) \/ TakeSession(c, s)

Next ==
    \/ \E s \in Sessions : \/ CreateTemp(s) \/ EnterSession(s) \/ Expire(s)
                          \/ RemoveExpired(s) \/ DiscardExpired(s)
    \/ StartSweep \/ EndSweep
    \/ \E c \in Chunks : LockChunk(c) \/ ChunkEnds(c)
    \/ \E k \in Completions : Rewind(k) \/ Read(k) \/ Discard(k)
    \/ \E c \in Clients : Looks(c)

Spec == Init /\ [][Next]_vars

\* A goroutine that can go on does (WF); sync.Mutex and sync.RWMutex hand over to
\* who has waited long enough (SF); the body of a chunk ends, or the server's
\* ReadTimeout ends it; the ticker ticks.
Fairness ==
    /\ \A c \in Clients : SF_vars(Looks(c))
    /\ \A c \in Chunks : SF_vars(LockChunk(c)) /\ WF_vars(ChunkEnds(c))
    /\ \A k \in Completions : SF_vars(Rewind(k)) /\ WF_vars(Read(k)) /\ SF_vars(Discard(k))
    /\ \A s \in Sessions : /\ SF_vars(EnterSession(s)) /\ WF_vars(RemoveExpired(s))
                           /\ SF_vars(DiscardExpired(s))
    /\ WF_vars(StartSweep) /\ WF_vars(EndSweep)

FairSpec == Spec /\ Fairness

------------------------------------------------------------------------------
(* Properties *)

TypeOK ==
    /\ phase \in [Sessions -> Phase]
    /\ isOpen \subseteq Sessions
    /\ content \in [Sessions -> Seq(Clients)]
    /\ position \in [Sessions -> Nat]
    /\ offset \in [Sessions -> Nat]
    /\ mu \in [Sessions -> Chunks \cup {None}]
    /\ expired \subseteq Sessions /\ sweeping \in BOOLEAN /\ doomed \subseteq Sessions
    /\ discarding \in Sessions \cup {None}
    /\ pc \in [Clients -> Label]
    /\ sess \in [Clients -> Sessions \cup {None}]
    /\ body \in [Completions -> Seq(Clients)]
    /\ accepted \in [Sessions -> Seq(Clients)]
    /\ disturbed \subseteq Sessions

\* Completions that have taken a session and not let go of it yet.
Holds(k, s) == sess[k] = s /\ pc[k] \in {"rewind", "reading", "close", "evict"}

\* A completion has its session to itself until it discards it: the temp file is
\* open all the while PutBlob reads it, whatever late chunks, a second completion
\* or cleanup do, and no second completion ever gets hold of the session.
CompletionOwnsFile ==
    \A k \in Completions, s \in Sessions : Holds(k, s) =>
        s \in isOpen /\ \A other \in Completions \ {k} : ~Holds(other, s)

\* No temp file is left behind: as long as one exists, the map still has its
\* session (or is about to), or somebody who has taken it out will remove it.
TempFileHasOwner ==
    \A s \in isOpen :
        phase[s] \in {"created", "inMap"} \/ discarding = s \/ \E k \in Completions : Holds(k, s)

\* What is stored is what was acknowledged: all accepted chunks in order, then the
\* final one, unless a chunk of the session failed or came after the completion.
UploadIntact ==
    \A k \in Completions : pc[k] = "stored" /\ sess[k] \notin disturbed =>
        body[k] = Append(accepted[sess[k]], k)

\* Every request ends, with the two kinds of mutex and a cleanup that holds one
\* while it waits for the other.
EveryRequestEnds == \A c \in Clients : <>(pc[c] \in Ended)

\* An abandoned upload does not keep its temp file: once expired, it is reclaimed.
ExpiredReclaimed == \A s \in Sessions : s \in expired ~> s \notin isOpen

\* The session as BlobUpload sees it: open while it is in the map.
State(s) == CASE phase[s] \in {"new", "created"} -> "new"
              [] phase[s] = "inMap"             -> "open"
              [] phase[s] \in {"taken", "swept"} -> "ended"
States == [s \in Sessions |-> State(s)]
Claims == [k \in Completions |-> sess[k]]
Results == [c \in Clients |-> IF pc[c] \in Ended THEN pc[c] ELSE "asked"]
Blobs == [k \in Completions |-> IF pc[k] = "stored" THEN body[k] ELSE << >>]

Abstract == INSTANCE BlobUpload WITH
    state <- States, log <- accepted, damaged <- disturbed,
    claim <- Claims, result <- Results, blob <- Blobs

\* With two kinds of mutex, a shared file offset and a cleanup in between, each request
\* takes effect at one moment: a chunk is in the session's log when it is acknowledged
\* and not otherwise, one completion ends a session, and what it stores is the log.
ImplementsUpload == Abstract!Spec

==============================================================================
