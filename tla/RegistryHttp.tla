----------------------------- MODULE RegistryHttp -----------------------------
(***************************************************************************)
(* The private registry as a client sees it: the HTTP interface            *)
(* (internal/registry/docker/private/handlers.go, docker/errors.go) over   *)
(* the calls of service.go.  One action is one whole request, from the     *)
(* routing of its path to the answer; requests that overlap are the        *)
(* subject of RegistryPush and UploadSessions.  Between requests sessions  *)
(* expire and the server restarts.                                         *)
(*                                                                         *)
(* A path is what follows /v2/, as the sequence of its segments: routing   *)
(* looks for "/manifests/" and "/blobs/" anywhere in it, so a repository   *)
(* name, which may have several segments, can contain them.  Content is a  *)
(* short sequence of bytes and is its own storage key: Sha256 gives the    *)
(* digest a client writes for it, Sha512 the same hexadecimal string under *)
(* another algorithm.                                                      *)
(***************************************************************************)
EXTENDS Integers, Sequences, FiniteSets

CONSTANTS
    Byte, MaxLength,   \* the bytes of contents, and a bound on their number
    Sha256, Sha512,    \* how a client writes the key of a content
    StagedDigest,      \* "sha256:" in front of a staging key
    Uuids,             \* upload sessions
    Segments, Paths,   \* what stands between slashes; the paths clients ask for
    None               \* a query parameter, header or file that is not there

Contents == UNION {[1 .. n -> Byte] : n \in 0 .. MaxLength}
Digests == {Sha256[c] : c \in Contents} \cup {Sha512[c] : c \in Contents}

Words == {"", "manifests", "blobs", "uploads"}

ASSUME DigestsAssumption ==
    /\ MaxLength \in Nat
    /\ \A c, d \in Contents : Sha256[c] # Sha512[d]
    /\ \A c, d \in Contents : c # d => Sha256[c] # Sha256[d] /\ Sha512[c] # Sha512[d]
    /\ StagedDigest \notin Digests /\ None \notin Digests /\ None # StagedDigest
ASSUME PathsAssumption ==
    /\ Paths \subseteq Seq(Segments)
    /\ Words \cup Digests \cup Uuids \subseteq Segments
    /\ Words \cap (Digests \cup Uuids) = {}
ASSUME NoneAssumption ==
    None \notin Contents /\ None \notin Uuids /\ None \notin {"own", "staged"}

VARIABLES
    meta,      \* the Hash field of the metadata of a content: "own", "staged", None
    lookup,    \* what "name:reference" leads to, for the manifests that were put
    sessions,  \* each upload session: unused, open or gone
    answer,    \* the last answer
    acked,     \* history: the content acknowledged with 201, by its path
    published  \* history: the contents that PutBlob has moved to their key

storage == <<meta, lookup, acked, published>>
vars == <<meta, lookup, sessions, answer, acked, published>>

\* Methods besides these are refused on every path.
Methods == {"GET", "HEAD", "POST", "PUT", "PATCH"}
Unused == [state |-> "unused"]
Gone == [state |-> "gone"]
Session == {Unused, Gone} \cup
           [state : {"open"}, name : Seq(Segments), data : Contents]

------------------------------------------------------------------------------
(* Routing.  strings.Split at a separator, given as the segments between its  *)
(* slashes.  Matches do not overlap: of two next to each other the first      *)
(* counts.  (Three in a row do not occur in the paths of this model.)         *)

Matches(p, sep) ==
    {i \in 2 .. Len(p) - Len(sep) : \A j \in 1 .. Len(sep) : p[i + j - 1] = sep[j]}
Cuts(p, sep) == {i \in Matches(p, sep) : i - Len(sep) \notin Matches(p, sep)}

Cut(p, sep) == CHOOSE i \in Cuts(p, sep) : TRUE
Before(p, sep) == SubSeq(p, 1, Cut(p, sep) - 1)
After(p, sep) == SubSeq(p, Cut(p, sep) + Len(sep), Len(p))

InTwo(p, sep) == Cardinality(Cuts(p, sep)) = 1

Nothing == <<"">>
Root == Nothing
Manifests == <<"manifests">>
Blobs == <<"blobs">>
Uploads == <<"blobs", "uploads">>

IsManifest(p) ==
    InTwo(p, Manifests) /\ Before(p, Manifests) # Nothing /\ After(p, Manifests) # Nothing

\* Seeded fault: uploads are told from blobs by how their path ends.
EndsInUploads(p) ==
    Len(p) > 2 /\ SubSeq(p, Len(p) - 2, Len(p)) = <<"blobs", "uploads", "">>

\* strings.Contains(path, "/blobs/uploads"), with or without a slash behind it.
MentionsUploads(p) == \E i \in 2 .. Len(p) - 1 : p[i] = "blobs" /\ p[i + 1] = "uploads"

IsBlob(p) ==
    /\ ~IsManifest(p) /\ ~MentionsUploads(p)
    /\ InTwo(p, Blobs) /\ Before(p, Blobs) # Nothing /\ After(p, Blobs) # Nothing

IsUpload(p) ==
    ~IsManifest(p) /\ ~IsBlob(p) /\ InTwo(p, Uploads) /\ Before(p, Uploads) # Nothing

OneOf(method, handlers) ==
    IF method \in DOMAIN handlers THEN handlers[method] ELSE "unsupported"

\* Of a path that none of these matches, the next case has its turn.
dispatchRequest(method, p) ==
    IF p = Root THEN OneOf(method, [GET |-> "handleAPIVersion"])
    ELSE IF IsManifest(p) THEN
        OneOf(method, [GET |-> "handleGetManifest", HEAD |-> "handleHeadManifest",
                       PUT |-> "handlePutManifest"])
    ELSE IF IsBlob(p) THEN
        OneOf(method, [GET |-> "handleGetBlob", HEAD |-> "handleHeadBlob"])
    ELSE IF ~IsUpload(p) THEN "notFound"
    ELSE IF After(p, Uploads) = Nothing THEN
        OneOf(method, [POST |-> "handleStartBlobUpload"])
    ELSE OneOf(method, [PATCH |-> "handleUploadBlobChunk",
                        PUT   |-> "handleCompleteBlobUpload"])

\* The routes of the paths that clients ask for.
Route == [r \in Methods \X Paths |-> dispatchRequest(r[1], r[2])]

\* What parseManifestPath, parseBlobPath and parseBlobUploadPath take from a path.
parseManifestPath(p) == [name |-> Before(p, Manifests), reference |-> After(p, Manifests)]
parseBlobPath(p) == [name |-> Before(p, Blobs), digest |-> After(p, Blobs)]
parseBlobUploadPath(p) == [name |-> Before(p, Uploads), uuid |-> After(p, Uploads)]

------------------------------------------------------------------------------
(* Answers *)

NotFoundCodes == {"BLOB_UNKNOWN", "MANIFEST_UNKNOWN", "BLOB_UPLOAD_UNKNOWN"}

\* Seeded fault: a code that the switch forgets is an internal error.
HTTPStatusForgets(code) ==
    IF code \in NotFoundCodes THEN 404
    ELSE IF code = "MANIFEST_INVALID" THEN 400
    ELSE IF code = "UNSUPPORTED" THEN 405
    ELSE 500

HTTPStatus(code) ==
    IF code \in NotFoundCodes THEN 404
    ELSE IF code \in {"BLOB_UPLOAD_INVALID", "MANIFEST_INVALID"} THEN 400
    ELSE IF code = "UNSUPPORTED" THEN 405
    ELSE 500

\* The status, the error code, and the headers and body that the handlers set.
Answer(status, code) ==
    [status |-> status, code |-> code, digest |-> None, length |-> -1, body |-> None,
     location |-> None]
Blank == Answer(0, None)

WriteError(code) == Answer(HTTPStatus(code), code)
NotFound == Answer(404, None)
OK(digest, length, body) ==
    [status |-> 200, code |-> None, digest |-> digest, length |-> length, body |-> body,
     location |-> None]
Created(digest, location) ==
    [Blank EXCEPT !.status = 201, !.digest = digest, !.location = location]
Accepted(location) == [Blank EXCEPT !.status = 202, !.location = location]

------------------------------------------------------------------------------
(* Requests that read: their answer is a function of the state. *)

\* Whose key a digest is: what stands before the colon is cut off.
KeyOf == [d \in Digests |-> CHOOSE c \in Contents : d \in {Sha256[c], Sha512[c]}]
getStorageKey(d) == IF d \in Digests THEN KeyOf[d] ELSE None

Stored(c) == c # None /\ meta[c] # None

\* Metadata that was moved names the staging key, where nothing is.
GetManifest(name, reference) ==
    IF <<name, reference>> \in DOMAIN lookup /\ meta[lookup[<<name, reference>>]] = "own"
    THEN LET c == lookup[<<name, reference>>]
         IN  OK(Sha256[c], Len(c), c)
    ELSE WriteError("MANIFEST_UNKNOWN")

CheckManifestExists(name, reference) ==
    IF <<name, reference>> \in DOMAIN lookup
    THEN LET c == lookup[<<name, reference>>]
         IN  OK(IF meta[c] = "own" THEN Sha256[c] ELSE StagedDigest, -1, None)
    ELSE WriteError("MANIFEST_UNKNOWN")

GetBlob(d) ==
    LET c == getStorageKey(d)
    IN  IF Stored(c)
        THEN OK(d, Len(c), c)
        ELSE WriteError("BLOB_UNKNOWN")

\* Seeded fault: the digest is looked up with its algorithm.
CheckBlobExact(d) ==
    IF \E c \in Contents : d = Sha256[c] /\ Stored(c)
    THEN OK(d, Len(getStorageKey(d)), None)
    ELSE WriteError("BLOB_UNKNOWN")

CheckBlobExists(d) ==
    LET c == getStorageKey(d)
    IN  IF Stored(c) THEN OK(d, Len(c), None) ELSE WriteError("BLOB_UNKNOWN")

\* The id of a blob path is one segment, or no digest at all.
Digest(ids) == IF Len(ids) = 1 THEN ids[1] ELSE None

Reading == {"handleAPIVersion", "handleGetManifest", "handleHeadManifest",
            "handleGetBlob", "handleHeadBlob", "unsupported", "notFound"}

Read(handler, p) ==
    LET m == parseManifestPath(p)
        b == parseBlobPath(p)
    IN  IF handler = "handleGetManifest" THEN GetManifest(m.name, m.reference)
        ELSE IF handler = "handleHeadManifest" THEN CheckManifestExists(m.name, m.reference)
        ELSE IF handler = "handleGetBlob" THEN GetBlob(Digest(b.digest))
        ELSE IF handler = "handleHeadBlob" THEN CheckBlobExists(Digest(b.digest))
        ELSE IF handler = "handleAPIVersion" THEN OK(None, -1, None)
        ELSE IF handler = "unsupported" THEN WriteError("UNSUPPORTED")
        ELSE NotFound

HandleRead(method, p) ==
    /\ Route[<<method, p>>] \in Reading
    /\ answer' = Read(Route[<<method, p>>], p)
    /\ UNCHANGED <<storage, sessions>>

------------------------------------------------------------------------------
(* PUT of a manifest.  The references of the repository itself are left out:  *)
(* no request reads them.                                                     *)

Extend(f, x, y) == [z \in DOMAIN f \cup {x} |-> IF z = x THEN y ELSE f[z]]

\* Seeded fault: the reference is made from the repository alone.
PutManifestUntagged(name, reference, c) ==
    /\ meta' = IF meta[c] = None THEN [meta EXCEPT ![c] = "own"] ELSE meta
    /\ lookup' = Extend(lookup, <<name, << >> >>, c)

\* CreateArtifact of content that is there keeps the metadata that is there.
PutManifest(name, reference, c) ==
    /\ meta' = IF meta[c] = None THEN [meta EXCEPT ![c] = "own"] ELSE meta
    /\ lookup' = Extend(lookup, <<name, reference>>, c)

handlePutManifest(p) ==
    LET m == parseManifestPath(p) IN
    /\ Route[<<"PUT", p>>] = "handlePutManifest"
    /\ \/ \E c \in Contents :
            /\ PutManifest(m.name, m.reference, c)
            /\ answer' = Created(Sha256[c], m.name \o Manifests \o m.reference)
            /\ acked' = Extend(acked, m.name \o Manifests \o m.reference, c)
            /\ UNCHANGED <<published, sessions>>
       \* io.ReadAll fails: nothing is stored of a body that breaks off.
       \/ /\ answer' = WriteError("MANIFEST_INVALID")
          /\ UNCHANGED <<storage, sessions>>

------------------------------------------------------------------------------
(* PutBlob of data, complete or broken off, for a digest.                     *)

Refuse(code) == answer' = WriteError(code) /\ UNCHANGED storage

\* Seeded fault: the staged copy is dropped when the key exists, as if it always did.
publishNothing(c) == published' = published \cup {c} /\ UNCHANGED meta

\* Move replaces the metadata at the key by that of the staged artifact, which
\* goes on naming the staging key.
publishStagedBlob(c) ==
    /\ meta' = [meta EXCEPT ![c] = "staged"]
    /\ published' = published \cup {c}

PutBlobVerified(name, digest, c) ==
    /\ publishStagedBlob(c)
    /\ answer' = Created(digest, name \o Blobs \o <<digest>>)
    /\ acked' = Extend(acked, name \o Blobs \o <<digest>>, c)
    /\ UNCHANGED lookup

\* Seeded fault: what was uploaded is published before its digest is compared.
PutBlobUnverified(name, digest, data, complete) ==
    \/ ~complete /\ Refuse("BLOB_UPLOAD_UNKNOWN")
    \/ /\ complete /\ digest # Sha256[data]
       /\ publishStagedBlob(data)
       /\ answer' = WriteError("BLOB_UPLOAD_INVALID")
       /\ UNCHANGED <<lookup, acked>>
    \/ complete /\ digest = Sha256[data] /\ PutBlobVerified(name, digest, data)

\* Of an algorithm that is not sha256, an upload is refused before it is read.
PutBlob(name, digest, data, complete) ==
    LET isSha256 == \E c \in Contents : digest = Sha256[c] IN
    \/ ~isSha256 /\ Refuse("BLOB_UPLOAD_UNKNOWN")
    \/ isSha256 /\ ~complete /\ Refuse("BLOB_UPLOAD_UNKNOWN")
    \/ isSha256 /\ complete /\ digest # Sha256[data] /\ Refuse("BLOB_UPLOAD_INVALID")
    \/ complete /\ digest = Sha256[data] /\ PutBlobVerified(name, digest, data)

------------------------------------------------------------------------------
(* Upload sessions.  A session belongs to the repository it was started for;  *)
(* its offset counts the bytes of chunks that arrived whole.                  *)

Opened(name) == [state |-> "open", name |-> name, data |-> << >>]
IsOpen(u) == u \in Uuids /\ sessions[u].state = "open"
Location(name, u) == name \o Uploads \o <<u>>

\* The session a path names: its uuid is one segment.
SessionOf(p) == LET ids == parseBlobUploadPath(p).uuid
                IN  IF Len(ids) = 1 THEN ids[1] ELSE None

\* With a digest in its query the request is the whole upload.
handleStartBlobUpload(p) ==
    LET name == parseBlobUploadPath(p).name IN
    /\ Route[<<"POST", p>>] = "handleStartBlobUpload"
    /\ \/ \E u \in Uuids :
            /\ sessions[u] = Unused
            /\ sessions' = [sessions EXCEPT ![u] = Opened(name)]
            /\ answer' = Accepted(Location(name, u))
            /\ UNCHANGED storage
       \/ \E digest \in Digests, data \in Contents, complete \in BOOLEAN :
            /\ PutBlob(name, digest, data, complete)
            /\ UNCHANGED sessions

\* The name the path gives is that of the session.
Owned(p) == LET u == SessionOf(p)
            IN  IsOpen(u) /\ sessions[u].name = parseBlobUploadPath(p).name

\* The offset that Content-Range gives is handed on and not used: a chunk is
\* appended to what is there, and so is what arrived of one that breaks off.
handleUploadBlobChunk(p) ==
    LET u == SessionOf(p) IN
    /\ Route[<<"PATCH", p>>] = "handleUploadBlobChunk"
    /\ UNCHANGED storage
    /\ \/ /\ ~Owned(p)
          /\ answer' = WriteError("BLOB_UPLOAD_UNKNOWN")
          /\ UNCHANGED sessions
       \/ \E chunk \in Contents, complete \in BOOLEAN :
            /\ Owned(p)
            /\ Len(sessions[u].data \o chunk) <= MaxLength
            /\ sessions' = [sessions EXCEPT ![u].data = @ \o chunk]
            /\ answer' = IF complete THEN Accepted(Location(sessions[u].name, u))
                                     ELSE WriteError("BLOB_UPLOAD_UNKNOWN")

\* Without a digest the session is left alone.  Else it ends, even for a request
\* that names another repository.
handleCompleteBlobUpload(p) ==
    LET u == SessionOf(p) IN
    /\ Route[<<"PUT", p>>] = "handleCompleteBlobUpload"
    /\ \/ Refuse("BLOB_UPLOAD_INVALID") /\ UNCHANGED sessions
       \/ ~IsOpen(u) /\ Refuse("BLOB_UPLOAD_UNKNOWN") /\ UNCHANGED sessions
       \/ /\ IsOpen(u) /\ ~Owned(p)
          /\ sessions' = [sessions EXCEPT ![u] = Gone]
          /\ Refuse("BLOB_UPLOAD_UNKNOWN")
       \/ \E digest \in Digests, chunk \in Contents, complete \in BOOLEAN :
            /\ Owned(p)
            /\ Len(sessions[u].data \o chunk) <= MaxLength
            /\ sessions' = [sessions EXCEPT ![u] = Gone]
            /\ PutBlob(sessions[u].name, digest, sessions[u].data \o chunk, complete)

\* The hourly cleanup finds a session that is old enough.
cleanupExpiredSessions(u) ==
    /\ IsOpen(u)
    /\ sessions' = [sessions EXCEPT ![u] = Gone]
    /\ UNCHANGED <<storage, answer>>

\* The server ends and starts again: sessions are in memory, artifacts on disk.
Restart ==
    /\ sessions' = [u \in Uuids |-> IF IsOpen(u) THEN Gone ELSE sessions[u]]
    /\ UNCHANGED <<storage, answer>>

------------------------------------------------------------------------------
Init ==
    /\ meta = [c \in Contents |-> None]
    /\ lookup = [x \in {} |-> None]
    /\ sessions = [u \in Uuids |-> Unused]
    /\ answer = Blank
    /\ acked = [p \in {} |-> None]
    /\ published = {}

Next ==
    \/ \E p \in Paths, method \in Methods : HandleRead(method, p)
    \/ \E p \in Paths : handlePutManifest(p)
    \/ \E p \in Paths : handleStartBlobUpload(p)
    \/ \E p \in Paths : handleUploadBlobChunk(p)
    \/ \E p \in Paths : handleCompleteBlobUpload(p)
    \/ \E u \in Uuids : cleanupExpiredSessions(u)
    \/ Restart

Spec == Init /\ [][Next]_vars

------------------------------------------------------------------------------
(* Properties *)

\* The states have the types they are meant to have, and every answer one of the
\* statuses of the interface: no request is answered with an internal error.
TypeOK ==
    /\ meta \in [Contents -> {None, "own", "staged"}]
    /\ \A x \in DOMAIN lookup : lookup[x] \in Contents
    /\ sessions \in [Uuids -> Session]
    /\ answer.status \in {0, 200, 201, 202, 400, 404, 405}
    /\ \A p \in DOMAIN acked : acked[p] \in Contents
    /\ published \subseteq Contents

\* The Location that starts or continues an upload leads back to the handlers of
\* that session, with the name it was started for: no repository for which a
\* session can be started has a name that sends its chunks elsewhere.
SessionsReachable ==
    \A u \in Uuids : sessions[u].state = "open" =>
        LET p == Location(sessions[u].name, u)
        IN  /\ dispatchRequest("PATCH", p) = "handleUploadBlobChunk"
            /\ dispatchRequest("PUT", p) = "handleCompleteBlobUpload"
            /\ Owned(p)

\* HEAD and GET agree, whatever was pushed under whatever names: both find an
\* artifact or neither does, and what HEAD says of digest and length is what GET
\* sends.  Manifests whose content was also pushed as a blob are excepted: HEAD
\* finds them and names a staging key, GET does not.
HeadAgreesWithGet ==
    /\ \A d \in Digests : CheckBlobExists(d) = [GetBlob(d) EXCEPT !.body = None]
    /\ \A x \in DOMAIN lookup : lookup[x] \notin published =>
          CheckManifestExists(x[1], x[2]) =
             [GetManifest(x[1], x[2]) EXCEPT !.body = None, !.length = -1]

\* A manifest that was acknowledged is what GET of its Location answers with, under
\* its own digest, until another one is put there: across restarts, and whatever
\* else is pushed, except the same content as a blob.
AckedManifestServed ==
    \A p \in DOMAIN acked : IsManifest(p) /\ acked[p] \notin published =>
        LET get == Read(dispatchRequest("GET", p), p)
        IN  get.status = 200 /\ get.body = acked[p] /\ get.digest = Sha256[acked[p]]

\* A blob that was acknowledged is what GET of its Location answers with, with its
\* length, for ever.  Repositories with a segment "blobs" are excepted: they take
\* uploads, and the Location they answer with is routed nowhere.
AckedBlobServed ==
    \A p \in DOMAIN acked :
        ~IsManifest(p) /\ (\A i \in 1 .. Len(p) - 2 : p[i] # "blobs") =>
            LET get == Read(dispatchRequest("GET", p), p)
            IN  get.status = 200 /\ get.body = acked[p] /\ get.length = Len(acked[p])

\* A request that is answered with an error changes nothing that a client can
\* read: no content whose digest did not match, or that arrived in part, is ever
\* served, and no tag moves.
Readable ==
    [manifest |-> [x \in DOMAIN lookup |-> GetManifest(x[1], x[2])],
     digest   |-> [x \in DOMAIN lookup |-> CheckManifestExists(x[1], x[2])],
     blob     |-> [d \in Digests |-> GetBlob(d)]]
ErrorsChangeNothing == [][answer'.status >= 400 => Readable' = Readable]_vars

==============================================================================
