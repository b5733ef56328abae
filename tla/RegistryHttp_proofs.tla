------------------------- MODULE RegistryHttp_proofs --------------------------
(***************************************************************************)
(* What RegistryHttp promises its clients, for every set of repositories,  *)
(* contents and upload sessions.  The first part is about routing: a path  *)
(* is the parts it is split into, and where it is split does not depend on *)
(* its last segment.  The second part is the invariant.                    *)
(***************************************************************************)
EXTENDS RegistryHttp, SequenceTheorems, FiniteSetTheorems, TLAPS

Separators == {Manifests, Blobs, Uploads}

\* A path with one more segment.
LEMMA OneMore ==
    ASSUME NEW S, NEW f \in Seq(S), NEW x \in S
    PROVE  /\ f \o <<x>> \in Seq(S) /\ Len(f \o <<x>>) = Len(f) + 1
           /\ \A j \in 1 .. Len(f) : (f \o <<x>>)[j] = f[j]
           /\ (f \o <<x>>)[Len(f) + 1] = x
OBVIOUS

\* What stands last, as a path of one segment.
LEMMA LastOne ==
    ASSUME NEW S, NEW f \in Seq(S), Len(f) > 0
    PROVE  SubSeq(f, Len(f), Len(f)) = <<f[Len(f)]>>
<1> DEFINE g == SubSeq(f, Len(f), Len(f))
           n == Len(f)
<1>1. n \in Nat /\ n > 0 /\ f[n] \in S BY ElementOfSeq, LenProperties
<1>2. g \in Seq(S) /\ Len(g) = 1 /\ g[1] = f[n]
  <2> HIDE DEF n
  <2>1. \A i \in n .. n : f[i] \in S BY <1>1
  <2>2. \A x, y \in Int : x = y => y - x + 1 = 1 OBVIOUS
  <2>3. g = SubSeq(f, n, n) BY DEF n
  <2> QED BY <1>1, <2>1, <2>2, <2>3, SubSeqProperties
<1> HIDE DEF g
<1>3. \A x \in S : g[1] = x => g = <<x>> BY <1>2
<1> QED BY <1>1, <1>2, <1>3 DEF g

LEMMA OneWord == Len(Nothing) = 1 /\ Len(Manifests) = 1 /\ Manifests[1] = "manifests"
BY DEF Nothing, Manifests

LEMMA WordsAreSegments ==
    /\ "" \in Segments /\ "manifests" \in Segments
    /\ "blobs" \in Segments /\ "uploads" \in Segments
<1>1. "" \in Words /\ "manifests" \in Words /\ "blobs" \in Words /\ "uploads" \in Words
  BY DEF Words
<1> QED BY <1>1, PathsAssumption

LEMMA SeparatorFacts ==
    ASSUME NEW sep \in Separators
    PROVE  sep \in Seq(Segments) /\ Len(sep) \in {1, 2}
<1>0. "manifests" \in Segments /\ "blobs" \in Segments /\ "uploads" \in Segments
  BY WordsAreSegments
<1>1. Manifests \in Seq(Segments) /\ Len(Manifests) = 1 BY <1>0 DEF Manifests
<1>2. Blobs \in Seq(Segments) /\ Len(Blobs) = 1 BY <1>0 DEF Blobs
<1>3. Uploads \in Seq(Segments) /\ Len(Uploads) = 2 BY <1>0 DEF Uploads
<1> QED BY <1>1, <1>2, <1>3 DEF Separators

\* The segments of a path below the uploads of a repository.
LEMMA LocationFacts ==
    ASSUME NEW f \in Seq(Segments), NEW z \in Segments
    PROVE  /\ Location(f, z) \in Seq(Segments)
           /\ Len(Location(f, z)) = Len(f) + 3 /\ Len(f) \in Nat
           /\ \A j \in 1 .. Len(f) : Location(f, z)[j] = f[j]
           /\ Location(f, z)[Len(f) + 1] = "blobs"
           /\ Location(f, z)[Len(f) + 2] = "uploads"
           /\ Location(f, z)[Len(f) + 3] = z
<1> DEFINE h == f \o Uploads
           g == h \o <<z>>
           n == Len(f)
<1>1. Uploads[1] = "blobs" /\ Uploads[2] = "uploads" BY DEF Uploads
<1>2. Uploads \in Seq(Segments) /\ Len(Uploads) = 2
  <2>1. Len(Uploads) = 2 BY DEF Uploads
  <2> QED BY <2>1, SeparatorFacts DEF Separators
<1>3. n \in Nat BY LenProperties
<1>4. /\ h \in Seq(Segments) /\ Len(h) = n + 2
      /\ \A j \in 1 .. n + 2 : h[j] = IF j <= n THEN f[j] ELSE Uploads[j - n]
  <2>1. /\ h \in Seq(Segments) /\ Len(h) = Len(f) + Len(Uploads)
        /\ \A j \in 1 .. Len(f) + Len(Uploads) :
              h[j] = IF j <= Len(f) THEN f[j] ELSE Uploads[j - Len(f)]
    BY <1>2, ConcatProperties
  <2> HIDE DEF h
  <2> QED BY <1>2, <2>1
<1> HIDE DEF h
<1>5. /\ g \in Seq(Segments) /\ Len(g) = n + 3 /\ g[n + 3] = z
      /\ \A j \in 1 .. n + 2 : g[j] = h[j]
  <2>1. /\ g \in Seq(Segments) /\ Len(g) = Len(h) + 1 /\ g[Len(h) + 1] = z
        /\ \A j \in 1 .. Len(h) : g[j] = h[j]
    BY <1>4, OneMore
  <2> HIDE DEF g, n
  <2> QED BY <2>1, <1>3, <1>4
<1>6. g = Location(f, z) BY DEF Location, g, h
<1> HIDE DEF g, n
<1>7. \A j \in 1 .. n : g[j] = f[j] BY <1>3, <1>4, <1>5
<1>8. g[n + 1] = Uploads[1] /\ g[n + 2] = Uploads[2]
  <2>1. n + 1 \in 1 .. n + 2 /\ n + 2 \in 1 .. n + 2 BY <1>3
  <2>2. ASSUME NEW k \in 1 .. 2, NEW j \in 1 .. n + 2, j = n + k
        PROVE  h[j] = Uploads[k]
    <3>1. j - n = k /\ ~(j <= n) BY <2>2, <1>3
    <3>2. h[j] = Uploads[j - n] BY <3>1, <1>4
    <3> QED BY <3>1, <3>2, Zenon
  <2>3. h[n + 1] = Uploads[1] /\ h[n + 2] = Uploads[2] BY <2>1, <2>2
  <2>4. g[n + 1] = h[n + 1] /\ g[n + 2] = h[n + 2] BY <2>1, <1>5
  <2> QED BY <2>3, <2>4
<1>9. g[n + 1] = "blobs" /\ g[n + 2] = "uploads" BY <1>1, <1>8, Zenon
<1> QED BY <1>3, <1>5, <1>6, <1>7, <1>9 DEF n

\* A path that is split in two has one cut, inside it.
LEMMA CutInside ==
    ASSUME NEW p \in Seq(Segments), NEW sep \in Separators, InTwo(p, sep)
    PROVE  /\ Cuts(p, sep) = {Cut(p, sep)}
           /\ Cut(p, sep) \in 2 .. Len(p) - Len(sep)
           /\ \A j \in 1 .. Len(sep) : p[Cut(p, sep) + j - 1] = sep[j]
<1>1. PICK i : Cuts(p, sep) = {i}
  <2>1. Cuts(p, sep) \subseteq 2 .. Len(p) - Len(sep) BY DEF Cuts, Matches
  <2>2. Len(p) - Len(sep) \in Int BY SeparatorFacts, LenProperties
  <2>3. IsFiniteSet(Cuts(p, sep)) BY <2>1, <2>2, FS_Interval, FS_Subset
  <2> QED BY <2>3, FS_Singleton DEF InTwo
<1>2. Cut(p, sep) = i BY <1>1 DEF Cut
<1> QED BY <1>1, <1>2 DEF Cuts, Matches

\* A path is the parts it is split into, with the separator between them.
LEMMA Recompose ==
    ASSUME NEW p \in Seq(Segments), NEW sep \in Separators, InTwo(p, sep)
    PROVE  /\ Before(p, sep) \in Seq(Segments) /\ After(p, sep) \in Seq(Segments)
           /\ Len(Before(p, sep)) = Cut(p, sep) - 1
           /\ Len(After(p, sep)) = Len(p) - Cut(p, sep) - Len(sep) + 1
           /\ p = Before(p, sep) \o sep \o After(p, sep)
<1> DEFINE i == Cut(p, sep)
           n == Len(sep)
           a == Before(p, sep)
           b == After(p, sep)
<1>1. /\ i \in 2 .. Len(p) - n /\ n \in {1, 2} /\ Len(p) \in Nat /\ sep \in Seq(Segments)
      /\ \A j \in 1 .. n : p[i + j - 1] = sep[j]
  BY CutInside, SeparatorFacts, LenProperties
<1> HIDE DEF i, n
<1>2. /\ a \in Seq(Segments) /\ Len(a) = i - 1
      /\ \A j \in 1 .. i - 1 : a[j] = p[j]
  <2>1. a = SubSeq(p, 1, i - 1) BY DEF Before, i
  <2> QED BY <1>1, <2>1, SubSeqProperties
<1>3. /\ b \in Seq(Segments) /\ Len(b) = Len(p) - i - n + 1
      /\ \A j \in 1 .. Len(p) - i - n + 1 : b[j] = p[i + n + j - 1]
  <2>1. b = SubSeq(p, i + n, Len(p)) BY DEF After, i, n
  <2> QED BY <1>1, <2>1, SubSeqProperties
<1> HIDE DEF a, b
<1>4. /\ a \o sep \in Seq(Segments) /\ Len(a \o sep) = i - 1 + n
      /\ \A j \in 1 .. i - 1 + n :
            (a \o sep)[j] = IF j <= i - 1 THEN a[j] ELSE sep[j - (i - 1)]
  <2>1. /\ a \o sep \in Seq(Segments) /\ Len(a \o sep) = Len(a) + Len(sep)
        /\ \A j \in 1 .. Len(a) + Len(sep) :
              (a \o sep)[j] = IF j <= Len(a) THEN a[j] ELSE sep[j - Len(a)]
    BY <1>1, <1>2, ConcatProperties
  <2>2. Len(a) = i - 1 /\ Len(sep) = n BY <1>2 DEF n
  <2> QED BY <2>1, <2>2
<1>5. /\ a \o sep \o b \in Seq(Segments) /\ Len(a \o sep \o b) = Len(p)
      /\ \A j \in 1 .. Len(p) :
            (a \o sep \o b)[j] = IF j <= i - 1 + n THEN (a \o sep)[j]
                                                   ELSE b[j - (i - 1 + n)]
  <2> DEFINE ac == a \o sep
  <2>0. ac \in Seq(Segments) /\ Len(ac) = i - 1 + n BY <1>4
  <2> HIDE DEF ac
  <2>1. /\ ac \o b \in Seq(Segments) /\ Len(ac \o b) = Len(ac) + Len(b)
        /\ \A j \in 1 .. Len(ac) + Len(b) :
              (ac \o b)[j] = IF j <= Len(ac) THEN ac[j] ELSE b[j - Len(ac)]
    BY <2>0, <1>3, ConcatProperties
  <2>2. Len(ac) + Len(b) = Len(p) BY <2>0, <1>1, <1>3
  <2>3. /\ ac \o b \in Seq(Segments) /\ Len(ac \o b) = Len(p)
        /\ \A j \in 1 .. Len(p) :
              (ac \o b)[j] = IF j <= i - 1 + n THEN ac[j] ELSE b[j - (i - 1 + n)]
    BY <2>0, <2>1, <2>2
  <2> QED BY <2>3 DEF ac
<1>6. \A j \in 1 .. Len(p) : (a \o sep \o b)[j] = p[j]
  <2> SUFFICES ASSUME NEW j \in 1 .. Len(p) PROVE (a \o sep \o b)[j] = p[j] OBVIOUS
  <2>1. CASE j <= i - 1
    <3>1. j \in 1 .. i - 1 /\ j \in 1 .. i - 1 + n /\ j <= i - 1 + n BY <2>1, <1>1
    <3>2. (a \o sep \o b)[j] = (a \o sep)[j] BY <3>1, <1>5
    <3>3. (a \o sep)[j] = a[j] BY <3>1, <2>1, <1>4
    <3> QED BY <3>1, <3>2, <3>3, <1>2
  <2>2. CASE i <= j /\ j <= i - 1 + n
    <3>1. j - (i - 1) \in 1 .. n BY <2>2, <1>1
    <3>2. p[i + (j - (i - 1)) - 1] = sep[j - (i - 1)] BY <3>1, <1>1
    <3>3. i + (j - (i - 1)) - 1 = j /\ j \in 1 .. i - 1 + n /\ ~(j <= i - 1)
      BY <2>2, <1>1
    <3>4. (a \o sep \o b)[j] = (a \o sep)[j] BY <2>2, <1>5
    <3>5. (a \o sep)[j] = sep[j - (i - 1)] BY <3>3, <1>4
    <3>6. p[j] = sep[j - (i - 1)] BY <3>2, <3>3
    <3> QED BY <3>4, <3>5, <3>6
  <2>3. CASE i - 1 + n < j
    <3>1. j - (i - 1 + n) \in 1 .. Len(p) - i - n + 1 BY <2>3, <1>1
    <3>2. i + n + (j - (i - 1 + n)) - 1 = j /\ ~(j <= i - 1 + n) BY <2>3, <1>1
    <3>3. (a \o sep \o b)[j] = b[j - (i - 1 + n)] BY <3>2, <1>5
    <3>4. b[j - (i - 1 + n)] = p[i + n + (j - (i - 1 + n)) - 1] BY <3>1, <1>3
    <3>5. b[j - (i - 1 + n)] = p[j] BY <3>2, <3>4
    <3> QED BY <3>3, <3>5
  <2>4. j <= i - 1 \/ (i <= j /\ j <= i - 1 + n) \/ i - 1 + n < j BY <1>1
  <2> QED BY <2>1, <2>2, <2>3, <2>4
<1>7. a \o sep \o b = p BY <1>5, <1>6, SeqEqual
<1> QED BY <1>2, <1>3, <1>7 DEF a, b, i, n

\* Where a path is split does not depend on its last segment.
LEMMA CutsOfFront ==
    ASSUME NEW p \in Seq(Segments), NEW q \in Seq(Segments), Len(p) = Len(q),
           \A i \in 1 .. Len(p) - 1 : p[i] = q[i], NEW sep \in Separators
    PROVE  Cuts(p, sep) = Cuts(q, sep) /\ Cut(p, sep) = Cut(q, sep)
<1>1. Matches(p, sep) = Matches(q, sep)
  <2> SUFFICES ASSUME NEW i \in 2 .. Len(p) - Len(sep), NEW j \in 1 .. Len(sep)
               PROVE  p[i + j - 1] = q[i + j - 1]
    BY DEF Matches
  <2>1. Len(sep) \in {1, 2} /\ Len(p) \in Nat BY SeparatorFacts, LenProperties
  <2>2. i + j - 1 \in 1 .. Len(p) - 1 BY <2>1
  <2> QED BY <2>2
<1> QED BY <1>1 DEF Cuts, Cut

\* What a handler knows of the path that was routed to it.
LEMMA Routing ==
    ASSUME NEW m \in Methods, NEW p \in Paths
    PROVE  /\ Route[<<m, p>>] = dispatchRequest(m, p)
           /\ Route[<<m, p>>] = "handlePutManifest" => IsManifest(p)
           /\ Route[<<m, p>>] = "handleStartBlobUpload" =>
                 IsUpload(p) /\ After(p, Uploads) = Nothing
           /\ Route[<<m, p>>] \in {"handleUploadBlobChunk", "handleCompleteBlobUpload"} =>
                 IsUpload(p)
<1>1. Route[<<m, p>>] = dispatchRequest(m, p) BY DEF Route
<1>2. CASE p = Root BY <1>1, <1>2 DEF dispatchRequest, OneOf
<1>3. CASE p # Root /\ IsManifest(p) BY <1>1, <1>3 DEF dispatchRequest, OneOf
<1>4. CASE p # Root /\ ~IsManifest(p) /\ IsBlob(p)
  BY <1>1, <1>4 DEF dispatchRequest, OneOf
<1>5. CASE p # Root /\ ~IsManifest(p) /\ ~IsBlob(p)
  BY <1>1, <1>5 DEF dispatchRequest, OneOf
<1> QED BY <1>2, <1>3, <1>4, <1>5

LEMMA SplitIsNotRoot ==
    ASSUME NEW p \in Seq(Segments), NEW sep \in Separators, InTwo(p, sep)
    PROVE  p # Root
<1>1. Len(p) \in Nat /\ Len(p) >= 3
  BY CutInside, SeparatorFacts, LenProperties
<1> QED BY <1>1, OneWord DEF Root

LEMMA RouteOfManifest ==
    ASSUME NEW p \in Seq(Segments), IsManifest(p)
    PROVE  dispatchRequest("GET", p) = "handleGetManifest"
<1>1. p # Root BY SplitIsNotRoot DEF IsManifest, Separators
<1> QED BY <1>1 DEF dispatchRequest, OneOf, IsBlob, IsUpload

LEMMA RouteOfBlob ==
    ASSUME NEW p \in Seq(Segments), IsBlob(p)
    PROVE  dispatchRequest("GET", p) = "handleGetBlob"
<1>1. p # Root BY SplitIsNotRoot DEF IsBlob, Separators
<1> QED BY <1>1 DEF dispatchRequest, OneOf, IsBlob, IsUpload

LEMMA RouteOfUpload ==
    ASSUME NEW p \in Seq(Segments), IsUpload(p), After(p, Uploads) # Nothing
    PROVE  /\ dispatchRequest("PATCH", p) = "handleUploadBlobChunk"
           /\ dispatchRequest("PUT", p) = "handleCompleteBlobUpload"
<1>1. p # Root BY SplitIsNotRoot DEF IsUpload, Separators
<1> QED BY <1>1 DEF dispatchRequest, OneOf, IsBlob, IsUpload

\* The Location of a session is routed to the handlers of its chunks and of its
\* completion, with the repository and the uuid it was made from.
LEMMA UploadLocation ==
    ASSUME NEW p \in Seq(Segments), IsUpload(p), After(p, Uploads) = Nothing, NEW u \in Uuids
    PROVE  LET q == Location(Before(p, Uploads), u)
           IN  /\ q \in Seq(Segments) /\ IsUpload(q)
               /\ Before(q, Uploads) = Before(p, Uploads) /\ After(q, Uploads) = <<u>>
<1> DEFINE name == Before(p, Uploads)
           q == Location(name, u)
<1>0. InTwo(p, Uploads) /\ Uploads \in Separators /\ Manifests \in Separators
  BY DEF IsUpload, Separators
<1>a. /\ name \in Seq(Segments) /\ Cut(p, Uploads) \in Int
      /\ Len(name) = Cut(p, Uploads) - 1 /\ Len(name) \in Nat /\ Len(name) >= 1
      /\ Len(Uploads) = 2
  <2>1. Len(Uploads) = 2 BY DEF Uploads
  <2>2. name \in Seq(Segments) /\ Len(name) = Cut(p, Uploads) - 1
    BY <1>0, Recompose
  <2>3. Cut(p, Uploads) \in 2 .. Len(p) - Len(Uploads) BY <1>0, CutInside
  <2> HIDE DEF name
  <2>4. Len(p) \in Nat BY LenProperties
  <2> QED BY <2>1, <2>2, <2>3, <2>4
<1>b. p = name \o Uploads \o Nothing BY <1>0, Recompose
<1>c. u \in Segments BY PathsAssumption
<1>d. <<u>> # Nothing
  <2>1. "" \in Words BY DEF Words
  <2>2. u # "" BY <2>1, PathsAssumption
  <2> QED BY <2>2 DEF Nothing
<1> HIDE DEF name
<1>e. /\ Len(p) = Len(name) + 3 /\ p[Len(name) + 1] = "blobs"
      /\ p[Len(name) + 2] = "uploads" /\ \A j \in 1 .. Len(name) : p[j] = name[j]
  <2>1. p = Location(name, "") BY <1>b DEF Location, Nothing
  <2>2. PICK z \in Segments : p = Location(name, z) BY <2>1, WordsAreSegments, Zenon
  <2>3. name \in Seq(Segments) BY <1>a
  <2> QED BY <2>2, <2>3, LocationFacts, ZenonT(30)
<1>f. /\ q \in Seq(Segments) /\ Len(q) = Len(name) + 3 /\ q[Len(name) + 1] = "blobs"
      /\ q[Len(name) + 2] = "uploads" /\ q[Len(name) + 3] = u
      /\ \A j \in 1 .. Len(name) : q[j] = name[j]
  <2>1. name \in Seq(Segments) BY <1>a
  <2>2. q = Location(name, u) OBVIOUS
  <2> HIDE DEF q
  <2> QED BY <1>c, <2>1, <2>2, LocationFacts, ZenonT(30)
<1> HIDE DEF q
<1>g. /\ q \in Seq(Segments) /\ Len(q) = Len(name) + 3 /\ Len(p) = Len(name) + 3
  BY <1>e, <1>f
<1>h. \A i \in 1 .. Len(p) - 1 : p[i] = q[i]
  <2> SUFFICES ASSUME NEW i \in 1 .. Len(name) + 2 PROVE p[i] = q[i] BY <1>a, <1>g
  <2>1. i \in 1 .. Len(name) \/ i = Len(name) + 1 \/ i = Len(name) + 2 BY <1>a
  <2>2. CASE i \in 1 .. Len(name) BY <2>2, <1>e, <1>f
  <2>3. CASE i = Len(name) + 1 BY <2>3, <1>e, <1>f
  <2>4. CASE i = Len(name) + 2 BY <2>4, <1>e, <1>f
  <2> QED BY <2>1, <2>2, <2>3, <2>4
<1>3. \A sep \in Separators : Cuts(p, sep) = Cuts(q, sep) /\ Cut(p, sep) = Cut(q, sep)
  BY <1>g, <1>h, CutsOfFront
<1>4. \A sep \in Separators : InTwo(p, sep) <=> InTwo(q, sep) BY <1>3 DEF InTwo
<1>5. ASSUME NEW sep \in Separators, InTwo(p, sep) PROVE Before(q, sep) = Before(p, sep)
  <2>1. Cut(p, sep) \in 2 .. Len(p) - Len(sep) /\ Len(sep) \in {1, 2}
    BY <1>5, CutInside, SeparatorFacts
  <2>2. \A i \in 1 .. Cut(p, sep) - 1 : p[i] = q[i]
    <3>1. \A i \in 1 .. Cut(p, sep) - 1 : i \in 1 .. Len(p) - 1 BY <2>1, <1>a, <1>g, SMTT(30)
    <3> QED BY <3>1, <1>h, Zenon
  <2>3. Before(p, sep) = SubSeq(p, 1, Cut(p, sep) - 1) /\
        Before(q, sep) = SubSeq(q, 1, Cut(p, sep) - 1)
    BY <1>3 DEF Before
  <2>4. /\ Before(p, sep) \in Seq(Segments) /\ Before(q, sep) \in Seq(Segments)
        /\ Len(Before(p, sep)) = Cut(p, sep) - 1 /\ Len(Before(q, sep)) = Cut(p, sep) - 1
    BY <1>4, <1>5, <1>g, <1>3, Recompose
  <2>5. \A i \in 1 .. Cut(p, sep) - 1 : p[i] \in Segments /\ q[i] \in Segments
    BY <2>1, <1>a, <1>g, ElementOfSeq, SMTT(30)
  <2>6. \A i \in 1 .. Cut(p, sep) - 1 : Before(p, sep)[i] = p[i] /\ Before(q, sep)[i] = q[i]
    BY <2>1, <2>3, <2>5, SubSeqProperties
  <2> QED BY <2>2, <2>4, <2>6, SeqEqual
<1>6. Before(q, Uploads) = name BY <1>0, <1>5 DEF name
<1>7. After(q, Uploads) = <<u>>
  <2>1. Cut(q, Uploads) + Len(Uploads) = Len(q) BY <1>0, <1>a, <1>g, <1>3
  <2>2. After(q, Uploads) = SubSeq(q, Len(q), Len(q)) BY <2>1 DEF After
  <2>3. q \in Seq(Segments) /\ Len(q) > 0 /\ Len(q) = Len(name) + 3 BY <1>a, <1>g
  <2>4. q[Len(q)] = u BY <2>3, <1>f
  <2> QED BY <2>2, <2>3, <2>4, LastOne
<1>8. ~IsManifest(q)
  <2> SUFFICES ASSUME IsManifest(q) PROVE FALSE OBVIOUS
  <2>1. InTwo(q, Manifests) /\ InTwo(p, Manifests) BY <1>0, <1>4 DEF IsManifest
  <2>2. Before(p, Manifests) # Nothing BY <1>0, <2>1, <1>5 DEF IsManifest
  <2>3. After(p, Manifests) = Nothing BY <2>1, <2>2 DEF IsManifest, IsUpload
  <2>4. Len(After(p, Manifests)) = 1 BY <2>3, OneWord
  <2>5. Len(Manifests) = 1 BY OneWord
  <2>6. Cut(p, Manifests) = Len(p) - 1
    <3>1. Len(After(p, Manifests)) = Len(p) - Cut(p, Manifests) - 1 + 1
      BY <1>0, <2>1, <2>5, Recompose
    <3>3. Len(p) \in Int /\ \A x, y \in Int : 1 = x - y - 1 + 1 => y = x - 1 BY <1>a, <1>g
    <3>2. Cut(p, Manifests) \in Int BY <1>0, <2>1, CutInside
    <3> QED BY <3>1, <3>2, <3>3, <2>4
  <2>7. 1 \in 1 .. Len(Manifests) BY <2>5
  <2>8. p[Cut(p, Manifests) + 1 - 1] = Manifests[1] BY <1>0, <2>1, <2>7, CutInside
  <2>9. Cut(p, Manifests) + 1 - 1 = Len(name) + 2 BY <2>6, <1>a, <1>g
  <2>10. p[Len(name) + 2] = "manifests" BY <2>8, <2>9, OneWord
  <2> QED BY <2>10, <1>e
<1>9. ~IsBlob(q)
  <2>1. q[Len(name) + 1] = "blobs" /\ q[Len(name) + 2] = "uploads" BY <1>f
  <2>2. Len(name) + 1 \in 2 .. Len(q) - 1 BY <1>a, <1>g
  <2>3. Len(name) + 1 + 1 = Len(name) + 2 BY <1>a
  <2> QED BY <2>1, <2>2, <2>3 DEF IsBlob, MentionsUploads
<1>10. IsUpload(q) BY <1>0, <1>4, <1>6, <1>8, <1>9 DEF IsUpload, name
<1> QED BY <1>g, <1>6, <1>7, <1>10 DEF q, name

------------------------------------------------------------------------------
(* The invariant *)

Named(name) == name \in Seq(Segments) /\ Len(name) >= 1 /\ name # Nothing

BlobPath(name, c) == name \o Blobs \o <<Sha256[c]>>

\* What is stored: a tag leads to content that is there, and what moved metadata
\* describes was published.
Kept ==
    /\ meta \in [Contents -> {None, "own", "staged"}]
    /\ \A x \in DOMAIN lookup :
          x = <<x[1], x[2]>> /\ lookup[x] \in Contents /\ meta[lookup[x]] # None
    /\ \A c \in Contents : meta[c] = "staged" => c \in published
    /\ published \subseteq Contents

\* What was acknowledged: a manifest is where its path leads, or was published as
\* a blob; everything else is a blob, at a path that ends in its digest.
Acked(p) ==
    /\ p \in Seq(Segments) /\ acked[p] \in Contents /\ meta[acked[p]] # None
    /\ IsManifest(p) =>
         \/ acked[p] \in published
         \/ LET x == <<Before(p, Manifests), After(p, Manifests)>>
            IN  x \in DOMAIN lookup /\ lookup[x] = acked[p]
    /\ ~IsManifest(p) => \E name : Named(name) /\ p = BlobPath(name, acked[p])

StorageInv == Kept /\ \A p \in DOMAIN acked : Acked(p)

\* The Location of an open session is a path of uploads, split where it was joined.
Reached(name, u) ==
    LET p == Location(name, u)
    IN  /\ Named(name) /\ p \in Seq(Segments) /\ IsUpload(p)
        /\ Before(p, Uploads) = name /\ After(p, Uploads) = <<u>>

SessionInv ==
    /\ sessions \in [Uuids -> Session]
    /\ \A u \in Uuids : sessions[u].state = "open" => Reached(sessions[u].name, u)

AnswerOK == answer.status \in {0, 200, 201, 202, 400, 404, 405}

Inv == StorageInv /\ SessionInv /\ AnswerOK

Codes == NotFoundCodes \cup {"BLOB_UPLOAD_INVALID", "MANIFEST_INVALID", "UNSUPPORTED"}

LEMMA AnswerFacts ==
    /\ \A code : WriteError(code).status >= 400
    /\ \A code \in Codes :
          WriteError(code).status \in {400, 404, 405}
    /\ \A d, l : Created(d, l).status = 201
    /\ \A l : Accepted(l).status = 202
    /\ NotFound.status = 404 /\ Blank.status = 0
BY DEF WriteError, HTTPStatus, Created, Accepted, NotFound, Blank, Answer, NotFoundCodes, Codes

\* The name of a path that was routed to an upload handler.
LEMMA UploadName ==
    ASSUME NEW p \in Seq(Segments), IsUpload(p)
    PROVE  Named(Before(p, Uploads))
<1>1. InTwo(p, Uploads) /\ Uploads \in Separators /\ Before(p, Uploads) # Nothing
  BY DEF IsUpload, Separators
<1>2. Cut(p, Uploads) \in 2 .. Len(p) - Len(Uploads) BY <1>1, CutInside
<1>3. Before(p, Uploads) \in Seq(Segments) /\ Len(Before(p, Uploads)) = Cut(p, Uploads) - 1
  BY <1>1, Recompose
<1> QED BY <1>1, <1>2, <1>3 DEF Named

LEMMA StartReaches ==
    ASSUME NEW p \in Seq(Segments), IsUpload(p), After(p, Uploads) = Nothing, NEW u \in Uuids
    PROVE  Reached(Before(p, Uploads), u)
BY UploadLocation, UploadName DEF Reached

LEMMA DigestFacts ==
    ASSUME NEW c \in Contents
    PROVE  /\ Sha256[c] \in Digests /\ Sha256[c] \in Segments
           /\ Sha256[c] # "" /\ Sha256[c] # "uploads"
<1>1. Sha256[c] \in Digests BY DEF Digests
<1>2. "" \in Words /\ "uploads" \in Words BY DEF Words
<1> QED BY <1>1, <1>2, PathsAssumption

\* The path of a blob that PutBlob acknowledges.
LEMMA BlobPathFacts ==
    ASSUME NEW name, Named(name), NEW c \in Contents
    PROVE  /\ BlobPath(name, c) \in Seq(Segments)
           /\ Len(BlobPath(name, c)) = Len(name) + 2 /\ Len(name) \in Nat
           /\ \A j \in 1 .. Len(name) : BlobPath(name, c)[j] = name[j]
           /\ BlobPath(name, c)[Len(name) + 1] = "blobs"
           /\ BlobPath(name, c)[Len(name) + 2] = Sha256[c]
<1> DEFINE h == name \o Blobs
           n == Len(name)
           d == Sha256[c]
           g == h \o <<d>>
<1>1. name \in Seq(Segments) /\ n \in Nat BY LenProperties DEF Named
<1>2. "blobs" \in Segments /\ d \in Segments BY WordsAreSegments, DigestFacts
<1>3. /\ h \in Seq(Segments) /\ Len(h) = n + 1 /\ h[n + 1] = "blobs"
      /\ \A j \in 1 .. n : h[j] = name[j]
  BY <1>1, <1>2, OneMore DEF Blobs
<1> HIDE DEF h, n, d
<1>4. /\ g \in Seq(Segments) /\ Len(g) = Len(h) + 1 /\ g[Len(h) + 1] = d
      /\ \A j \in 1 .. Len(h) : g[j] = h[j]
  BY <1>2, <1>3, OneMore
<1> HIDE DEF g
<1>5. Len(g) = n + 2 /\ g[n + 2] = d BY <1>1, <1>3, <1>4
<1>6. g[n + 1] = h[n + 1] /\ \A j \in 1 .. n : g[j] = name[j] BY <1>1, <1>3, <1>4
<1>7. g[n + 1] = "blobs" BY <1>3, <1>6, Zenon
<1> QED BY <1>1, <1>4, <1>5, <1>6, <1>7 DEF BlobPath, g, h, d, n


\* It is routed to the blobs, if its repository has no segment "blobs".
LEMMA BlobPathRouted ==
    ASSUME NEW name, Named(name), NEW c \in Contents, NEW p, p = BlobPath(name, c),
           ~IsManifest(p), \A i \in 1 .. Len(p) - 2 : p[i] # "blobs"
    PROVE  /\ p \in Seq(Segments) /\ IsBlob(p) /\ After(p, Blobs) = <<Sha256[c]>>
<1> DEFINE n == Len(name)
           d == Sha256[c]
<1>1. /\ p \in Seq(Segments) /\ Len(p) = n + 2 /\ n \in Nat /\ n >= 1
      /\ \A j \in 1 .. n : p[j] = name[j] /\ p[j] # "blobs"
      /\ p[n + 1] = "blobs"
  BY BlobPathFacts DEF Named
<1>2. p[n + 2] = d /\ d # "" /\ d # "uploads" BY BlobPathFacts, DigestFacts
<1>3. Len(Blobs) = 1 /\ Blobs[1] = "blobs" BY DEF Blobs
<1>4. name \in Seq(Segments) /\ name # Nothing BY DEF Named
<1> HIDE DEF n, d
<1>5. Matches(p, Blobs) = {n + 1}
  <2>1. Matches(p, Blobs) = {i \in 2 .. n + 1 : \A j \in 1 .. 1 : p[i + j - 1] = Blobs[j]}
    <3>1. Len(p) - Len(Blobs) = n + 1 BY <1>1, <1>3
    <3> QED BY <3>1, <1>3 DEF Matches
  <2>2. \A i \in 2 .. n + 1 : (\A j \in 1 .. 1 : p[i + j - 1] = Blobs[j]) <=> i = n + 1
    <3> TAKE i \in 2 .. n + 1
    <3>1. (\A j \in 1 .. 1 : p[i + j - 1] = Blobs[j]) <=> p[i] = "blobs"
      <4>1. i + 1 - 1 = i OBVIOUS
      <4>2. \A j \in 1 .. 1 : j = 1 OBVIOUS
      <4>3. 1 \in 1 .. 1 OBVIOUS
      <4> QED BY <4>1, <4>2, <4>3, <1>3, Zenon
    <3>2. i \in 1 .. n \/ i = n + 1 BY <1>1
    <3> QED BY <3>1, <3>2, <1>1
  <2>3. n + 1 \in 2 .. n + 1 BY <1>1
  <2> QED BY <2>1, <2>2, <2>3
<1>6. Cuts(p, Blobs) = {n + 1} BY <1>5, <1>3, <1>1 DEF Cuts
<1>7. InTwo(p, Blobs) /\ Cut(p, Blobs) = n + 1
  BY <1>6, FS_Singleton DEF InTwo, Cut
<1>8. Blobs \in Separators BY DEF Separators
<1>9. Before(p, Blobs) = name
  <2>0. \A k : Cut(p, Blobs) = k => Before(p, Blobs) = SubSeq(p, 1, k - 1) BY DEF Before
  <2>1. Before(p, Blobs) = SubSeq(p, 1, n) BY <2>0, <1>1, <1>7
  <2>2. Before(p, Blobs) \in Seq(Segments) /\ Len(Before(p, Blobs)) = n
    BY <1>1, <1>7, <1>8, Recompose
  <2>3. \A j \in 1 .. n : Before(p, Blobs)[j] = p[j]
    <3>1. \A j \in 1 .. n : p[j] \in Segments BY <1>1, ElementOfSeq
    <3> QED BY <2>1, <3>1, <1>1, SubSeqProperties
  <2> QED BY <2>2, <2>3, <1>1, <1>4, SeqEqual DEF n
<1>10. After(p, Blobs) = <<d>>
  <2>1. Cut(p, Blobs) + Len(Blobs) = Len(p) /\ Len(p) > 0 /\ Len(p) = n + 2
    BY <1>1, <1>3, <1>7
  <2>2. After(p, Blobs) = SubSeq(p, Len(p), Len(p)) BY <2>1 DEF After
  <2>3. SubSeq(p, Len(p), Len(p)) = <<p[Len(p)]>> BY <2>1, <1>1, LastOne
  <2> QED BY <2>1, <2>2, <2>3, <1>2
<1>11. <<d>> # Nothing BY <1>2 DEF Nothing
<1>12. ~MentionsUploads(p)
  <2> SUFFICES ASSUME NEW i \in 2 .. n + 1, p[i] = "blobs", p[i + 1] = "uploads"
               PROVE  FALSE
    BY <1>1 DEF MentionsUploads
  <2>1. i = n + 1 BY <1>1
  <2>2. i + 1 = n + 2 BY <2>1, <1>1
  <2> QED BY <2>2, <1>2
<1>13. IsBlob(p) BY <1>4, <1>7, <1>9, <1>10, <1>11, <1>12 DEF IsBlob
<1> QED BY <1>1, <1>10, <1>13 DEF d

------------------------------------------------------------------------------
(* Steps *)

\* What is stored for a manifest keeps the storage invariant.
LEMMA ManifestStored ==
    ASSUME StorageInv, NEW p \in Seq(Segments), IsManifest(p), NEW c \in Contents,
           PutManifest(Before(p, Manifests), After(p, Manifests), c),
           acked' = Extend(acked, p, c), published' = published
    PROVE  StorageInv'
<1> DEFINE x == <<Before(p, Manifests), After(p, Manifests)>>
<1>1. /\ meta' = IF meta[c] = None THEN [meta EXCEPT ![c] = "own"] ELSE meta
      /\ lookup' = Extend(lookup, x, c)
  BY DEF PutManifest
<1>2. /\ DOMAIN lookup' = DOMAIN lookup \cup {x} /\ lookup'[x] = c
      /\ \A y \in DOMAIN lookup : y # x => lookup'[y] = lookup[y]
  BY <1>1 DEF Extend
<1>3. /\ DOMAIN acked' = DOMAIN acked \cup {p} /\ acked'[p] = c
      /\ \A q \in DOMAIN acked : q # p => acked'[q] = acked[q]
  BY DEF Extend
<1>4. /\ meta' \in [Contents -> {None, "own", "staged"}] /\ meta'[c] # None
      /\ \A b \in Contents : b # c => meta'[b] = meta[b]
      /\ \A b \in Contents : meta[b] # None => meta'[b] = meta[b]
      /\ \A b \in Contents : meta'[b] = "staged" => meta[b] = "staged"
  <2>1. None # "own" /\ meta \in [Contents -> {None, "own", "staged"}]
    BY NoneAssumption DEF StorageInv, Kept
  <2> QED BY <1>1, <2>1
<1>a. x = <<x[1], x[2]>> OBVIOUS
<1> HIDE DEF x
<1>5. Kept' BY <1>2, <1>4, <1>a DEF Kept, StorageInv
<1>6. ASSUME NEW q \in DOMAIN acked' PROVE Acked(q)'
  <2>1. CASE q = p
    BY <1>2, <1>3, <1>4, <2>1 DEF Acked, x
  <2>2. CASE q # p
    <3>1. q \in DOMAIN acked /\ acked'[q] = acked[q] /\ Acked(q)
      BY <1>3, <1>6, <2>2 DEF StorageInv
    <3>2. meta'[acked[q]] # None BY <3>1, <1>4 DEF Acked
    <3>3. IsManifest(q) => <<Before(q, Manifests), After(q, Manifests)>> # x
      <4> SUFFICES ASSUME IsManifest(q), <<Before(q, Manifests), After(q, Manifests)>> = x
                   PROVE  FALSE
        OBVIOUS
      <4>1. InTwo(q, Manifests) /\ InTwo(p, Manifests) /\ Manifests \in Separators
        BY DEF IsManifest, Separators
      <4>2. q = Before(q, Manifests) \o Manifests \o After(q, Manifests)
        BY <4>1, <3>1, Recompose DEF Acked
      <4>3. p = Before(p, Manifests) \o Manifests \o After(p, Manifests)
        BY <4>1, Recompose
      <4>4. Before(q, Manifests) = Before(p, Manifests) /\ After(q, Manifests) = After(p, Manifests)
        BY DEF x
      <4> QED BY <4>2, <4>3, <4>4, <2>2
    <3> QED BY <1>2, <3>1, <3>2, <3>3 DEF Acked
  <2> QED BY <2>1, <2>2
<1> QED BY <1>5, <1>6 DEF StorageInv

\* A verified blob keeps it too.
LEMMA BlobStored ==
    ASSUME StorageInv, NEW name, Named(name), NEW c \in Contents,
           PutBlobVerified(name, Sha256[c], c)
    PROVE  StorageInv'
<1> DEFINE p == BlobPath(name, c)
<1>1. meta' = [meta EXCEPT ![c] = "staged"] /\ published' = published \cup {c} /\ lookup' = lookup
  BY DEF PutBlobVerified, publishStagedBlob
<1>2. acked' = Extend(acked, p, c) BY DEF PutBlobVerified, BlobPath
<1>3. /\ DOMAIN acked' = DOMAIN acked \cup {p} /\ acked'[p] = c
      /\ \A q \in DOMAIN acked : q # p => acked'[q] = acked[q]
  BY <1>2 DEF Extend
<1>4. /\ meta' \in [Contents -> {None, "own", "staged"}] /\ meta'[c] # None
      /\ \A b \in Contents : b # c => meta'[b] = meta[b]
      /\ \A b \in Contents : meta[b] # None => meta'[b] # None
      /\ \A b \in Contents : meta'[b] = "staged" => b = c \/ meta[b] = "staged"
  BY <1>1, NoneAssumption DEF StorageInv, Kept
<1>5. c \in published' /\ published \subseteq published' /\ published' \subseteq Contents
  BY <1>1 DEF StorageInv, Kept
<1>6. Kept' BY <1>1, <1>4, <1>5 DEF Kept, StorageInv
<1>7. p \in Seq(Segments) BY BlobPathFacts
<1>8. p = BlobPath(name, c) OBVIOUS
<1> HIDE DEF p
<1>9. ASSUME NEW q \in DOMAIN acked' PROVE Acked(q)'
  <2>1. CASE q = p BY <1>3, <1>4, <1>5, <1>7, <1>8, <2>1 DEF Acked
  <2>2. CASE q # p
    <3>1. q \in DOMAIN acked /\ acked'[q] = acked[q] /\ Acked(q)
      BY <1>3, <1>9, <2>2 DEF StorageInv
    <3>2. meta'[acked[q]] # None BY <3>1, <1>4 DEF Acked
    <3> QED BY <1>1, <1>5, <3>1, <3>2 DEF Acked
  <2> QED BY <2>1, <2>2
<1> QED BY <1>6, <1>9 DEF StorageInv

\* What a client can read, given what is stored.
LEMMA ReadableKept ==
    ASSUME meta' = meta, lookup' = lookup
    PROVE  Readable' = Readable
BY DEF Readable, GetManifest, CheckManifestExists, GetBlob, Stored

LEMMA StorageUnchanged ==
    ASSUME StorageInv, UNCHANGED storage
    PROVE  StorageInv' /\ Readable' = Readable
<1>1. StorageInv' BY DEF StorageInv, Kept, Acked, storage
<1>2. Readable' = Readable BY ReadableKept DEF storage
<1> QED BY <1>1, <1>2

\* A request keeps the storage invariant, answers with a status of the interface,
\* and changes nothing readable if that is an error.
Proper == StorageInv' /\ AnswerOK' /\ (answer'.status >= 400 => Readable' = Readable)

LEMMA Refused ==
    ASSUME StorageInv, UNCHANGED storage,
           NEW code \in Codes,
           answer' = WriteError(code)
    PROVE  Proper
BY StorageUnchanged, AnswerFacts DEF Proper, AnswerOK

LEMMA BlobPut ==
    ASSUME StorageInv, NEW name, Named(name), NEW digest \in Digests, NEW data \in Contents,
           NEW complete \in BOOLEAN, PutBlob(name, digest, data, complete)
    PROVE  Proper
<1>1. CASE Refuse("BLOB_UPLOAD_UNKNOWN") \/ Refuse("BLOB_UPLOAD_INVALID")
  BY <1>1, Refused DEF Refuse, NotFoundCodes, Codes
<1>2. CASE digest = Sha256[data] /\ PutBlobVerified(name, digest, data)
  <2>1. StorageInv' BY <1>2, BlobStored
  <2>2. answer' = Created(digest, name \o Blobs \o <<digest>>) BY <1>2 DEF PutBlobVerified
  <2>3. answer'.status = 201 BY <2>2, AnswerFacts
  <2> QED BY <2>1, <2>3 DEF Proper, AnswerOK
<1> QED BY <1>1, <1>2 DEF PutBlob

\* Contents that are joined are content, if they are not too long.
LEMMA Joined ==
    ASSUME NEW a \in Contents, NEW b \in Contents, Len(a \o b) <= MaxLength
    PROVE  a \o b \in Contents
<1>1. a \in Seq(Byte) /\ b \in Seq(Byte) BY SeqDef, DigestsAssumption DEF Contents
<1>2. a \o b \in Seq(Byte) /\ Len(a \o b) \in Nat BY <1>1, ConcatProperties, LenProperties
<1>3. a \o b \in [1 .. Len(a \o b) -> Byte] BY <1>2, LenProperties
<1>4. Len(a \o b) \in 0 .. MaxLength BY <1>2, DigestsAssumption
<1> QED BY <1>3, <1>4 DEF Contents

LEMMA EmptyIsContent == << >> \in Contents
<1>1. << >> \in [1 .. 0 -> Byte] OBVIOUS
<1>2. 0 \in 0 .. MaxLength BY DigestsAssumption
<1> QED BY <1>1, <1>2 DEF Contents

\* One session changes.
LEMMA SessionChanged ==
    ASSUME SessionInv, NEW u \in Uuids, NEW s \in Session,
           s.state = "open" => Reached(s.name, u), sessions' = [sessions EXCEPT ![u] = s]
    PROVE  SessionInv'
<1>1. /\ sessions' \in [Uuids -> Session] /\ sessions'[u] = s
      /\ \A v \in Uuids : v # u => sessions'[v] = sessions[v]
  BY DEF SessionInv
<1>2. ASSUME NEW v \in Uuids, sessions'[v].state = "open"
      PROVE  Reached(sessions'[v].name, v)
  <2>1. CASE v = u BY <1>1, <1>2, <2>1
  <2>2. CASE v # u BY <1>1, <1>2, <2>2 DEF SessionInv
  <2> QED BY <2>1, <2>2
<1> QED BY <1>1, <1>2 DEF SessionInv

LEMMA SessionEnds ==
    ASSUME SessionInv, NEW u \in Uuids, sessions' = [sessions EXCEPT ![u] = Gone]
    PROVE  SessionInv'
<1>1. Gone \in Session /\ Gone.state # "open" BY DEF Session, Gone
<1> QED BY <1>1, SessionChanged

LEMMA SessionStays ==
    ASSUME SessionInv, sessions' = sessions
    PROVE  SessionInv'
BY DEF SessionInv

\* What is known of an open session.
LEMMA OpenSession ==
    ASSUME SessionInv, NEW u, IsOpen(u)
    PROVE  /\ u \in Uuids /\ sessions[u].data \in Contents
           /\ sessions[u] \in [state : {"open"}, name : Seq(Segments), data : Contents]
           /\ Reached(sessions[u].name, u) /\ Named(sessions[u].name)
<1>1. u \in Uuids /\ sessions[u] \in Session /\ sessions[u].state = "open"
  BY DEF IsOpen, SessionInv
<1>2. sessions[u] \in [state : {"open"}, name : Seq(Segments), data : Contents]
  BY <1>1 DEF Session, Unused, Gone
<1> QED BY <1>1, <1>2 DEF SessionInv, Reached

------------------------------------------------------------------------------
\* Every step keeps the invariant, and an error changes nothing readable.

LEMMA InvInit == Init => Inv
<1> SUFFICES ASSUME Init PROVE Inv OBVIOUS
<1>1. Kept BY NoneAssumption DEF Init, Kept
<1>2. DOMAIN acked = {} BY DEF Init
<1>3. SessionInv BY DEF Init, SessionInv, Session, Unused
<1>4. AnswerOK BY AnswerFacts DEF Init, AnswerOK
<1> QED BY <1>1, <1>2, <1>3, <1>4 DEF Inv, StorageInv

LEMMA ReadStep ==
    ASSUME Inv, NEW p \in Paths, NEW m \in Methods, HandleRead(m, p)
    PROVE  Proper /\ SessionInv'
<1>1. UNCHANGED storage /\ sessions' = sessions BY DEF HandleRead
<1>2. answer'.status \in {200, 400, 404, 405}
  <2>0. WriteError("MANIFEST_UNKNOWN").status = 404 /\ WriteError("BLOB_UNKNOWN").status = 404
    BY DEF WriteError, Answer, HTTPStatus, NotFoundCodes
  <2>1. \A n, r : GetManifest(n, r).status \in {200, 404}
    BY <2>0 DEF GetManifest, OK
  <2>2. \A n, r : CheckManifestExists(n, r).status \in {200, 404}
    BY <2>0 DEF CheckManifestExists, OK
  <2>3. \A d : GetBlob(d).status \in {200, 404}
    BY <2>0 DEF GetBlob, OK
  <2>4. \A d : CheckBlobExists(d).status \in {200, 404}
    BY <2>0 DEF CheckBlobExists, OK
  <2>5. OK(None, -1, None).status = 200 BY DEF OK
  <2>6. WriteError("UNSUPPORTED").status \in {400, 404, 405} /\ NotFound.status = 404
    BY AnswerFacts DEF Codes
  <2>7. answer' = Read(Route[<<m, p>>], p) BY DEF HandleRead
  <2> HIDE DEF Reading
  <2>8. \A h : Read(h, p).status \in {200, 400, 404, 405}
    BY <2>1, <2>2, <2>3, <2>4, <2>5, <2>6 DEF Read
  <2> QED BY <2>7, <2>8
<1>3. StorageInv' /\ Readable' = Readable BY <1>1, StorageUnchanged DEF Inv
<1>4. SessionInv' BY <1>1, SessionStays DEF Inv
<1> QED BY <1>2, <1>3, <1>4 DEF Proper, AnswerOK

LEMMA ManifestStep ==
    ASSUME Inv, NEW p \in Paths, handlePutManifest(p)
    PROVE  Proper /\ SessionInv'
<1>1. sessions' = sessions BY DEF handlePutManifest
<1>2. SessionInv' BY <1>1, SessionStays DEF Inv
<1>3. p \in Seq(Segments) BY PathsAssumption
<1>4. IsManifest(p) BY Routing DEF handlePutManifest, Methods
<1>5. CASE UNCHANGED storage /\ answer' = WriteError("MANIFEST_INVALID")
  <2>1. Proper BY <1>5, Refused DEF Inv, Codes
  <2> QED BY <2>1, <1>2
<1>6. CASE \E c \in Contents :
            /\ PutManifest(Before(p, Manifests), After(p, Manifests), c)
            /\ answer' = Created(Sha256[c], p)
            /\ acked' = Extend(acked, p, c)
            /\ UNCHANGED <<published, sessions>>
  <2>1. StorageInv' BY <1>3, <1>4, <1>6, ManifestStored DEF Inv
  <2>2. answer'.status = 201 BY <1>6, AnswerFacts
  <2> QED BY <2>1, <2>2, <1>2 DEF Proper, AnswerOK
<1>7. p = Before(p, Manifests) \o Manifests \o After(p, Manifests)
  <2>1. InTwo(p, Manifests) /\ Manifests \in Separators BY <1>4 DEF IsManifest, Separators
  <2> QED BY <2>1, <1>3, Recompose
<1> QED BY <1>2, <1>5, <1>6, <1>7 DEF handlePutManifest, parseManifestPath

LEMMA StartStep ==
    ASSUME Inv, NEW p \in Paths, handleStartBlobUpload(p)
    PROVE  Proper /\ SessionInv'
<1>1. p \in Seq(Segments) BY PathsAssumption
<1>2. IsUpload(p) /\ After(p, Uploads) = Nothing BY Routing DEF handleStartBlobUpload, Methods
<1> DEFINE name == Before(p, Uploads)
<1>3. name = parseBlobUploadPath(p).name BY DEF parseBlobUploadPath
<1>4. Named(name) BY <1>1, <1>2, UploadName
<1>5. \A u \in Uuids : Reached(name, u) BY <1>1, <1>2, StartReaches
<1> HIDE DEF name
<1>6. CASE \E u \in Uuids : /\ sessions' = [sessions EXCEPT ![u] = Opened(name)]
                            /\ answer' = Accepted(Location(name, u))
                            /\ UNCHANGED storage
  <2>1. PICK u \in Uuids : /\ sessions' = [sessions EXCEPT ![u] = Opened(name)]
                           /\ answer' = Accepted(Location(name, u))
                           /\ UNCHANGED storage
    BY <1>6
  <2>2. Opened(name) \in Session /\ Opened(name).name = name
    BY <1>4, EmptyIsContent DEF Opened, Session, Named
  <2>3. SessionInv' BY <2>1, <2>2, <1>5, SessionChanged DEF Inv
  <2>4. answer'.status = 202 BY <2>1, AnswerFacts
  <2>5. StorageInv' /\ Readable' = Readable BY <2>1, StorageUnchanged DEF Inv
  <2> QED BY <2>3, <2>4, <2>5 DEF Proper, AnswerOK
<1>7. CASE \E digest \in Digests, data \in Contents, complete \in BOOLEAN :
              PutBlob(name, digest, data, complete) /\ UNCHANGED sessions
  BY <1>4, <1>7, BlobPut, SessionStays DEF Inv
<1> QED BY <1>3, <1>6, <1>7 DEF handleStartBlobUpload

LEMMA ChunkStep ==
    ASSUME Inv, NEW p \in Paths, handleUploadBlobChunk(p)
    PROVE  Proper /\ SessionInv'
<1> DEFINE u == SessionOf(p)
<1>1. UNCHANGED storage BY DEF handleUploadBlobChunk
<1>2. CASE answer' = WriteError("BLOB_UPLOAD_UNKNOWN") /\ UNCHANGED sessions
  <2>1. Proper BY <1>1, <1>2, Refused DEF Inv, NotFoundCodes, Codes
  <2> QED BY <1>2, <2>1, SessionStays DEF Inv
<1>3. CASE \E chunk \in Contents, complete \in BOOLEAN :
            /\ Owned(p)
            /\ Len(sessions[u].data \o chunk) <= MaxLength
            /\ sessions' = [sessions EXCEPT ![u].data = @ \o chunk]
            /\ answer' = IF complete THEN Accepted(Location(sessions[u].name, u))
                                     ELSE WriteError("BLOB_UPLOAD_UNKNOWN")
  <2>1. PICK chunk \in Contents, complete \in BOOLEAN :
            /\ Owned(p)
            /\ Len(sessions[u].data \o chunk) <= MaxLength
            /\ sessions' = [sessions EXCEPT ![u].data = @ \o chunk]
            /\ answer' = IF complete THEN Accepted(Location(sessions[u].name, u))
                                     ELSE WriteError("BLOB_UPLOAD_UNKNOWN")
    BY <1>3
  <2>2. IsOpen(u) BY <2>1 DEF Owned
  <2> HIDE DEF u
  <2>3. /\ u \in Uuids /\ sessions[u].data \in Contents /\ Reached(sessions[u].name, u)
        /\ sessions[u] \in [state : {"open"}, name : Seq(Segments), data : Contents]
    BY <2>2, OpenSession DEF Inv
  <2> DEFINE s == [sessions[u] EXCEPT !.data = @ \o chunk]
             data == sessions[u].data \o chunk
  <2>4. data \in Contents BY <2>1, <2>3, Joined
  <2>5. s = [sessions[u] EXCEPT !.data = data] /\ sessions' = [sessions EXCEPT ![u] = s]
    BY <2>1
  <2> HIDE DEF s, data
  <2>6. s \in Session /\ s.name = sessions[u].name BY <2>3, <2>4, <2>5 DEF Session
  <2>7. SessionInv' BY <2>3, <2>5, <2>6, SessionChanged DEF Inv
  <2>8. answer'.status \in {202, 400, 404, 405}
    BY <2>1, AnswerFacts DEF NotFoundCodes, Codes
  <2>9. StorageInv' /\ Readable' = Readable BY <1>1, StorageUnchanged DEF Inv
  <2> QED BY <2>7, <2>8, <2>9 DEF Proper, AnswerOK
<1> QED BY <1>2, <1>3 DEF handleUploadBlobChunk

LEMMA CompleteStep ==
    ASSUME Inv, NEW p \in Paths, handleCompleteBlobUpload(p)
    PROVE  Proper /\ SessionInv'
<1> DEFINE u == SessionOf(p)
<1>1. ASSUME NEW code \in Codes,
             Refuse(code)
      PROVE  Proper
  BY <1>1, Refused DEF Inv, Refuse
<1>2. CASE UNCHANGED sessions /\ (Refuse("BLOB_UPLOAD_INVALID") \/ Refuse("BLOB_UPLOAD_UNKNOWN"))
  <2>1. Proper BY <1>1, <1>2 DEF NotFoundCodes, Codes
  <2> QED BY <1>2, <2>1, SessionStays DEF Inv
<1>3. CASE /\ IsOpen(u)
           /\ sessions' = [sessions EXCEPT ![u] = Gone]
           /\ Refuse("BLOB_UPLOAD_UNKNOWN")
  <2>1. Proper BY <1>1, <1>3 DEF NotFoundCodes, Codes
  <2>2. u \in Uuids BY <1>3 DEF IsOpen
  <2> QED BY <1>3, <2>1, <2>2, SessionEnds DEF Inv
<1>4. CASE \E digest \in Digests, chunk \in Contents, complete \in BOOLEAN :
            /\ Owned(p)
            /\ Len(sessions[u].data \o chunk) <= MaxLength
            /\ sessions' = [sessions EXCEPT ![u] = Gone]
            /\ PutBlob(sessions[u].name, digest, sessions[u].data \o chunk, complete)
  <2>1. PICK digest \in Digests, chunk \in Contents, complete \in BOOLEAN :
            /\ Owned(p)
            /\ Len(sessions[u].data \o chunk) <= MaxLength
            /\ sessions' = [sessions EXCEPT ![u] = Gone]
            /\ PutBlob(sessions[u].name, digest, sessions[u].data \o chunk, complete)
    BY <1>4
  <2>2. IsOpen(u) BY <2>1 DEF Owned
  <2> HIDE DEF u
  <2>3. u \in Uuids /\ sessions[u].data \in Contents /\ Named(sessions[u].name)
    BY <2>2, OpenSession DEF Inv
  <2>4. sessions[u].data \o chunk \in Contents BY <2>1, <2>3, Joined
  <2>5. Proper BY <2>1, <2>3, <2>4, BlobPut DEF Inv
  <2>6. SessionInv' BY <2>1, <2>3, SessionEnds DEF Inv
  <2> QED BY <2>5, <2>6
<1> QED BY <1>2, <1>3, <1>4 DEF handleCompleteBlobUpload

LEMMA CleanupStep ==
    ASSUME Inv, NEW u \in Uuids, cleanupExpiredSessions(u)
    PROVE  Inv' /\ Readable' = Readable
<1>1. StorageInv' /\ Readable' = Readable
  BY StorageUnchanged DEF Inv, cleanupExpiredSessions
<1>2. SessionInv' BY SessionEnds DEF Inv, cleanupExpiredSessions
<1> QED BY <1>1, <1>2 DEF Inv, AnswerOK, cleanupExpiredSessions

LEMMA RestartStep ==
    ASSUME Inv, Restart
    PROVE  Inv' /\ Readable' = Readable
<1>1. StorageInv' /\ Readable' = Readable BY StorageUnchanged DEF Inv, Restart
<1>2. SessionInv'
  <2>1. Gone \in Session /\ Gone.state # "open" BY DEF Session, Gone
  <2>2. \A u \in Uuids : sessions'[u] \in Session BY <2>1 DEF Restart, Inv, SessionInv
  <2>3. \A u \in Uuids : sessions'[u].state # "open" BY <2>1 DEF Restart, IsOpen
  <2>4. sessions' \in [Uuids -> Session] BY <2>2 DEF Restart
  <2> QED BY <2>3, <2>4 DEF SessionInv
<1> QED BY <1>1, <1>2 DEF Inv, AnswerOK, Restart

LEMMA InvNext ==
    ASSUME Inv, [Next]_vars
    PROVE  Inv' /\ (answer'.status >= 400 => Readable' = Readable)
<1>1. CASE Proper /\ SessionInv' BY <1>1 DEF Proper, Inv
<1>2. CASE Inv' /\ Readable' = Readable BY <1>2
<1>3. CASE UNCHANGED vars
  <2>1. StorageInv' /\ Readable' = Readable BY <1>3, StorageUnchanged DEF Inv, vars, storage
  <2>2. SessionInv' /\ AnswerOK' BY <1>3, SessionStays DEF Inv, vars, AnswerOK
  <2> QED BY <2>1, <2>2 DEF Inv
<1>4. CASE \E p \in Paths, method \in Methods : HandleRead(method, p)
  BY <1>1, <1>4, ReadStep
<1>5. CASE \E p \in Paths : handlePutManifest(p) BY <1>1, <1>5, ManifestStep
<1>6. CASE \E p \in Paths : handleStartBlobUpload(p) BY <1>1, <1>6, StartStep
<1>7. CASE \E p \in Paths : handleUploadBlobChunk(p) BY <1>1, <1>7, ChunkStep
<1>8. CASE \E p \in Paths : handleCompleteBlobUpload(p) BY <1>1, <1>8, CompleteStep
<1>9. CASE \E u \in Uuids : cleanupExpiredSessions(u) BY <1>2, <1>9, CleanupStep
<1>10. CASE Restart BY <1>2, <1>10, RestartStep
<1> QED BY <1>3, <1>4, <1>5, <1>6, <1>7, <1>8, <1>9, <1>10 DEF Next

------------------------------------------------------------------------------
(* What the invariant says of the properties *)

LEMMA InvTyped == Inv => TypeOK
<1> SUFFICES ASSUME Inv PROVE TypeOK OBVIOUS
<1>1. /\ meta \in [Contents -> {None, "own", "staged"}] /\ published \subseteq Contents
      /\ \A x \in DOMAIN lookup : lookup[x] \in Contents
  BY DEF Inv, StorageInv, Kept
<1>2. \A p \in DOMAIN acked : acked[p] \in Contents
  BY Zenon DEF Inv, StorageInv, Acked
<1>3. sessions \in [Uuids -> Session] BY DEF Inv, SessionInv
<1>4. answer.status \in {0, 200, 201, 202, 400, 404, 405} BY DEF Inv, AnswerOK
<1> QED BY <1>1, <1>2, <1>3, <1>4 DEF TypeOK

LEMMA InvReachable == Inv => SessionsReachable
<1> SUFFICES ASSUME Inv, NEW u \in Uuids, sessions[u].state = "open"
             PROVE  LET p == Location(sessions[u].name, u)
                    IN  /\ dispatchRequest("PATCH", p) = "handleUploadBlobChunk"
                        /\ dispatchRequest("PUT", p) = "handleCompleteBlobUpload"
                        /\ Owned(p)
  BY DEF SessionsReachable
<1> DEFINE name == sessions[u].name
           p == Location(name, u)
<1>1. /\ p \in Seq(Segments) /\ IsUpload(p)
      /\ Before(p, Uploads) = name /\ After(p, Uploads) = <<u>>
  BY DEF Inv, SessionInv, Reached
<1> HIDE DEF p
<1>2. <<u>> # Nothing
  <2>1. "" \in Words BY DEF Words
  <2>2. u # "" BY <2>1, PathsAssumption
  <2> QED BY <2>2 DEF Nothing
<1>3. /\ dispatchRequest("PATCH", p) = "handleUploadBlobChunk"
      /\ dispatchRequest("PUT", p) = "handleCompleteBlobUpload"
  BY <1>1, <1>2, RouteOfUpload
<1>4. SessionOf(p) = u
  <2>1. Len(<<u>>) = 1 /\ <<u>>[1] = u OBVIOUS
  <2> QED BY <1>1, <2>1 DEF SessionOf, parseBlobUploadPath
<1>5. Owned(p) BY <1>1, <1>4 DEF Owned, IsOpen, parseBlobUploadPath
<1> QED BY <1>3, <1>5 DEF p

LEMMA WithoutBody ==
    ASSUME NEW d, NEW n, NEW b
    PROVE  [OK(d, n, b) EXCEPT !.body = None] = OK(d, n, None)
BY DEF OK

LEMMA ErrorWithoutBody ==
    ASSUME NEW code
    PROVE  [WriteError(code) EXCEPT !.body = None] = WriteError(code)
BY DEF WriteError, Answer

LEMMA TwoFields ==
    ASSUME NEW r, NEW x, NEW m
    PROVE  [r EXCEPT !.body = x, !.length = m] = [[r EXCEPT !.body = x] EXCEPT !.length = m]
OBVIOUS

LEMMA InvHeads == Inv => HeadAgreesWithGet
<1> SUFFICES ASSUME Inv PROVE HeadAgreesWithGet OBVIOUS
<1>1. ASSUME NEW d \in Digests
      PROVE  CheckBlobExists(d) = [GetBlob(d) EXCEPT !.body = None]
  <2> DEFINE c == getStorageKey(d)
  <2>1. CASE Stored(c)
    <3>1. GetBlob(d) = OK(d, Len(c), c) /\ CheckBlobExists(d) = OK(d, Len(c), None)
      BY <2>1 DEF GetBlob, CheckBlobExists
    <3> QED BY <3>1, WithoutBody
  <2>2. CASE ~Stored(c)
    <3>1. GetBlob(d) = WriteError("BLOB_UNKNOWN") /\ CheckBlobExists(d) = WriteError("BLOB_UNKNOWN")
      BY <2>2 DEF GetBlob, CheckBlobExists
    <3> QED BY <3>1, ErrorWithoutBody
  <2> QED BY <2>1, <2>2
<1>2. ASSUME NEW x \in DOMAIN lookup, lookup[x] \notin published
      PROVE  CheckManifestExists(x[1], x[2]) =
                [GetManifest(x[1], x[2]) EXCEPT !.body = None, !.length = -1]
  <2>1. meta[lookup[x]] = "own" BY <1>2 DEF Inv, StorageInv, Kept
  <2> DEFINE c == lookup[x]
  <2>2. <<x[1], x[2]>> = x BY DEF Inv, StorageInv, Kept
  <2>3. GetManifest(x[1], x[2]) = OK(Sha256[c], Len(c), c)
    BY <2>1, <2>2 DEF GetManifest
  <2>4. CheckManifestExists(x[1], x[2]) = OK(Sha256[c], -1, None)
    BY <2>1, <2>2 DEF CheckManifestExists
  <2> HIDE DEF c
  <2>5. [[GetManifest(x[1], x[2]) EXCEPT !.body = None] EXCEPT !.length = -1] =
          OK(Sha256[c], -1, None)
    <3>1. [GetManifest(x[1], x[2]) EXCEPT !.body = None] = OK(Sha256[c], Len(c), None)
      BY <2>3, WithoutBody
    <3>2. [OK(Sha256[c], Len(c), None) EXCEPT !.length = -1] = OK(Sha256[c], -1, None)
      BY DEF OK
    <3> QED BY <3>1, <3>2
  <2> QED BY <2>4, <2>5, TwoFields
<1> QED BY <1>1, <1>2 DEF HeadAgreesWithGet

LEMMA InvManifests == Inv => AckedManifestServed
<1> SUFFICES ASSUME Inv, NEW p \in DOMAIN acked, IsManifest(p), acked[p] \notin published
             PROVE  LET get == Read(dispatchRequest("GET", p), p)
                    IN  /\ get.status = 200 /\ get.body = acked[p]
                        /\ get.digest = Sha256[acked[p]]
  BY DEF AckedManifestServed
<1> DEFINE x == <<Before(p, Manifests), After(p, Manifests)>>
           c == acked[p]
<1>1. /\ p \in Seq(Segments) /\ c \in Contents /\ x \in DOMAIN lookup /\ lookup[x] = c
      /\ meta[c] = "own"
  BY DEF Inv, StorageInv, Kept, Acked
<1>2. dispatchRequest("GET", p) = "handleGetManifest" BY <1>1, RouteOfManifest
<1>3. Read("handleGetManifest", p) = GetManifest(Before(p, Manifests), After(p, Manifests))
  BY DEF Read, parseManifestPath
<1>4. GetManifest(Before(p, Manifests), After(p, Manifests)) = OK(Sha256[c], Len(c), c)
  BY <1>1 DEF GetManifest
<1> HIDE DEF c
<1>5. LET get == OK(Sha256[c], Len(c), c)
      IN  get.status = 200 /\ get.body = c /\ get.digest = Sha256[c]
  BY DEF OK
<1>6. Read(dispatchRequest("GET", p), p) = OK(Sha256[c], Len(c), c)
  BY <1>2, <1>3, <1>4
<1> QED BY <1>5, <1>6 DEF c

LEMMA InvBlobs == Inv => AckedBlobServed
<1> SUFFICES ASSUME Inv, NEW p \in DOMAIN acked, ~IsManifest(p),
                    \A i \in 1 .. Len(p) - 2 : p[i] # "blobs"
             PROVE  LET get == Read(dispatchRequest("GET", p), p)
                    IN  /\ get.status = 200 /\ get.body = acked[p]
                        /\ get.length = Len(acked[p])
  BY DEF AckedBlobServed
<1> DEFINE c == acked[p]
<1>1. c \in Contents /\ meta[c] # None BY DEF Inv, StorageInv, Acked
<1>2. PICK name : Named(name) /\ p = BlobPath(name, c) BY DEF Inv, StorageInv, Acked
<1> HIDE DEF c
<1>3. p \in Seq(Segments) /\ IsBlob(p) /\ After(p, Blobs) = <<Sha256[c]>>
  BY <1>1, <1>2, BlobPathRouted
<1>4. dispatchRequest("GET", p) = "handleGetBlob" BY <1>3, RouteOfBlob
<1>5. Read("handleGetBlob", p) = GetBlob(Sha256[c])
  <2>1. Digest(<<Sha256[c]>>) = Sha256[c]
    <3>1. Len(<<Sha256[c]>>) = 1 /\ <<Sha256[c]>>[1] = Sha256[c] OBVIOUS
    <3> QED BY <3>1 DEF Digest
  <2>2. Read("handleGetBlob", p) = GetBlob(Digest(parseBlobPath(p).digest)) BY DEF Read
  <2> QED BY <2>1, <2>2, <1>3 DEF parseBlobPath
<1>6. getStorageKey(Sha256[c]) = c
  <2>1. Sha256[c] \in Digests BY <1>1, DigestFacts
  <2>2. \A b \in Contents : Sha256[c] \in {Sha256[b], Sha512[b]} => b = c
    BY <1>1, DigestsAssumption
  <2>3. KeyOf[Sha256[c]] = c BY <1>1, <2>1, <2>2 DEF KeyOf
  <2> QED BY <2>1, <2>3 DEF getStorageKey
<1>7. Stored(c)
  <2>1. c # None BY <1>1, NoneAssumption
  <2> QED BY <1>1, <2>1 DEF Stored
<1>8. GetBlob(Sha256[c]) = OK(Sha256[c], Len(c), c)
  BY <1>6, <1>7 DEF GetBlob
<1>9. LET get == OK(Sha256[c], Len(c), c)
      IN  get.status = 200 /\ get.body = c /\ get.length = Len(c)
  BY DEF OK
<1> QED BY <1>4, <1>5, <1>8, <1>9 DEF c

THEOREM InvAlways == Spec => []Inv
<1>1. Init => Inv BY InvInit
<1>2. Inv /\ [Next]_vars => Inv' BY InvNext
<1> QED BY <1>1, <1>2, PTL DEF Spec

\* The states and answers have their types; no answer is an internal error.
THEOREM TypeCorrect == Spec => []TypeOK
BY InvAlways, InvTyped, PTL

\* Whatever the names of the repositories, the Location of an upload leads back to
\* its session: the routes of a path do not depend on its last segment.
THEOREM LocationsLeadBack == Spec => []SessionsReachable
BY InvAlways, InvReachable, PTL

\* HEAD and GET agree, but for manifests that were also pushed as blobs.
THEOREM HeadsAgree == Spec => []HeadAgreesWithGet
BY InvAlways, InvHeads, PTL

\* An acknowledged manifest is served under its tag, until it is put again.
THEOREM ManifestsServed == Spec => []AckedManifestServed
BY InvAlways, InvManifests, PTL

\* An acknowledged blob is served for ever at the Location it was acknowledged with.
THEOREM BlobsServed == Spec => []AckedBlobServed
BY InvAlways, InvBlobs, PTL

\* No request that is answered with an error changes what can be read.
THEOREM ErrorsAreHarmless == Spec => ErrorsChangeNothing
<1>1. Inv /\ [Next]_vars => [answer'.status >= 400 => Readable' = Readable]_vars
  BY InvNext
<1> QED BY <1>1, InvAlways, PTL DEF Spec, ErrorsChangeNothing

==============================================================================
