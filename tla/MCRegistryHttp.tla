--------------------------- MODULE MCRegistryHttp ----------------------------
(* Values for the constants of RegistryHttp that a cfg cannot write. *)
EXTENDS RegistryHttp, TLC

MCSha256 == [c \in Contents |-> "sha256:" \o ToString(c)]
MCSha512 == [c \in Contents |-> "sha512:" \o ToString(c)]
MCUuids == {"u1"}

\* A plain repository, and ones whose names contain what routing looks for.
MCPaths ==
    LET d == Sha256[<<1>>] IN
    { <<"">>,
      <<"lib", "manifests", "latest">>, <<"lib", "blobs", d>>, <<"lib", "blobs", Sha512[<<1>>]>>,
      <<"lib", "blobs", "uploads">>, <<"lib", "blobs", "uploads", "">>,
      <<"lib", "blobs", "uploads", "u1">>,
      <<"lib", "blobs", "x", "blobs", d>>, <<"lib", "blobs", "x", "blobs", "uploads", "">>,
      <<"lib", "blobs", "x", "blobs", "uploads", "u1">>,
      <<"lib", "manifests", "x", "blobs", "uploads", "u1">>,
      <<"lib", "manifests", "x", "manifests", "latest">> }
MCSegments == UNION {{p[i] : i \in DOMAIN p} : p \in MCPaths} \cup Words \cup Digests
=============================================================================
