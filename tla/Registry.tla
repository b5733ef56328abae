------------------------------- MODULE Registry ------------------------------
(***************************************************************************)
(* What the private registry promises its clients: content appears under   *)
(* its digest at one moment of one push that brought it and stays; who is  *)
(* told that a blob is stored, can rely on it; who pulls by digest gets    *)
(* that content, or is told that it is not there while it is not.  Any     *)
(* request may fail, without taking anything away.                         *)
(***************************************************************************)
CONSTANTS BlobPuts, ManifestPuts, BlobGets, ManifestGets,  \* the requests
          Bodies,   \* contents, and their digests
          Tags, None

Puts == BlobPuts \cup ManifestPuts
Gets == BlobGets \cup ManifestGets
Procs == Puts \cup Gets

VARIABLES req,      \* what each request asks for
          stored,   \* the contents that can be pulled
          state,    \* "open", or how the request ended
          answer    \* what a pull was served

Status == {"open", "acked", "rejected", "served", "notfound", "failed"}

vars == <<req, stored, state, answer>>

Init ==
    /\ req \in [Procs -> [body : Bodies, digest : Bodies, tag : Tags]]
    /\ \A p \in Procs \ BlobPuts : req[p].body = req[p].digest
    /\ stored = {}
    /\ state = [p \in Procs |-> "open"]
    /\ answer = [p \in Gets |-> None]

End(p, how) ==
    /\ state[p] = "open"
    /\ state' = [state EXCEPT ![p] = how]
    /\ UNCHANGED <<req, stored>>

\* The moment of a push: the body has the digest that it claims.
Publish(p) ==
    /\ state[p] = "open" /\ req[p].body = req[p].digest
    /\ stored' = stored \cup {req[p].digest}
    /\ UNCHANGED <<req, state, answer>>

\* A push of this digest that failed may have left a part of it.
Broken(digest) == \E p \in Puts : req[p].digest = digest /\ state[p] = "failed"

\* A blob is acknowledged when it is stored; a manifest also when an earlier push
\* of it broke off.
Acknowledge(p) ==
    /\ req[p].digest \in stored \/ (p \in ManifestPuts /\ Broken(req[p].digest))
    /\ End(p, "acked")
    /\ UNCHANGED answer

Reject(p) == req[p].body # req[p].digest /\ End(p, "rejected") /\ UNCHANGED answer

\* A pull by digest gets that content; one by tag a manifest pushed under the tag.
Wanted(p, b) ==
    IF p \in BlobGets THEN b = req[p].digest
    ELSE \E m \in ManifestPuts : req[m].digest = b /\ req[m].tag = req[p].tag
Serve(p) ==
    /\ \E b \in stored : Wanted(p, b) /\ answer' = [answer EXCEPT ![p] = b]
    /\ End(p, "served")

\* A pull by digest misses only what is not stored.
Miss(p) ==
    /\ p \in BlobGets => req[p].digest \notin stored
    /\ End(p, "notfound")
    /\ UNCHANGED answer

\* Requests fail, several at once when the server dies.
Fail ==
    /\ state' \in [Procs -> Status]
    /\ \A p \in Procs : state'[p] # state[p] => state[p] = "open" /\ state'[p] = "failed"
    /\ UNCHANGED <<req, stored, answer>>

Next ==
    \/ Fail
    \/ \E p \in Puts : Publish(p) \/ Acknowledge(p) \/ Reject(p)
    \/ \E p \in Gets : Serve(p) \/ Miss(p)

Spec == Init /\ [][Next]_vars

==============================================================================
