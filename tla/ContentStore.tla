---------------------------- MODULE ContentStore -----------------------------
(***************************************************************************)
(* What an ArtifactStorage that computes hashes promises to those who      *)
(* create artifacts without naming a hash: every call ends at most once,   *)
(* and when it succeeds the content is in the store at that very moment,   *)
(* under its own hash, whatever other clients add and delete meanwhile.    *)
(***************************************************************************)
CONSTANTS Creates,  \* calls of CreateArtifact
          Bodies    \* contents, and their hashes

VARIABLES body,     \* the content each call brings
          stored,   \* the contents in the store
          state     \* "asked", "kept" (stored by this call), "ok" or "failed"

vars == <<body, stored, state>>

Init ==
    /\ body \in [Creates -> Bodies]
    /\ stored = {}
    /\ state = [p \in Creates |-> "asked"]

Open(p) == state[p] \in {"asked", "kept"}

\* A call stores its content, once.
Keep(p) ==
    /\ state[p] = "asked"
    /\ stored' = stored \cup {body[p]}
    /\ state' = [state EXCEPT ![p] = "kept"]
    /\ UNCHANGED body

\* It succeeds only with the content in the store, whoever put it there.
Answer(p) ==
    /\ Open(p) /\ body[p] \in stored
    /\ state' = [state EXCEPT ![p] = "ok"]
    /\ UNCHANGED <<body, stored>>

\* It fails without taking anything out of the store.
Fail(p) ==
    /\ Open(p)
    /\ state' = [state EXCEPT ![p] = "failed"]
    /\ UNCHANGED <<body, stored>>

\* Other clients store and delete contents by hash.
Insert(b) == stored' = stored \cup {b} /\ UNCHANGED <<body, state>>
Remove(b) == stored' = stored \ {b} /\ UNCHANGED <<body, state>>

Next ==
    \/ \E p \in Creates : Keep(p) \/ Answer(p) \/ Fail(p)
    \/ \E b \in Bodies : Insert(b) \/ Remove(b)

Spec == Init /\ [][Next]_vars

==============================================================================
