------------------------------ MODULE BlobUpload ------------------------------
(***************************************************************************)
(* What chunked uploads promise: a session is open from one moment to      *)
(* another and never again; an acknowledged chunk is in its log, once;     *)
(* one completion at most ends a session, and only that one can store      *)
(* anything, which is the whole log; a session that a chunk broke off in,  *)
(* or was acknowledged in too late, makes no promise of what is stored;    *)
(* who names another repository gets nothing, though a completion by such  *)
(* a stranger ends the session.                                            *)
(***************************************************************************)
EXTENDS Sequences

CONSTANTS Sessions, Chunks, Completions,
          Strangers,  \* requests that name another repository
          None        \* no session

Clients == Chunks \cup Completions

VARIABLES state,    \* of each session: "new", "open" or "ended"
          log,      \* the chunks acknowledged in it, in order
          damaged,  \* sessions a chunk broke off in or was acknowledged late in
          claim,    \* the session each completion ended
          result,   \* "asked", or how each request ended
          blob      \* what each completion stored

vars == <<state, log, damaged, claim, result, blob>>

Init ==
    /\ state = [s \in Sessions |-> "new"]
    /\ log = [s \in Sessions |-> << >>]
    /\ damaged = {}
    /\ claim = [k \in Completions |-> None]
    /\ result = [c \in Clients |-> "asked"]
    /\ blob = [k \in Completions |-> << >>]

Answer(c, how) == result[c] = "asked" /\ result' = [result EXCEPT ![c] = how]

Open(s) ==
    /\ state[s] = "new"
    /\ state' = [state EXCEPT ![s] = "open"]
    /\ UNCHANGED <<log, damaged, claim, result, blob>>

Expire(s) ==
    /\ state[s] = "open"
    /\ state' = [state EXCEPT ![s] = "ended"]
    /\ UNCHANGED <<log, damaged, claim, result, blob>>

\* A chunk that found the session open may be written after it has ended.
Accept(c, s) ==
    /\ c \in Chunks \ Strangers /\ state[s] # "new"
    /\ Answer(c, "accepted")
    /\ log' = [log EXCEPT ![s] = Append(@, c)]
    /\ damaged' = IF state[s] = "open" THEN damaged ELSE damaged \cup {s}
    /\ UNCHANGED <<state, claim, blob>>

Break(c, s) ==
    /\ c \in Chunks \ Strangers /\ state[s] # "new"
    /\ Answer(c, "failed")
    /\ damaged' = damaged \cup {s}
    /\ UNCHANGED <<state, log, claim, blob>>

Claim(k, s) ==
    /\ result[k] = "asked" /\ claim[k] = None /\ state[s] = "open"
    /\ state' = [state EXCEPT ![s] = "ended"]
    /\ claim' = [claim EXCEPT ![k] = s]
    /\ UNCHANGED <<log, damaged, result, blob>>

Store(k) ==
    /\ k \notin Strangers /\ claim[k] # None
    /\ Answer(k, "stored")
    /\ claim[k] \notin damaged => blob'[k] = Append(log[claim[k]], k)
    /\ blob' \in [Completions -> Seq(Clients)]
    /\ \A j \in Completions : j # k => blob'[j] = blob[j]
    /\ UNCHANGED <<state, log, damaged, claim>>

\* Why a request may end with nothing done.
Unknown(c) == /\ \E s \in Sessions : state[s] # "open"
              /\ c \in Completions => claim[c] = None
              /\ Answer(c, "unknown")
Closed(c) == /\ c \in Chunks \ Strangers /\ \E s \in Sessions : state[s] = "ended"
             /\ Answer(c, "closed")
Mismatch(c) == c \in Strangers /\ Answer(c, "mismatch")
Fail(k) == k \in Completions \ Strangers /\ claim[k] # None /\ Answer(k, "failed")

Refuse(c) ==
    /\ Unknown(c) \/ Closed(c) \/ Mismatch(c) \/ Fail(c)
    /\ UNCHANGED <<state, log, damaged, claim, blob>>

Next ==
    \/ \E s \in Sessions : Open(s) \/ Expire(s)
    \/ \E c \in Chunks, s \in Sessions : Accept(c, s) \/ Break(c, s)
    \/ \E k \in Completions, s \in Sessions : Claim(k, s)
    \/ \E k \in Completions : Store(k)
    \/ \E c \in Clients : Refuse(c)

Spec == Init /\ [][Next]_vars

==============================================================================
