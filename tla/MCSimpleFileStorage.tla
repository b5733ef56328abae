------------------------ MODULE MCSimpleFileStorage -------------------------
(* Values for the constants of SimpleFileStorage that a cfg cannot write. *)
EXTENDS SimpleFileStorage, TLC

\* One shard per key, and all keys in one shard.
MCOwnShard == [k \in Keys |-> k]
MCOneShard == [k \in Keys |-> CHOOSE x \in Shards : TRUE]

\* A torn upload of one byte leaves an empty blob: two lengths are enough for a
\* conflict on size.
MCOnePayload == {<<1>>}

\* A write of two bytes whose reader ends after the first, and one past the end.
MCPatches == { [offset |-> 0, length |-> 2, data |-> <<1>>],
               [offset |-> 1, length |-> -1, data |-> <<1>>] }

\* Keys and references are interchangeable where every key has its own shard.
MCSymmetry == Permutations(ContentKeys) \cup Permutations(Refs)
=============================================================================
