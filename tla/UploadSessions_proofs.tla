------------------------ MODULE UploadSessions_proofs ------------------------
(* The ownership of temp files, what is stored from them, and that the sessions
   keep what BlobUpload promises, for any number of sessions and requests. *)
EXTENDS UploadSessions, TLAPS

(***************************************************************************)
(* CompletionOwnsFile and TempFileHasOwner are not inductive: they say      *)
(* nothing of why cleanup cannot discard a session a completion holds.  It  *)
(* cannot because what it is about to remove is still in the map, which no  *)
(* completion can enter while cleanup has its mutex.                        *)
(***************************************************************************)

HeldIsTaken ==
    \A k \in Completions, s \in Sessions : Holds(k, s) => phase[s] = "taken" /\ s \in isOpen
HolderUnique ==
    \A j, k \in Completions, s \in Sessions : Holds(j, s) /\ Holds(k, s) => j = k
MappedIsOpen == \A s \in Sessions : phase[s] \in {"created", "inMap"} => s \in isOpen
SweepInMap ==
    /\ \A s \in doomed : phase[s] = "inMap"
    /\ ~sweeping => doomed = {}
    /\ discarding # None => phase[discarding] = "swept"
HasSession ==
    \A c \in Clients :
        pc[c] \in {"lock", "copy", "rewind", "reading", "close", "evict"} => sess[c] \in Sessions

\* A write at the position of a temp file, at its end or within it.
LEMMA WriteType ==
    ASSUME TypeOK, NEW s \in Sessions, NEW b \in Clients, WriteBlock(s, b)
    PROVE  content' \in [Sessions -> Seq(Clients)] /\ position' \in [Sessions -> Nat]
<1>1. content[s] \in Seq(Clients) /\ position[s] \in Nat
  BY DEF TypeOK
<1>2. Append(content[s], b) \in Seq(Clients)
  BY <1>1
<1>3. [content[s] EXCEPT ![position[s] + 1] = b] \in Seq(Clients)
  <2>1. content[s] \in [1 .. Len(content[s]) -> Clients] /\ Len(content[s]) \in Nat
    BY <1>1
  <2>2. [content[s] EXCEPT ![position[s] + 1] = b] \in [1 .. Len(content[s]) -> Clients]
    BY <2>1
  <2> QED BY <2>1, <2>2
<1>4. content' \in [Sessions -> Seq(Clients)]
  BY <1>2, <1>3 DEF WriteBlock, TypeOK
<1>5. position' \in [Sessions -> Nat]
  BY <1>1 DEF WriteBlock, TypeOK
<1> QED BY <1>4, <1>5

\* Closing and removing a temp file.
LEMMA CloseType ==
    ASSUME TypeOK, NEW s \in Sessions, CloseFile(s)
    PROVE  /\ isOpen' \subseteq Sessions
           /\ content' \in [Sessions -> Seq(Clients)] /\ position' \in [Sessions -> Nat]
BY DEF CloseFile, TypeOK

\* Each step keeps every variable in its type.
LEMMA StepType ==
    ASSUME TypeOK, HasSession, [Next]_vars
    PROVE  TypeOK'
<1> USE DEF Label, Ended, Phase
<1>0. /\ Chunks \subseteq Clients /\ Completions \subseteq Clients
      /\ None \notin Sessions
  BY NoneAssumption DEF Clients
<1>1. CASE UNCHANGED vars
  BY <1>1 DEF vars, TypeOK
<1>2. ASSUME NEW s \in Sessions, CreateTemp(s) PROVE TypeOK'
  BY <1>2 DEF CreateTemp, TypeOK, cleanupVars, clientVars, history
<1>3. ASSUME NEW s \in Sessions, EnterSession(s) PROVE TypeOK'
  BY <1>3 DEF EnterSession, TypeOK, cleanupVars, clientVars, history
<1>4. ASSUME NEW s \in Sessions, Expire(s) PROVE TypeOK'
  BY <1>4 DEF Expire, TypeOK, sessionVars, clientVars, history
<1>5. ASSUME NEW s \in Sessions, RemoveExpired(s) PROVE TypeOK'
  BY <1>5 DEF RemoveExpired, TypeOK, clientVars, history
<1>6. ASSUME NEW s \in Sessions, DiscardExpired(s) PROVE TypeOK'
  BY <1>6, CloseType DEF DiscardExpired, TypeOK, clientVars, history
<1>7. CASE StartSweep \/ EndSweep
  BY <1>7 DEF StartSweep, EndSweep, TypeOK, sessionVars, clientVars, history
<1>8. ASSUME NEW c \in Chunks, LockChunk(c) PROVE TypeOK'
  <2>1. mu' \in [Sessions -> Chunks \cup {None}]
    <3>1. mu' = [mu EXCEPT ![sess[c]] = c] \/ mu' = mu
      BY <1>8 DEF LockChunk
    <3> QED BY <3>1 DEF TypeOK
  <2>2. pc' \in [Clients -> Label]
    BY <1>8, <1>0 DEF LockChunk, Goto, TypeOK
  <2> QED BY <1>8, <2>1, <2>2 DEF LockChunk, TypeOK, cleanupVars, history
<1>9. ASSUME NEW c \in Chunks, CopyChunk(c) PROVE TypeOK'
  <2>1. sess[c] \in Sessions
    BY <1>9, <1>0 DEF CopyChunk, HasSession
  <2>2. content' \in [Sessions -> Seq(Clients)] /\ position' \in [Sessions -> Nat]
    BY <1>9, <1>0, <2>1, WriteType DEF CopyChunk
  <2>3. accepted' \in [Sessions -> Seq(Clients)]
    <3>1. Append(accepted[sess[c]], c) \in Seq(Clients)
      BY <1>0, <2>1 DEF TypeOK
    <3> QED BY <1>9, <2>1, <3>1 DEF CopyChunk, TypeOK
  <2>4. offset' \in [Sessions -> Nat] /\ mu' \in [Sessions -> Chunks \cup {None}]
    <3>1. /\ offset' = [offset EXCEPT ![sess[c]] = @ + 1]
          /\ mu' = [mu EXCEPT ![sess[c]] = None]
      BY <1>9 DEF CopyChunk
    <3>2. offset' \in [Sessions -> Nat]
      BY <2>1, <3>1 DEF TypeOK
    <3>3. mu' \in [Sessions -> Chunks \cup {None}]
      BY <2>1, <3>1 DEF TypeOK
    <3> QED BY <3>2, <3>3
  <2>5. pc' \in [Clients -> Label]
    BY <1>9, <1>0 DEF CopyChunk, Goto, TypeOK
  <2>6. disturbed' \subseteq Sessions
    BY <1>9, <2>1 DEF CopyChunk, TypeOK
  <2> QED BY <1>9, <2>2, <2>3, <2>4, <2>5, <2>6 DEF CopyChunk, TypeOK, cleanupVars
<1>10. ASSUME NEW c \in Chunks, FailChunk(c) PROVE TypeOK'
  <2>1. sess[c] \in Sessions
    BY <1>10, <1>0 DEF FailChunk, HasSession
  <2>2. content' \in [Sessions -> Seq(Clients)] /\ position' \in [Sessions -> Nat]
    BY <1>10, <1>0, <2>1, WriteType DEF FailChunk, TypeOK
  <2>3. mu' \in [Sessions -> Chunks \cup {None}] /\ disturbed' \subseteq Sessions
    BY <1>10, <2>1 DEF FailChunk, TypeOK
  <2>4. pc' \in [Clients -> Label]
    BY <1>10, <1>0 DEF FailChunk, Goto, TypeOK
  <2> QED BY <1>10, <2>2, <2>3, <2>4 DEF FailChunk, TypeOK, cleanupVars
<1>11. ASSUME NEW k \in Completions, Rewind(k) PROVE TypeOK'
  <2>1. position' \in [Sessions -> Nat]
    BY <1>11 DEF Rewind, TypeOK
  <2>2. pc' \in [Clients -> Label]
    BY <1>11, <1>0 DEF Rewind, Goto, TypeOK
  <2> QED BY <1>11, <2>1, <2>2 DEF Rewind, TypeOK, cleanupVars, history
<1>12. ASSUME NEW k \in Completions, ReadBlock(k) PROVE TypeOK'
  <2> DEFINE s == sess[k]
  <2>1. s \in Sessions
    BY <1>12, <1>0 DEF ReadBlock, HasSession
  <2>2. position[s] \in Nat /\ content[s] \in Seq(Clients)
    BY <2>1 DEF TypeOK
  <2>3. position[s] < Len(content[s])
    BY <1>12 DEF ReadBlock
  <2>4. content[s][position[s] + 1] \in Clients
    <3> HIDE DEF s
    <3> QED BY <2>2, <2>3
  <2>5. Append(body[k], content[s][position[s] + 1]) \in Seq(Clients)
    BY <2>4 DEF TypeOK
  <2>6. body' \in [Completions -> Seq(Clients)]
    BY <1>12, <2>5 DEF ReadBlock, TypeOK
  <2>7. position' \in [Sessions -> Nat]
    <3>1. position' = [position EXCEPT ![s] = @ + 1] \/ position' = position
      BY <1>12 DEF ReadBlock
    <3>2. position \in [Sessions -> Nat]
      BY DEF TypeOK
    <3> HIDE DEF s
    <3> QED BY <2>1, <3>1, <3>2
  <2>8. pc' \in [Clients -> Label]
    BY <1>12, <1>0 DEF ReadBlock, Goto, TypeOK
  <2> QED BY <1>12, <2>6, <2>7, <2>8 DEF ReadBlock, TypeOK, cleanupVars, history
<1>13. ASSUME NEW k \in Completions, ReadEnd(k) PROVE TypeOK'
  <2>1. Append(body[k], k) \in Seq(Clients)
    BY <1>0 DEF TypeOK
  <2>2. body' \in [Completions -> Seq(Clients)]
    BY <1>13, <2>1 DEF ReadEnd, TypeOK
  <2>3. pc' \in [Clients -> Label]
    BY <1>13, <1>0 DEF ReadEnd, Goto, TypeOK
  <2> QED BY <1>13, <2>2, <2>3 DEF ReadEnd, TypeOK, sessionVars, cleanupVars, history
<1>14. ASSUME NEW k \in Completions, Discard(k) PROVE TypeOK'
  <2>1. sess[k] \in Sessions
    BY <1>14, <1>0 DEF Discard, HasSession
  <2>2. pc' \in [Clients -> Label]
    BY <1>14, <1>0 DEF Discard, Goto, TypeOK
  <2> QED BY <1>14, <2>1, <2>2, CloseType DEF Discard, TypeOK, cleanupVars, history
<1>15. ASSUME NEW c \in Clients, NEW s \in Sessions, LookupSession(c, s) PROVE TypeOK'
  <2>1. pc' \in [Clients -> Label]
    BY <1>15 DEF LookupSession, Goto, TypeOK
  <2>2. sess' \in [Clients -> Sessions \cup {None}]
    <3>1. sess' = [sess EXCEPT ![c] = s] \/ sess' = sess
      BY <1>15 DEF LookupSession
    <3> QED BY <3>1 DEF TypeOK
  <2> QED BY <1>15, <2>1, <2>2 DEF LookupSession, TypeOK, sessionVars, cleanupVars, history
<1>16. ASSUME NEW c \in Clients, NEW s \in Sessions, TakeSession(c, s) PROVE TypeOK'
  <2>1. pc' \in [Clients -> Label]
    BY <1>16 DEF TakeSession, Goto, TypeOK
  <2>2. sess' \in [Clients -> Sessions \cup {None}]
    <3>1. sess' = [sess EXCEPT ![c] = s] \/ sess' = sess
      BY <1>16 DEF TakeSession
    <3> QED BY <3>1 DEF TypeOK
  <2>3. phase' \in [Sessions -> Phase]
    <3>1. phase' = [phase EXCEPT ![s] = "taken"] \/ phase' = phase
      BY <1>16 DEF TakeSession
    <3> QED BY <3>1 DEF TypeOK
  <2> QED BY <1>16, <2>1, <2>2, <2>3 DEF TakeSession, TypeOK, cleanupVars, history
<1> QED BY <1>1, <1>2, <1>3, <1>4, <1>5, <1>6, <1>7, <1>8, <1>9, <1>10, <1>11, <1>12,
           <1>13, <1>14, <1>15, <1>16 DEF Next, Looks, ChunkEnds, Read

(* A request that is past its lookup keeps the session it found. *)
LEMMA StepSession ==
    ASSUME TypeOK, HasSession, [Next]_vars
    PROVE  HasSession'
<1> DEFINE Busy == {"lock", "copy", "rewind", "reading", "close", "evict"}
<1>0. /\ Chunks \subseteq Clients /\ Completions \subseteq Clients
      /\ pc \in [Clients -> Label] /\ sess \in [Clients -> Sessions \cup {None}]
  BY DEF Clients, TypeOK
<1>1. SUFFICES ASSUME NEW d \in Clients, pc'[d] \in Busy
               PROVE  sess'[d] \in Sessions
  BY DEF HasSession
<1>2. ASSUME sess' = sess,
             pc' = pc \/ \E c \in Clients : pc[c] \in Busy /\ \E l \in Label : Goto(c, l)
      PROVE  sess'[d] \in Sessions
  BY <1>0, <1>1, <1>2 DEF HasSession, Goto
<1>3. CASE UNCHANGED vars
  BY <1>2, <1>3 DEF vars
<1>4. ASSUME NEW s \in Sessions,
             CreateTemp(s) \/ EnterSession(s) \/ Expire(s) \/ RemoveExpired(s) \/ DiscardExpired(s)
      PROVE  sess'[d] \in Sessions
  BY <1>2, <1>4
     DEF CreateTemp, EnterSession, Expire, RemoveExpired, DiscardExpired, clientVars
<1>5. CASE StartSweep \/ EndSweep
  BY <1>2, <1>5 DEF StartSweep, EndSweep, clientVars
<1>6. ASSUME NEW c \in Chunks, LockChunk(c) \/ ChunkEnds(c)
      PROVE  sess'[d] \in Sessions
  BY <1>0, <1>2, <1>6 DEF LockChunk, ChunkEnds, CopyChunk, FailChunk, Label, Ended
<1>7. ASSUME NEW k \in Completions, Rewind(k) \/ Read(k) \/ Discard(k)
      PROVE  sess'[d] \in Sessions
  BY <1>0, <1>2, <1>7 DEF Rewind, Read, ReadBlock, ReadEnd, Discard, Label, Ended
<1>8. ASSUME NEW c \in Clients, NEW s \in Sessions, LookupSession(c, s) \/ TakeSession(c, s)
      PROVE  sess'[d] \in Sessions
  <2>1. CASE d = c
    BY <1>0, <1>1, <1>8, <2>1 DEF LookupSession, TakeSession, Goto
  <2>2. CASE d # c
    <3>1. pc'[d] = pc[d] /\ sess'[d] = sess[d]
      BY <1>0, <1>8, <2>2 DEF LookupSession, TakeSession, Goto
    <3> QED BY <1>1, <3>1 DEF HasSession
  <2> QED BY <2>1, <2>2
<1> QED BY <1>3, <1>4, <1>5, <1>6, <1>7, <1>8 DEF Next, Looks

Ownership == /\ HeldIsTaken
             /\ HolderUnique
             /\ MappedIsOpen
             /\ SweepInMap
             /\ TempFileHasOwner

(* A step that touches neither map, files, sweep nor holders disturbs nothing. *)
LEMMA OwnershipFrame ==
    ASSUME TypeOK, Ownership, UNCHANGED <<phase, isOpen, sweeping, doomed, discarding>>,
           \A k \in Completions, s \in Sessions : Holds(k, s)' <=> Holds(k, s)
    PROVE  Ownership'
<1>1. HeldIsTaken' /\ HolderUnique'
  BY DEF Ownership, HeldIsTaken, HolderUnique
<1>2. MappedIsOpen' /\ SweepInMap'
  BY DEF Ownership, MappedIsOpen, SweepInMap
<1>3. TempFileHasOwner'
  BY DEF Ownership, TempFileHasOwner, TypeOK
<1> QED BY <1>1, <1>2, <1>3 DEF Ownership

(* One step per action; beside those that disturb nothing, the four that move a
   session in or out of the map, and the two that remove a temp file. *)
LEMMA StepOwnership ==
    ASSUME TypeOK, HasSession, Ownership, [Next]_vars
    PROVE  Ownership'
<1>0. /\ Chunks \subseteq Clients /\ Completions \subseteq Clients
      /\ Chunks \cap Completions = {} /\ None \notin Sessions
      /\ pc \in [Clients -> Label] /\ sess \in [Clients -> Sessions \cup {None}]
      /\ phase \in [Sessions -> Phase] /\ isOpen \subseteq Sessions
      /\ doomed \subseteq Sessions /\ discarding \in Sessions \cup {None}
  BY ClientsAssumption, NoneAssumption DEF Clients, TypeOK
<1>1. ASSUME UNCHANGED clientVars
      PROVE  \A k \in Completions, s \in Sessions : Holds(k, s)' <=> Holds(k, s)
  BY <1>1 DEF clientVars, Holds
<1>2. ASSUME NEW c \in Chunks, sess' = sess \/ \E s \in Sessions : sess' = [sess EXCEPT ![c] = s],
             pc' = pc \/ \E l \in Label : Goto(c, l)
      PROVE  \A k \in Completions, s \in Sessions : Holds(k, s)' <=> Holds(k, s)
  <2>1. ASSUME NEW k \in Completions PROVE sess'[k] = sess[k] /\ pc'[k] = pc[k]
    BY <1>0, <1>2, <2>1 DEF Goto
  <2> QED BY <2>1 DEF Holds
<1>3. ASSUME NEW j \in Completions, sess' = sess,
             pc[j] \in {"rewind", "reading", "close", "evict"},
             pc' = pc \/ \E l \in {"rewind", "reading", "close", "evict"} : Goto(j, l)
      PROVE  \A k \in Completions, s \in Sessions : Holds(k, s)' <=> Holds(k, s)
  BY <1>0, <1>3 DEF Goto, Holds
<1>4. CASE UNCHANGED vars
  BY <1>1, <1>4, OwnershipFrame DEF vars, clientVars
<1>5. ASSUME NEW s \in Sessions, Expire(s) PROVE Ownership'
  BY <1>1, <1>5, OwnershipFrame DEF Expire, sessionVars
<1>6. ASSUME NEW c \in Chunks, LockChunk(c) PROVE Ownership'
  BY <1>2, <1>6, OwnershipFrame DEF LockChunk, cleanupVars, Label, Ended
<1>7. ASSUME NEW c \in Chunks, CopyChunk(c) \/ FailChunk(c) PROVE Ownership'
  BY <1>2, <1>7, OwnershipFrame DEF CopyChunk, FailChunk, cleanupVars, Label, Ended
<1>8. ASSUME NEW c \in Clients, NEW s \in Sessions, LookupSession(c, s) PROVE Ownership'
  BY <1>2, <1>8, OwnershipFrame DEF LookupSession, sessionVars, cleanupVars, Label, Ended
<1>9. ASSUME NEW k \in Completions, Rewind(k) PROVE Ownership'
  <2>1. sess[k] \in Sessions
    BY <1>0, <1>9 DEF Rewind, HasSession
  <2>2. sess[k] \in isOpen
    BY <1>9, <2>1 DEF Rewind, Ownership, HeldIsTaken, Holds
  <2> QED BY <1>3, <1>9, <2>2, OwnershipFrame DEF Rewind, cleanupVars
<1>10. ASSUME NEW k \in Completions, ReadBlock(k) \/ ReadEnd(k) PROVE Ownership'
  BY <1>3, <1>10, OwnershipFrame DEF ReadBlock, ReadEnd, sessionVars, cleanupVars
<1>11. ASSUME NEW s \in Sessions, CreateTemp(s) PROVE Ownership'
  <2> USE <1>0, <1>1, <1>11 DEF CreateTemp, cleanupVars
  <2>1. HeldIsTaken' /\ HolderUnique'
    BY DEF Ownership, HeldIsTaken, HolderUnique, Phase
  <2>2. MappedIsOpen' /\ SweepInMap'
    BY DEF Ownership, MappedIsOpen, SweepInMap, Phase
  <2>3. TempFileHasOwner'
    BY DEF Ownership, TempFileHasOwner, Phase
  <2> QED BY <2>1, <2>2, <2>3 DEF Ownership
<1>12. ASSUME NEW s \in Sessions, EnterSession(s) PROVE Ownership'
  <2> USE <1>0, <1>1, <1>12 DEF EnterSession, cleanupVars
  <2>1. HeldIsTaken' /\ HolderUnique'
    BY DEF Ownership, HeldIsTaken, HolderUnique, Phase
  <2>2. MappedIsOpen' /\ SweepInMap'
    BY DEF Ownership, MappedIsOpen, SweepInMap, Phase
  <2>3. TempFileHasOwner'
    BY DEF Ownership, TempFileHasOwner, Phase
  <2> QED BY <2>1, <2>2, <2>3 DEF Ownership
<1>13. CASE StartSweep \/ EndSweep
  <2> USE <1>0, <1>1, <1>13 DEF StartSweep, EndSweep, sessionVars
  <2>1. HeldIsTaken' /\ HolderUnique'
    BY DEF Ownership, HeldIsTaken, HolderUnique
  <2>2. MappedIsOpen' /\ SweepInMap'
    BY DEF Ownership, MappedIsOpen, SweepInMap
  <2>3. TempFileHasOwner'
    BY DEF Ownership, TempFileHasOwner
  <2> QED BY <2>1, <2>2, <2>3 DEF Ownership
<1>14. ASSUME NEW s \in Sessions, RemoveExpired(s) PROVE Ownership'
  <2>0. phase[s] = "inMap" /\ sweeping' /\ discarding' = s
    BY <1>14 DEF RemoveExpired, Ownership, SweepInMap
  <2> USE <1>0, <1>1, <1>14, <2>0 DEF RemoveExpired
  <2>1. HeldIsTaken' /\ HolderUnique'
    BY DEF Ownership, HeldIsTaken, HolderUnique, Phase
  <2>2. MappedIsOpen' /\ SweepInMap'
    BY DEF Ownership, MappedIsOpen, SweepInMap, Phase
  <2>3. TempFileHasOwner'
    BY DEF Ownership, TempFileHasOwner, Phase
  <2> QED BY <2>1, <2>2, <2>3 DEF Ownership
<1>15. ASSUME NEW s \in Sessions, DiscardExpired(s) PROVE Ownership'
  <2>0. phase[s] = "swept" /\ isOpen' = isOpen \ {s}
    BY <1>0, <1>15 DEF DiscardExpired, CloseFile, Ownership, SweepInMap
  <2> USE <1>0, <1>1, <1>15, <2>0 DEF DiscardExpired
  <2>1. HeldIsTaken' /\ HolderUnique'
    BY DEF Ownership, HeldIsTaken, HolderUnique
  <2>2. MappedIsOpen' /\ SweepInMap'
    BY DEF Ownership, MappedIsOpen, SweepInMap
  <2>3. TempFileHasOwner'
    BY DEF Ownership, TempFileHasOwner
  <2> QED BY <2>1, <2>2, <2>3 DEF Ownership
<1>16. ASSUME NEW k \in Clients, NEW s \in Sessions, TakeSession(k, s) PROVE Ownership'
  <2>0. k \in Completions /\ pc[k] = "idle" /\ ~sweeping /\ doomed = {}
    BY <1>16 DEF TakeSession, MapFree, Ownership, SweepInMap
  <2>1. CASE phase[s] # "inMap"
    <3>1. \A h \in Completions, t \in Sessions : Holds(h, t)' <=> Holds(h, t)
      BY <1>0, <1>16, <2>0, <2>1 DEF TakeSession, Goto, Holds
    <3> QED BY <1>16, <2>1, <3>1, OwnershipFrame DEF TakeSession, cleanupVars
  <2>2. CASE phase[s] = "inMap"
    <3>1. /\ phase' = [phase EXCEPT ![s] = "taken"]
          /\ UNCHANGED <<isOpen, sweeping, doomed, discarding>>
          /\ s \in isOpen
      BY <1>16, <2>2 DEF TakeSession, cleanupVars, Ownership, MappedIsOpen
    <3>2. \A h \in Completions, t \in Sessions :
             Holds(h, t)' <=> (h = k /\ t = s) \/ (h # k /\ Holds(h, t))
      BY <1>0, <1>16, <2>0, <2>2 DEF TakeSession, Goto, Holds
    <3>3. \A h \in Completions : ~Holds(h, s) /\ \A t \in Sessions : ~Holds(k, t)
      BY <2>0, <2>2 DEF Ownership, HeldIsTaken, Holds
    <3>4. HeldIsTaken' /\ HolderUnique'
      BY <1>0, <3>1, <3>2, <3>3 DEF Ownership, HeldIsTaken, HolderUnique
    <3>5. MappedIsOpen' /\ SweepInMap'
      BY <1>0, <2>0, <2>2, <3>1 DEF Ownership, MappedIsOpen, SweepInMap
    <3>6. TempFileHasOwner'
      BY <1>0, <2>0, <3>1, <3>2, <3>3 DEF Ownership, TempFileHasOwner
    <3> QED BY <3>4, <3>5, <3>6 DEF Ownership
  <2> QED BY <2>1, <2>2
<1>17. ASSUME NEW k \in Completions, Discard(k) PROVE Ownership'
  <2> DEFINE s == sess[k]
  <2>1. s \in Sessions
    BY <1>0, <1>17 DEF Discard, HasSession
  <2>2. Holds(k, s) /\ phase[s] = "taken"
    BY <1>17, <2>1 DEF Discard, Holds, Ownership, HeldIsTaken
  <2>3. /\ isOpen' = isOpen \ {s}
        /\ UNCHANGED <<phase, sweeping, doomed, discarding>>
    BY <1>17 DEF Discard, CloseFile, cleanupVars
  <2>4. \A h \in Completions, t \in Sessions : Holds(h, t)' <=> h # k /\ Holds(h, t)
    BY <1>0, <1>17 DEF Discard, Goto, Holds
  <2>5. \A h \in Completions, t \in Sessions : Holds(h, t)' => t # s
    BY <2>1, <2>2, <2>4 DEF Ownership, HolderUnique
  <2>6. \A t \in Sessions : Holds(k, t) => t = s
    BY DEF Holds
  <2> HIDE DEF s
  <2>7. HeldIsTaken' /\ HolderUnique'
    BY <2>3, <2>4, <2>5 DEF Ownership, HeldIsTaken, HolderUnique
  <2>8. MappedIsOpen' /\ SweepInMap'
    BY <2>2, <2>3 DEF Ownership, MappedIsOpen, SweepInMap
  <2>9. TempFileHasOwner'
    BY <1>0, <2>3, <2>4, <2>6 DEF Ownership, TempFileHasOwner
  <2> QED BY <2>7, <2>8, <2>9 DEF Ownership
<1> QED BY <1>4, <1>5, <1>6, <1>7, <1>8, <1>9, <1>10, <1>11, <1>12, <1>13, <1>14, <1>15,
           <1>16, <1>17 DEF Next, Looks, ChunkEnds, Read

\* The invariant of the sessions.
LEMMA SessionInductive == Spec => [](TypeOK /\ HasSession /\ Ownership)
<1>1. Init => TypeOK /\ HasSession /\ Ownership
  <2> SUFFICES ASSUME Init PROVE TypeOK /\ HasSession /\ Ownership
    OBVIOUS
  <2>1. \A c \in Clients : pc[c] = "idle"
    BY DEF Init
  <2>2. TypeOK
    <3>1. << >> \in Seq(Clients)
      OBVIOUS
    <3>2. /\ phase \in [Sessions -> Phase] /\ isOpen \subseteq Sessions
          /\ content \in [Sessions -> Seq(Clients)] /\ position \in [Sessions -> Nat]
          /\ offset \in [Sessions -> Nat] /\ mu \in [Sessions -> Chunks \cup {None}]
      BY <3>1 DEF Init, Phase
    <3>3. /\ pc \in [Clients -> Label] /\ sess \in [Clients -> Sessions \cup {None}]
          /\ body \in [Completions -> Seq(Clients)]
          /\ accepted \in [Sessions -> Seq(Clients)]
      BY <3>1 DEF Init, Label
    <3> QED BY <3>2, <3>3 DEF Init, TypeOK
  <2>3. HasSession
    BY <2>1 DEF HasSession
  <2>4. \A k \in Completions, s \in Sessions : ~Holds(k, s)
    BY <2>1 DEF Clients, Holds
  <2>5. Ownership
    BY <2>4 DEF Init, Ownership, HeldIsTaken, HolderUnique, MappedIsOpen, SweepInMap,
                TempFileHasOwner
  <2> QED BY <2>2, <2>3, <2>5
<1>2. TypeOK /\ HasSession /\ Ownership /\ [Next]_vars => (TypeOK /\ HasSession /\ Ownership)'
  BY StepType, StepSession, StepOwnership
<1> QED BY <1>1, <1>2, PTL DEF Spec

(* Every variable keeps its type, however many requests share a session. *)
THEOREM TypeCorrect == Spec => []TypeOK
BY SessionInductive, PTL

(* From Rewind to Discard a completion is alone with an open temp file: no second
   CompleteBlobUpload, late chunk or cleanup sweep closes it under PutBlob. *)
THEOREM FileOwned == Spec => []CompletionOwnsFile
<1>1. Ownership => CompletionOwnsFile
  BY DEF Ownership, HeldIsTaken, HolderUnique, CompletionOwnsFile
<1> QED BY <1>1, SessionInductive, PTL

(* No interleaving of StartBlobUpload, CompleteBlobUpload and the cleanup leaves a
   temp file that nobody is going to remove. *)
THEOREM NoOrphanFile == Spec => []TempFileHasOwner
<1>1. Ownership => TempFileHasOwner
  BY DEF Ownership
<1> QED BY <1>1, SessionInductive, PTL

(***************************************************************************)
(* What a session collects.  As long as it is in the map, and no chunk of  *)
(* it failed, the temp file is what was acknowledged, with the offset at   *)
(* its end (FileIsAccepted); a completion that holds it has read it as far *)
(* as the offset has come, or to the end (ReadSoFar); and what it stored   *)
(* stays the whole, since a chunk can only be acknowledged too late now    *)
(* (StoredIsAll).                                                          *)
(***************************************************************************)
Steady(s) == s \notin disturbed
FileIsAccepted ==
    \A s \in Sessions : Steady(s) /\ phase[s] \in {"new", "created", "inMap"} =>
        content[s] = accepted[s] /\ position[s] = Len(content[s])
NothingRead == \A k \in Completions : pc[k] \in {"idle", "rewind"} => body[k] = << >>
ReadSoFar ==
    \A k \in Completions, s \in Sessions : Steady(s) /\ Holds(k, s) =>
        /\ content[s] = accepted[s]
        /\ pc[k] = "reading" => /\ position[s] = Len(body[k]) /\ position[s] <= Len(accepted[s])
                                /\ \A i \in 1 .. Len(body[k]) : body[k][i] = accepted[s][i]
        /\ pc[k] = "close" => body[k] = Append(accepted[s], k)
StoredIsAll ==
    \A k \in Completions : pc[k] = "stored" =>
        /\ sess[k] \in Sessions
        /\ Steady(sess[k]) => phase[sess[k]] = "taken" /\ body[k] = Append(accepted[sess[k]], k)

Collected == FileIsAccepted /\ NothingRead /\ ReadSoFar /\ StoredIsAll

(* A step that writes and reads no temp file, and takes no session for a completion. *)
LEMMA CollectedFrame ==
    ASSUME Collected, UNCHANGED <<content, position, accepted, disturbed, body>>,
           \A k \in Completions : pc'[k] = pc[k] /\ sess'[k] = sess[k],
           \A s \in Sessions :
               /\ phase'[s] \in {"new", "created", "inMap"} =>
                      phase[s] \in {"new", "created", "inMap"}
               /\ phase[s] = "taken" => phase'[s] = "taken"
    PROVE  Collected'
<1>1. FileIsAccepted'
  BY DEF Collected, FileIsAccepted, Steady
<1>2. NothingRead'
  BY DEF Collected, NothingRead
<1>3. ReadSoFar'
  BY DEF Collected, ReadSoFar, Steady, Holds
<1>4. StoredIsAll'
  BY DEF Collected, StoredIsAll, Steady
<1> QED BY <1>1, <1>2, <1>3, <1>4 DEF Collected

(* Completions that go on holding what they hold, or give up, have read what they had. *)
LEMMA ReadSoFarFrame ==
    ASSUME ReadSoFar,
           \A k \in Completions, s \in Sessions : s \notin disturbed' /\ Holds(k, s)' =>
               /\ s \notin disturbed /\ Holds(k, s)
               /\ pc'[k] = pc[k] \/ pc'[k] = "evict"
               /\ content'[s] = content[s] /\ position'[s] = position[s]
               /\ accepted'[s] = accepted[s] /\ body'[k] = body[k]
    PROVE  ReadSoFar'
BY DEF ReadSoFar, Steady

(* A block at the end of a file. *)
LEMMA WriteAtEnd ==
    ASSUME TypeOK, NEW s \in Sessions, NEW b, WriteBlock(s, b), position[s] = Len(content[s])
    PROVE  content'[s] = Append(content[s], b) /\ position'[s] = Len(content'[s])
<1>1. content[s] \in Seq(Clients) /\ position[s] \in Nat
  BY DEF TypeOK
<1>2. content'[s] = Append(content[s], b) /\ position'[s] = position[s] + 1
  BY DEF WriteBlock, TypeOK
<1>3. Len(Append(content[s], b)) = Len(content[s]) + 1
  BY <1>1
<1> QED BY <1>2, <1>3

(* Each step keeps what was acknowledged together. *)
LEMMA StepCollected ==
    ASSUME TypeOK, HasSession, Ownership, Collected, [Next]_vars
    PROVE  Collected'
<1>0. /\ Chunks \subseteq Clients /\ Completions \subseteq Clients
      /\ Chunks \cap Completions = {} /\ None \notin Sessions
      /\ pc \in [Clients -> Label] /\ sess \in [Clients -> Sessions \cup {None}]
      /\ phase \in [Sessions -> Phase] /\ accepted \in [Sessions -> Seq(Clients)]
      /\ content \in [Sessions -> Seq(Clients)] /\ position \in [Sessions -> Nat]
      /\ body \in [Completions -> Seq(Clients)]
  BY ClientsAssumption, NoneAssumption DEF Clients, TypeOK
<1>1. CASE UNCHANGED vars
  BY <1>1, CollectedFrame DEF vars
<1>2. ASSUME NEW s \in Sessions, CreateTemp(s) \/ EnterSession(s) \/ Expire(s) PROVE Collected'
  BY <1>0, <1>2, CollectedFrame
     DEF CreateTemp, EnterSession, Expire, sessionVars, clientVars, history
<1>3. ASSUME NEW s \in Sessions, RemoveExpired(s) PROVE Collected'
  <2>1. phase[s] = "inMap" /\ phase' = [phase EXCEPT ![s] = "swept"]
    BY <1>3 DEF RemoveExpired, Ownership, SweepInMap
  <2> QED BY <1>0, <1>3, <2>1, CollectedFrame DEF RemoveExpired, clientVars, history
<1>4. CASE StartSweep \/ EndSweep
  BY <1>4, CollectedFrame DEF StartSweep, EndSweep, sessionVars, clientVars, history
<1>5. ASSUME NEW c \in Chunks, LockChunk(c) PROVE Collected'
  <2>1. \A k \in Completions : pc'[k] = pc[k]
    BY <1>0, <1>5 DEF LockChunk, Goto
  <2> QED BY <1>5, <2>1, CollectedFrame DEF LockChunk, history
<1>6. ASSUME NEW c \in Clients, NEW s \in Sessions, LookupSession(c, s) PROVE Collected'
  <2>1. \A k \in Completions : pc'[k] = pc[k] /\ sess'[k] = sess[k]
    BY <1>0, <1>6 DEF LookupSession, Goto
  <2> QED BY <1>6, <2>1, CollectedFrame DEF LookupSession, sessionVars, history
<1>7. ASSUME NEW s \in Sessions, DiscardExpired(s) PROVE Collected'
  <2>1. /\ phase[s] = "swept"
        /\ content' = [content EXCEPT ![s] = << >>] /\ position' = [position EXCEPT ![s] = 0]
        /\ UNCHANGED <<phase, pc, sess, body, accepted, disturbed>>
    BY <1>0, <1>7
       DEF DiscardExpired, CloseFile, Ownership, SweepInMap, clientVars, history
  <2>2. \A k \in Completions : ~Holds(k, s)
    BY <2>1 DEF Ownership, HeldIsTaken
  <2>3. FileIsAccepted' /\ NothingRead'
    BY <1>0, <2>1 DEF Collected, FileIsAccepted, NothingRead, Steady
  <2>4. ReadSoFar'
    <3>1. \A k \in Completions, t \in Sessions : Holds(k, t)' => Holds(k, t) /\ t # s
      BY <2>1, <2>2 DEF Holds
    <3> QED BY <1>0, <2>1, <3>1, ReadSoFarFrame DEF Collected
  <2>5. StoredIsAll'
    BY <2>1 DEF Collected, StoredIsAll, Steady
  <2> QED BY <2>3, <2>4, <2>5 DEF Collected
<1>8. ASSUME NEW c \in Chunks, CopyChunk(c) \/ FailChunk(c) PROVE Collected'
  <2> DEFINE s == sess[c]
  <2>1. s \in Sessions
    BY <1>0, <1>8 DEF CopyChunk, FailChunk, HasSession
  <2>2. /\ UNCHANGED <<phase, sess, body>>
        /\ \A k \in Completions : pc'[k] = pc[k]
    BY <1>0, <1>8 DEF CopyChunk, FailChunk, Goto, cleanupVars
  <2>3. /\ disturbed \subseteq disturbed'
        /\ \A t \in Sessions \ {s} :
               content'[t] = content[t] /\ position'[t] = position[t] /\ accepted'[t] = accepted[t]
    BY <1>0, <1>8 DEF CopyChunk, FailChunk, WriteBlock
  <2>4. s \notin disturbed' =>
            /\ phase[s] = "inMap" /\ WriteBlock(s, c)
            /\ accepted' = [accepted EXCEPT ![s] = Append(@, c)]
    BY <1>8 DEF CopyChunk, FailChunk
  <2> HIDE DEF s
  <2>5. FileIsAccepted'
    <3> SUFFICES ASSUME NEW t \in Sessions, t \notin disturbed',
                        phase[t] \in {"new", "created", "inMap"}
                 PROVE  content'[t] = accepted'[t] /\ position'[t] = Len(content'[t])
      BY <2>2 DEF FileIsAccepted, Steady
    <3>1. content[t] = accepted[t] /\ position[t] = Len(content[t])
      BY <2>3 DEF Collected, FileIsAccepted, Steady
    <3>2. CASE t = s
      <4>1. content'[s] = Append(content[s], c) /\ position'[s] = Len(content'[s])
        BY <2>1, <2>4, <3>1, <3>2, WriteAtEnd
      <4>2. accepted'[s] = Append(accepted[s], c)
        BY <1>0, <2>1, <2>4, <3>2
      <4> QED BY <3>1, <3>2, <4>1, <4>2
    <3>3. CASE t # s
      BY <2>3, <3>1, <3>3
    <3> QED BY <3>2, <3>3
  <2>6. NothingRead'
    BY <2>2 DEF Collected, NothingRead
  <2>7. ReadSoFar'
    <3> SUFFICES ASSUME NEW k \in Completions, NEW t \in Sessions, t \notin disturbed', Holds(k, t)'
                 PROVE  /\ content'[t] = accepted'[t]
                        /\ pc'[k] = "reading" =>
                              /\ position'[t] = Len(body'[k]) /\ position'[t] <= Len(accepted'[t])
                              /\ \A i \in 1 .. Len(body'[k]) : body'[k][i] = accepted'[t][i]
                        /\ pc'[k] = "close" => body'[k] = Append(accepted'[t], k)
      BY DEF ReadSoFar, Steady
    <3>1. Holds(k, t) /\ t \notin disturbed
      BY <2>2, <2>3 DEF Holds
    <3>2. t # s
      BY <2>1, <2>4, <3>1 DEF Ownership, HeldIsTaken
    <3> QED BY <2>2, <2>3, <3>1, <3>2 DEF Collected, ReadSoFar, Steady
  <2>8. StoredIsAll'
    BY <2>1, <2>2, <2>3, <2>4 DEF Collected, StoredIsAll, Steady
  <2> QED BY <2>5, <2>6, <2>7, <2>8 DEF Collected
<1>9. ASSUME NEW k \in Clients, NEW s \in Sessions, TakeSession(k, s) PROVE Collected'
  <2>1. /\ k \in Completions /\ pc[k] = "idle"
        /\ UNCHANGED <<content, position, body, accepted, disturbed>>
    BY <1>9 DEF TakeSession, history
  <2>2. CASE phase' = phase /\ sess' = sess /\ pc' = [pc EXCEPT ![k] = "unknown"]
    <3>1. FileIsAccepted' /\ NothingRead'
      BY <1>0, <2>1, <2>2 DEF Collected, FileIsAccepted, NothingRead, Steady
    <3>2. \A j \in Completions, t \in Sessions : Holds(j, t)' => Holds(j, t) /\ pc'[j] = pc[j]
      BY <1>0, <2>1, <2>2 DEF Holds
    <3>3. ReadSoFar'
      BY <2>1, <3>2, ReadSoFarFrame DEF Collected
    <3>4. StoredIsAll'
      BY <1>0, <2>1, <2>2 DEF Collected, StoredIsAll, Steady
    <3> QED BY <3>1, <3>3, <3>4 DEF Collected
  <2>3. CASE /\ phase[s] = "inMap" /\ phase' = [phase EXCEPT ![s] = "taken"]
             /\ sess' = [sess EXCEPT ![k] = s]
             /\ pc' = [pc EXCEPT ![k] = "evict"] \/ pc' = [pc EXCEPT ![k] = "rewind"]
    <3>1. FileIsAccepted' /\ NothingRead'
      BY <1>0, <2>1, <2>3 DEF Collected, FileIsAccepted, NothingRead, Steady
    <3>2. ReadSoFar'
      <4>1. \A j \in Completions, t \in Sessions : Holds(j, t)' =>
                (j = k /\ t = s) \/ (j # k /\ Holds(j, t) /\ pc'[j] = pc[j])
        <5>1. sess'[k] = s /\ k \in Clients
          BY <1>0, <2>1, <2>3
        <5>2. \A j \in Completions \ {k} : sess'[j] = sess[j] /\ pc'[j] = pc[j]
          BY <1>0, <2>1, <2>3
        <5> QED BY <5>1, <5>2 DEF Holds
      <4>2. pc'[k] \notin {"reading", "close"}
        BY <1>0, <2>1, <2>3
      <4>3. s \notin disturbed => content[s] = accepted[s]
        BY <2>3 DEF Collected, FileIsAccepted, Steady
      <4> QED BY <2>1, <4>1, <4>2, <4>3 DEF Collected, ReadSoFar, Steady
    <3>3. StoredIsAll'
      BY <1>0, <2>1, <2>3 DEF Collected, StoredIsAll, Steady
    <3> QED BY <3>1, <3>2, <3>3 DEF Collected
  <2> QED BY <1>9, <2>2, <2>3 DEF TakeSession, Goto
<1>10. ASSUME NEW k \in Completions, Rewind(k) PROVE Collected'
  <2> DEFINE s == sess[k]
  <2>1. s \in Sessions /\ Holds(k, s) /\ phase[s] = "taken"
    BY <1>0, <1>10 DEF Rewind, HasSession, Holds, Ownership, HeldIsTaken
  <2>2. /\ position' = [position EXCEPT ![s] = 0] /\ body[k] = << >>
        /\ pc' = [pc EXCEPT ![k] = "reading"] \/ pc' = [pc EXCEPT ![k] = "closed"]
        /\ UNCHANGED <<phase, content, sess, body, accepted, disturbed>>
    BY <1>10 DEF Rewind, Goto, history, Collected, NothingRead
  <2>3. \A j \in Completions \ {k} : ~Holds(j, s)
    BY <2>1 DEF Ownership, HolderUnique
  <2> HIDE DEF s
  <2>4. FileIsAccepted' /\ NothingRead'
    BY <1>0, <2>1, <2>2 DEF Collected, FileIsAccepted, NothingRead, Steady
  <2>5. ReadSoFar'
    <3> SUFFICES ASSUME NEW j \in Completions, NEW t \in Sessions, t \notin disturbed, Holds(j, t)'
                 PROVE  /\ content[t] = accepted[t]
                        /\ pc'[j] = "reading" =>
                              /\ position'[t] = Len(body[j]) /\ position'[t] <= Len(accepted[t])
                              /\ \A i \in 1 .. Len(body[j]) : body[j][i] = accepted[t][i]
                        /\ pc'[j] = "close" => body[j] = Append(accepted[t], j)
      BY <2>2 DEF ReadSoFar, Steady
    <3>1. CASE j = k
      <4>1. t = s /\ content[t] = accepted[t]
        BY <1>0, <2>1, <2>2, <3>1 DEF Holds, Collected, ReadSoFar, Steady
      <4>2. position'[t] = 0 /\ Len(body[j]) = 0 /\ Len(accepted[t]) \in Nat
        BY <1>0, <2>1, <2>2, <3>1, <4>1
      <4>3. pc'[j] # "close"
        BY <1>0, <2>2, <3>1
      <4> QED BY <4>1, <4>2, <4>3
    <3>2. CASE j # k
      <4>1. Holds(j, t) /\ pc'[j] = pc[j] /\ t # s
        BY <1>0, <2>2, <2>3, <3>2 DEF Holds
      <4> QED BY <1>0, <2>2, <4>1 DEF Collected, ReadSoFar, Steady
    <3> QED BY <3>1, <3>2
  <2>6. StoredIsAll'
    BY <1>0, <2>2 DEF Collected, StoredIsAll, Steady
  <2> QED BY <2>4, <2>5, <2>6 DEF Collected
<1>11. ASSUME NEW k \in Completions, ReadBlock(k) PROVE Collected'
  <2> DEFINE s == sess[k]
  <2>1. s \in Sessions /\ Holds(k, s) /\ phase[s] = "taken" /\ pc[k] = "reading"
    BY <1>0, <1>11 DEF ReadBlock, HasSession, Holds, Ownership, HeldIsTaken
  <2>2. /\ UNCHANGED <<phase, content, sess, accepted, disturbed>>
        /\ position[s] < Len(content[s])
    BY <1>11 DEF ReadBlock, history
  <2>3. \A j \in Completions \ {k} : ~Holds(j, s)
    BY <2>1 DEF Ownership, HolderUnique
  <2>4. CASE /\ body' = [body EXCEPT ![k] = Append(@, content[s][position[s] + 1])]
             /\ position' = [position EXCEPT ![s] = @ + 1]
             /\ pc' = pc
    <3> HIDE DEF s
    <3>1. FileIsAccepted' /\ NothingRead'
      BY <1>0, <2>1, <2>2, <2>4 DEF Collected, FileIsAccepted, NothingRead, Steady
    <3>2. ReadSoFar'
      <4> SUFFICES ASSUME NEW j \in Completions, NEW t \in Sessions, t \notin disturbed, Holds(j, t)
                   PROVE  /\ content[t] = accepted[t]
                          /\ pc[j] = "reading" =>
                                /\ position'[t] = Len(body'[j])
                                /\ position'[t] <= Len(accepted[t])
                                /\ \A i \in 1 .. Len(body'[j]) : body'[j][i] = accepted[t][i]
                          /\ pc[j] = "close" => body'[j] = Append(accepted[t], j)
        BY <2>2, <2>4 DEF ReadSoFar, Steady, Holds
      <4>1. CASE j = k
        <5>1. /\ t = s /\ content[s] = accepted[s] /\ position[s] = Len(body[k])
              /\ \A i \in 1 .. Len(body[k]) : body[k][i] = accepted[s][i]
          BY <2>1, <4>1 DEF Holds, Collected, ReadSoFar, Steady
        <5>2. body'[k] = Append(body[k], accepted[s][position[s] + 1])
          BY <1>0, <2>4, <5>1
        <5>3. /\ body[k] \in Seq(Clients) /\ accepted[s] \in Seq(Clients) /\ position[s] \in Nat
              /\ position[s] < Len(accepted[s])
          BY <1>0, <2>1, <2>2, <5>1
        <5>4. position'[s] = position[s] + 1
          BY <1>0, <2>1, <2>4
        <5>5. Len(body'[k]) = Len(body[k]) + 1
          BY <5>2, <5>3
        <5>6. \A i \in 1 .. Len(body'[k]) : body'[k][i] = accepted[s][i]
          BY <5>1, <5>2, <5>3, <5>5
        <5> QED BY <2>1, <4>1, <5>1, <5>3, <5>4, <5>5, <5>6
      <4>2. CASE j # k
        <5>1. t # s
          BY <2>3, <4>2
        <5>2. body'[j] = body[j] /\ position'[t] = position[t]
          BY <1>0, <2>4, <4>2, <5>1
        <5> QED BY <5>2 DEF Collected, ReadSoFar, Steady
      <4> QED BY <4>1, <4>2
    <3>3. StoredIsAll'
      BY <1>0, <2>1, <2>2, <2>4 DEF Collected, StoredIsAll, Steady
    <3> QED BY <3>1, <3>2, <3>3 DEF Collected
  <2>5. CASE UNCHANGED <<body, position>> /\ pc' = [pc EXCEPT ![k] = "evict"]
    <3>1. FileIsAccepted' /\ NothingRead'
      BY <1>0, <2>2, <2>5 DEF Collected, FileIsAccepted, NothingRead, Steady
    <3>2. \A j \in Completions, t \in Sessions :
              Holds(j, t)' => Holds(j, t) /\ (pc'[j] = pc[j] \/ pc'[j] = "evict")
      BY <1>0, <2>1, <2>2, <2>5 DEF Holds
    <3>3. ReadSoFar'
      BY <2>2, <2>5, <3>2, ReadSoFarFrame DEF Collected
    <3>4. StoredIsAll'
      BY <1>0, <2>1, <2>2, <2>5 DEF Collected, StoredIsAll, Steady
    <3> QED BY <3>1, <3>3, <3>4 DEF Collected
  <2> QED BY <1>11, <2>4, <2>5 DEF ReadBlock, Goto
<1>12. ASSUME NEW k \in Completions, ReadEnd(k) PROVE Collected'
  <2> DEFINE s == sess[k]
  <2>1. s \in Sessions /\ Holds(k, s) /\ pc[k] = "reading"
    BY <1>0, <1>12 DEF ReadEnd, HasSession, Holds
  <2>2. /\ UNCHANGED <<phase, content, position, sess, accepted, disturbed>>
        /\ position[s] = Len(content[s])
        /\ body' = [body EXCEPT ![k] = Append(@, k)]
        /\ pc' = [pc EXCEPT ![k] = "close"] \/ pc' = [pc EXCEPT ![k] = "evict"]
    BY <1>12 DEF ReadEnd, Goto, sessionVars, history
  <2>3. s \notin disturbed => content[s] = accepted[s] /\ body[k] = accepted[s]
    <3> SUFFICES ASSUME s \notin disturbed
                 PROVE  content[s] = accepted[s] /\ body[k] = accepted[s]
      OBVIOUS
    <3>1. /\ content[s] = accepted[s] /\ position[s] = Len(body[k])
          /\ \A i \in 1 .. Len(body[k]) : body[k][i] = accepted[s][i]
      BY <2>1 DEF Collected, ReadSoFar, Steady
    <3>2. body[k] \in Seq(Clients) /\ accepted[s] \in Seq(Clients)
      BY <1>0, <2>1
    <3>3. Len(body[k]) = Len(accepted[s])
      BY <2>2, <3>1
    <3> HIDE DEF s
    <3> QED BY <3>1, <3>2, <3>3
  <2> HIDE DEF s
  <2>4. FileIsAccepted' /\ NothingRead'
    BY <1>0, <2>2 DEF Collected, FileIsAccepted, NothingRead, Steady
  <2>5. ReadSoFar'
    <3> SUFFICES ASSUME NEW j \in Completions, NEW t \in Sessions, t \notin disturbed, Holds(j, t)'
                 PROVE  /\ content[t] = accepted[t]
                        /\ pc'[j] = "reading" =>
                              /\ position[t] = Len(body'[j]) /\ position[t] <= Len(accepted[t])
                              /\ \A i \in 1 .. Len(body'[j]) : body'[j][i] = accepted[t][i]
                        /\ pc'[j] = "close" => body'[j] = Append(accepted[t], j)
      BY <2>2 DEF ReadSoFar, Steady
    <3>1. CASE j = k
      <4>1. t = s /\ pc'[k] # "reading"
        BY <1>0, <2>1, <2>2, <3>1 DEF Holds
      <4>2. body'[k] = Append(body[k], k)
        BY <1>0, <2>2
      <4> QED BY <2>3, <3>1, <4>1, <4>2
    <3>2. CASE j # k
      <4>1. Holds(j, t) /\ pc'[j] = pc[j] /\ body'[j] = body[j]
        BY <1>0, <2>2, <3>2 DEF Holds
      <4> QED BY <4>1 DEF Collected, ReadSoFar, Steady
    <3> QED BY <3>1, <3>2
  <2>6. StoredIsAll'
    BY <1>0, <2>1, <2>2 DEF Collected, StoredIsAll, Steady
  <2> QED BY <2>4, <2>5, <2>6 DEF Collected
<1>13. ASSUME NEW k \in Completions, Discard(k) PROVE Collected'
  <2> DEFINE s == sess[k]
  <2>1. s \in Sessions /\ Holds(k, s) /\ phase[s] = "taken"
    BY <1>0, <1>13 DEF Discard, HasSession, Holds, Ownership, HeldIsTaken
  <2>2. /\ content' = [content EXCEPT ![s] = << >>] /\ position' = [position EXCEPT ![s] = 0]
        /\ UNCHANGED <<phase, sess, body, accepted, disturbed>>
        /\ \/ pc[k] = "close" /\ pc' = [pc EXCEPT ![k] = "stored"]
           \/ pc' = [pc EXCEPT ![k] = "mismatch"] \/ pc' = [pc EXCEPT ![k] = "failed"]
    BY <1>13 DEF Discard, CloseFile, Goto, history
  <2>3. \A j \in Completions \ {k} : ~Holds(j, s)
    BY <2>1 DEF Ownership, HolderUnique
  <2>4. sess[k] = s
    OBVIOUS
  <2> HIDE DEF s
  <2>5. FileIsAccepted' /\ NothingRead'
    BY <1>0, <2>1, <2>2 DEF Collected, FileIsAccepted, NothingRead, Steady
  <2>6. ReadSoFar'
    <3>1. \A j \in Completions, t \in Sessions :
              Holds(j, t)' => Holds(j, t) /\ t # s /\ pc'[j] = pc[j]
      BY <1>0, <2>2, <2>3 DEF Holds
    <3> QED BY <1>0, <2>1, <2>2, <3>1, ReadSoFarFrame DEF Collected
  <2>7. StoredIsAll'
    <3>1. pc[k] = "close" /\ s \notin disturbed => body[k] = Append(accepted[s], k)
      BY <2>1 DEF Collected, ReadSoFar, Steady
    <3> QED BY <1>0, <2>1, <2>2, <2>4, <3>1 DEF Collected, StoredIsAll, Steady
  <2> QED BY <2>5, <2>6, <2>7 DEF Collected
<1> QED BY <1>1, <1>2, <1>3, <1>4, <1>5, <1>6, <1>7, <1>8, <1>9, <1>10, <1>11, <1>12, <1>13
        DEF Next, Looks, ChunkEnds, Read

\* What the sessions collect, at every moment.
LEMMA CollectedInductive == Spec => []Collected
<1>1. Init => Collected
  <2>1. Init => FileIsAccepted /\ NothingRead
    BY DEF Init, FileIsAccepted, NothingRead, Clients
  <2>2. Init => ReadSoFar /\ StoredIsAll
    BY DEF Init, ReadSoFar, StoredIsAll, Holds, Clients
  <2> QED BY <2>1, <2>2 DEF Collected
<1>2. TypeOK /\ HasSession /\ Ownership /\ Collected /\ [Next]_vars => Collected'
  BY StepCollected
<1> QED BY <1>1, <1>2, SessionInductive, PTL DEF Spec

(* However many chunks, completions and sweeps meet in a session, what it stores is
   every acknowledged chunk once and in order, unless one failed or came too late. *)
THEOREM UploadsIntact == Spec => []UploadIntact
<1>1. Collected => UploadIntact
  BY DEF Collected, StoredIsAll, Steady, UploadIntact
<1> QED BY <1>1, CollectedInductive, PTL

(***************************************************************************)
(* The sessions keep what BlobUpload promises: the step that changes the   *)
(* map, acknowledges a chunk or answers a request is the one that takes    *)
(* effect there, and every other step changes nothing of what it sees.     *)
(***************************************************************************)

RequestsFit ==
    /\ \A c \in Strangers : pc[c] \in {"idle", "unknown", "mismatch", "evict"}
    /\ \A c \in Clients : sess[c] # None => phase[sess[c]] \in {"inMap", "taken", "swept"}
    /\ \A k \in Completions : pc[k] = "idle" => sess[k] = None

\* A session that has been in the map was so before any request found it.
LEMMA StepRequests ==
    ASSUME TypeOK, HasSession, RequestsFit, [Next]_vars
    PROVE  RequestsFit'
<1>0. /\ Chunks \subseteq Clients /\ Completions \subseteq Clients /\ Strangers \subseteq Clients
      /\ Chunks \cap Completions = {} /\ None \notin Sessions
      /\ pc \in [Clients -> Label] /\ sess \in [Clients -> Sessions \cup {None}]
      /\ phase \in [Sessions -> Phase]
  BY ClientsAssumption, NoneAssumption DEF Clients, TypeOK
<1>1. ASSUME sess' = sess, pc' = pc,
             \A s \in Sessions : phase[s] \in {"inMap", "taken", "swept"} =>
                                     phase'[s] \in {"inMap", "taken", "swept"}
      PROVE  RequestsFit'
  BY <1>0, <1>1 DEF RequestsFit
<1>2. ASSUME NEW c \in Clients, sess' = sess, phase' = phase, pc[c] # "idle",
             pc[c] \in {"idle", "unknown", "mismatch", "evict"} => pc[c] = "evict",
             pc' = pc \/ \E l \in Label \ {"idle"} :
                             Goto(c, l) /\ (pc[c] = "evict" /\ c \in Strangers => l = "mismatch")
      PROVE  RequestsFit'
  <2>1. \A d \in Strangers : pc'[d] \in {"idle", "unknown", "mismatch", "evict"}
    BY <1>0, <1>2 DEF RequestsFit, Goto
  <2>2. \A k \in Completions : pc'[k] = "idle" => pc[k] = "idle"
    BY <1>0, <1>2 DEF Goto
  <2> QED BY <1>2, <2>1, <2>2 DEF RequestsFit
<1>3. CASE UNCHANGED vars
  BY <1>1, <1>3 DEF vars
<1>4. ASSUME NEW s \in Sessions, CreateTemp(s) \/ EnterSession(s) PROVE RequestsFit'
  BY <1>0, <1>1, <1>4 DEF CreateTemp, EnterSession, clientVars
<1>5. ASSUME NEW s \in Sessions, Expire(s) \/ DiscardExpired(s) PROVE RequestsFit'
  BY <1>1, <1>5 DEF Expire, DiscardExpired, sessionVars, clientVars
<1>6. ASSUME NEW s \in Sessions, RemoveExpired(s) PROVE RequestsFit'
  BY <1>0, <1>1, <1>6 DEF RemoveExpired, clientVars
<1>7. CASE StartSweep \/ EndSweep
  BY <1>1, <1>7 DEF StartSweep, EndSweep, sessionVars, clientVars
<1>8. ASSUME NEW c \in Chunks, LockChunk(c) PROVE RequestsFit'
  BY <1>0, <1>2, <1>8 DEF LockChunk, Label, Ended
<1>9. ASSUME NEW c \in Chunks, CopyChunk(c) \/ FailChunk(c) PROVE RequestsFit'
  BY <1>0, <1>2, <1>9 DEF CopyChunk, FailChunk, Label, Ended
<1>10. ASSUME NEW k \in Completions, Rewind(k) PROVE RequestsFit'
  BY <1>0, <1>2, <1>10 DEF Rewind, Label, Ended
<1>11. ASSUME NEW k \in Completions, ReadBlock(k) \/ ReadEnd(k) PROVE RequestsFit'
  BY <1>0, <1>2, <1>11 DEF ReadBlock, ReadEnd, sessionVars, Label, Ended
<1>12. ASSUME NEW k \in Completions, Discard(k) PROVE RequestsFit'
  <2>1. pc[k] = "close" => k \notin Strangers
    BY DEF RequestsFit
  <2> QED BY <1>0, <1>2, <1>12, <2>1 DEF Discard, Label, Ended
<1>13. ASSUME NEW c \in Clients, NEW s \in Sessions, LookupSession(c, s) PROVE RequestsFit'
  <2>1. /\ c \in Chunks /\ phase' = phase
        /\ sess' = sess \/ (phase[s] = "inMap" /\ sess' = [sess EXCEPT ![c] = s])
        /\ \E l \in {"lock", "mismatch", "unknown"} :
               Goto(c, l) /\ (l = "lock" => c \notin Strangers)
    BY <1>13 DEF LookupSession, sessionVars
  <2>2. \A d \in Strangers : pc'[d] \in {"idle", "unknown", "mismatch", "evict"}
    BY <1>0, <2>1 DEF RequestsFit, Goto
  <2>3. \A d \in Clients : sess'[d] # None => phase[sess'[d]] \in {"inMap", "taken", "swept"}
    BY <1>0, <2>1 DEF RequestsFit
  <2>4. \A k \in Completions : pc'[k] = pc[k] /\ sess'[k] = sess[k]
    BY <1>0, <2>1 DEF Goto
  <2> QED BY <2>1, <2>2, <2>3, <2>4 DEF RequestsFit
<1>14. ASSUME NEW k \in Clients, NEW s \in Sessions, TakeSession(k, s) PROVE RequestsFit'
  <2>1. /\ pc[k] = "idle" /\ k \in Completions
        /\ \/ sess' = sess /\ phase' = phase
           \/ sess' = [sess EXCEPT ![k] = s] /\ phase' = [phase EXCEPT ![s] = "taken"]
        /\ \E l \in {"evict", "rewind", "unknown"} :
               Goto(k, l) /\ (l = "rewind" => k \notin Strangers)
    BY <1>14 DEF TakeSession
  <2>2. \A d \in Strangers : pc'[d] \in {"idle", "unknown", "mismatch", "evict"}
    BY <1>0, <2>1 DEF RequestsFit, Goto
  <2>3. \A d \in Clients : sess'[d] # None => phase'[sess'[d]] \in {"inMap", "taken", "swept"}
    BY <1>0, <2>1 DEF RequestsFit
  <2>4. \A j \in Completions : pc'[j] = "idle" => sess'[j] = None
    BY <1>0, <2>1 DEF RequestsFit, Goto
  <2> QED BY <2>2, <2>3, <2>4 DEF RequestsFit
<1> QED BY <1>3, <1>4, <1>5, <1>6, <1>7, <1>8, <1>9, <1>10, <1>11, <1>12, <1>13, <1>14
        DEF Next, Looks, ChunkEnds, Read

\* What BlobUpload sees of where a session stands.
LEMMA Stands ==
    ASSUME TypeOK, NEW s \in Sessions
    PROVE  /\ States[s] = "new" <=> phase[s] \in {"new", "created"}
           /\ States[s] = "open" <=> phase[s] = "inMap"
           /\ States[s] = "ended" <=> phase[s] \in {"taken", "swept"}
<1>1. phase[s] \in Phase
  BY DEF TypeOK
<1> QED BY <1>1 DEF States, State, Phase

\* A step that moves one session leaves the others where they stand.
LEMMA StandMoves ==
    ASSUME TypeOK, NEW s \in Sessions, NEW p \in Phase, phase' = [phase EXCEPT ![s] = p]
    PROVE  /\ p = "created" => States' = [States EXCEPT ![s] = "new"]
           /\ p = "inMap" => States' = [States EXCEPT ![s] = "open"]
           /\ p \in {"taken", "swept"} => States' = [States EXCEPT ![s] = "ended"]
<1>1. phase'[s] = p /\ \A t \in Sessions \ {s} : phase'[t] = phase[t]
  BY DEF TypeOK
<1>2. \A t \in Sessions \ {s} : State(t)' = State(t)
  BY <1>1 DEF State
<1>3. ASSUME NEW x, State(s)' = x PROVE States' = [States EXCEPT ![s] = x]
  <2>1. States' = [t \in Sessions |-> IF t = s THEN x ELSE State(t)]
    BY <1>2, <1>3 DEF States
  <2> QED BY <2>1 DEF States
<1>4. /\ p = "created" => State(s)' = "new"
      /\ p = "inMap" => State(s)' = "open"
      /\ p \in {"taken", "swept"} => State(s)' = "ended"
  BY <1>1 DEF State
<1> QED BY <1>3, <1>4

\* A request that goes on is not answered by that.
LEMMA GoesOn ==
    ASSUME TypeOK, NEW c \in Clients, NEW l \in Label \ Ended, pc[c] \notin Ended, Goto(c, l)
    PROVE  Results' = Results
<1>1. pc \in [Clients -> Label]
  BY DEF TypeOK
<1>2. \A d \in Clients : (pc'[d] \in Ended <=> pc[d] \in Ended) /\ (pc[d] \in Ended => pc'[d] = pc[d])
  BY <1>1 DEF Goto
<1> QED BY <1>2 DEF Results

\* A request ends once, and no other is answered with it.
LEMMA Answers ==
    ASSUME TypeOK, NEW c \in Clients, NEW l \in Ended, pc[c] \notin Ended, Goto(c, l)
    PROVE  Abstract!Answer(c, l)
<1>1. pc \in [Clients -> Label]
  BY DEF TypeOK
<1>2. Results[c] = "asked"
  BY DEF Results
<1>3. Results' = [Results EXCEPT ![c] = l]
  <2>1. pc'[c] = l
    BY <1>1 DEF Goto
  <2>2. \A d \in Clients \ {c} : pc'[d] = pc[d]
    BY <1>1 DEF Goto
  <2>3. Results' = [d \in Clients |-> IF d = c THEN l ELSE Results[d]]
    BY <2>1, <2>2 DEF Results
  <2> QED BY <2>3 DEF Results
<1> QED BY <1>2, <1>3 DEF Abstract!Answer

\* What is stored stays, unless a completion is just storing.
LEMMA BlobsKept ==
    ASSUME TypeOK, NEW c \in Clients, pc[c] \notin Ended,
           pc' = pc \/ \E l \in Label \ {"stored"} : Goto(c, l),
           body' = body \/ (c \in Completions /\ \E b : body' = [body EXCEPT ![c] = b])
    PROVE  Blobs' = Blobs
<1>1. pc \in [Clients -> Label] /\ Completions \subseteq Clients
  BY DEF TypeOK, Clients
<1>2. pc[c] # "stored"
  BY DEF Ended
<1>3. \A k \in Completions :
          (pc'[k] = "stored" <=> pc[k] = "stored") /\ (pc[k] = "stored" => body'[k] = body[k])
  <2> TAKE k \in Completions
  <2>1. pc'[k] = "stored" <=> pc[k] = "stored"
    BY <1>1, <1>2 DEF Goto
  <2>2. pc[k] = "stored" => body'[k] = body[k]
    BY <1>2 DEF TypeOK
  <2> QED BY <2>1, <2>2
<1> QED BY <1>3 DEF Blobs

\* A step that ends a request with nothing done.
LEMMA Refuses ==
    ASSUME TypeOK, NEW c \in Clients, NEW l \in Ended \ {"stored"}, pc[c] \notin Ended, Goto(c, l),
           UNCHANGED <<phase, sess, body, history>>,
           Abstract!Answer(c, l) => \/ Abstract!Unknown(c) \/ Abstract!Closed(c)
                                    \/ Abstract!Mismatch(c) \/ Abstract!Fail(c)
    PROVE  Abstract!Next
<1>1. Abstract!Answer(c, l)
  BY Answers
<1>2. Blobs' = Blobs
  BY BlobsKept DEF Label
<1>3. UNCHANGED <<States, accepted, disturbed, Claims>>
  BY DEF States, State, Claims, history
<1>4. Abstract!Refuse(c)
  BY <1>1, <1>2, <1>3 DEF Abstract!Refuse
<1> QED BY <1>4 DEF Abstract!Next, Abstract!Clients, Clients

(* Every step is one of BlobUpload's or changes nothing that it sees. *)
LEMMA StepUpload ==
    ASSUME TypeOK, TypeOK', HasSession, Ownership, Collected, RequestsFit, Next
    PROVE  Abstract!Next \/ UNCHANGED Abstract!vars
<1> DEFINE Seen == <<States, accepted, disturbed, Claims, Results, Blobs>>
<1>0. /\ Chunks \subseteq Clients /\ Completions \subseteq Clients /\ Strangers \subseteq Clients
      /\ Chunks \cap Completions = {} /\ None \notin Sessions
      /\ pc \in [Clients -> Label] /\ sess \in [Clients -> Sessions \cup {None}]
      /\ phase \in [Sessions -> Phase]
      /\ Abstract!Clients = Clients
  BY ClientsAssumption, NoneAssumption DEF Clients, Abstract!Clients, TypeOK
<1>1. ASSUME UNCHANGED <<States, clientVars, history>> PROVE UNCHANGED Abstract!vars
  BY <1>1 DEF clientVars, history, Abstract!vars, Claims, Results, Blobs
<1>2. phase' = phase => States' = States
  BY DEF States, State
<1>3. \A k \in Completions : Claims[k] = sess[k]
  BY DEF Claims
<1>4. ASSUME NEW c \in Clients, pc[c] \notin Ended, UNCHANGED <<phase, sess, history>>,
             pc' = pc \/ \E l \in Label \ Ended : Goto(c, l),
             body' = body \/ (c \in Completions /\ \E b : body' = [body EXCEPT ![c] = b])
      PROVE  UNCHANGED Abstract!vars
  <2>1. Results' = Results
    BY <1>4, GoesOn DEF Results
  <2>2. Blobs' = Blobs
    BY <1>4, BlobsKept DEF Ended
  <2> QED BY <1>2, <1>4, <2>1, <2>2 DEF history, Abstract!vars, Claims
<1>5. ASSUME NEW s \in Sessions, CreateTemp(s) PROVE UNCHANGED Abstract!vars
  <2>1. States[s] = "new" /\ States' = [States EXCEPT ![s] = "new"]
    BY <1>5, Stands, StandMoves DEF CreateTemp, Phase
  <2>2. States' = States
    BY <2>1 DEF States
  <2> QED BY <1>1, <1>5, <2>2 DEF CreateTemp
<1>6. ASSUME NEW s \in Sessions, EnterSession(s) PROVE Abstract!Next
  <2>1. States[s] = "new" /\ States' = [States EXCEPT ![s] = "open"]
    BY <1>6, Stands, StandMoves DEF EnterSession, Phase
  <2>2. UNCHANGED <<accepted, disturbed, Claims, Results, Blobs>>
    BY <1>6 DEF EnterSession, clientVars, history, Claims, Results, Blobs
  <2>3. Abstract!Open(s)
    BY <2>1, <2>2 DEF Abstract!Open
  <2> QED BY <2>3 DEF Abstract!Next
<1>7. ASSUME NEW s \in Sessions, RemoveExpired(s) PROVE Abstract!Next
  <2>1. phase[s] = "inMap" /\ phase' = [phase EXCEPT ![s] = "swept"]
    BY <1>7 DEF RemoveExpired, Ownership, SweepInMap
  <2>2. States[s] = "open" /\ States' = [States EXCEPT ![s] = "ended"]
    BY <2>1, Stands, StandMoves DEF Phase
  <2>3. UNCHANGED <<accepted, disturbed, Claims, Results, Blobs>>
    BY <1>7 DEF RemoveExpired, clientVars, history, Claims, Results, Blobs
  <2>4. Abstract!Expire(s)
    BY <2>2, <2>3 DEF Abstract!Expire
  <2> QED BY <2>4 DEF Abstract!Next
<1>8. ASSUME NEW s \in Sessions, Expire(s) \/ DiscardExpired(s) PROVE UNCHANGED Abstract!vars
  BY <1>1, <1>2, <1>8 DEF Expire, DiscardExpired, sessionVars
<1>9. CASE StartSweep \/ EndSweep
  <2>1. UNCHANGED Abstract!vars
    BY <1>1, <1>2, <1>9 DEF StartSweep, EndSweep, sessionVars
  <2> QED BY <2>1
<1>10. ASSUME NEW c \in Chunks, LockChunk(c) PROVE Abstract!Next \/ UNCHANGED Abstract!vars
  <2>1. c \in Clients /\ pc[c] = "lock" /\ sess[c] \in Sessions /\ c \notin Strangers
    BY <1>0, <1>10 DEF LockChunk, HasSession, RequestsFit
  <2>2. CASE Goto(c, "copy")
    BY <1>4, <1>10, <2>1, <2>2 DEF LockChunk, Label, Ended
  <2>3. CASE sess[c] \notin isOpen /\ Goto(c, "closed")
    <3>1. phase[sess[c]] \in {"taken", "swept"}
      BY <1>0, <2>1, <2>3 DEF RequestsFit, Ownership, MappedIsOpen
    <3>2. Abstract!Answer(c, "closed") => Abstract!Closed(c)
      BY <2>1, <3>1, Stands DEF Abstract!Closed
    <3> QED BY <1>10, <2>1, <2>3, <3>2, Refuses DEF LockChunk, Ended
  <2> QED BY <1>10, <2>2, <2>3 DEF LockChunk
<1>11. ASSUME NEW c \in Chunks, CopyChunk(c) PROVE Abstract!Next
  <2> DEFINE s == sess[c]
  <2>1. c \in Clients /\ pc[c] = "copy" /\ s \in Sessions /\ c \in Chunks \ Strangers
    BY <1>0, <1>11 DEF CopyChunk, HasSession, RequestsFit
  <2>2. phase[s] \in {"inMap", "taken", "swept"}
    BY <1>0, <2>1 DEF RequestsFit
  <2>3. States[s] # "new" /\ (States[s] = "open" <=> phase[s] = "inMap")
    BY <2>1, <2>2, Stands
  <2>4. Abstract!Answer(c, "accepted") /\ Blobs' = Blobs
    BY <1>11, <2>1, Answers, BlobsKept DEF CopyChunk, Label, Ended
  <2>5. /\ accepted' = [accepted EXCEPT ![s] = Append(@, c)]
        /\ disturbed' = IF States[s] = "open" THEN disturbed ELSE disturbed \cup {s}
        /\ UNCHANGED <<States, Claims>>
    BY <1>2, <1>11, <2>3 DEF CopyChunk, Claims
  <2> HIDE DEF s
  <2>6. Abstract!Accept(c, s)
    BY <2>1, <2>3, <2>4, <2>5 DEF Abstract!Accept
  <2> QED BY <2>1, <2>6 DEF Abstract!Next
<1>12. ASSUME NEW c \in Chunks, FailChunk(c) PROVE Abstract!Next
  <2> DEFINE s == sess[c]
  <2>1. c \in Clients /\ pc[c] = "copy" /\ s \in Sessions /\ c \in Chunks \ Strangers
    BY <1>0, <1>12 DEF FailChunk, HasSession, RequestsFit
  <2>2. phase[s] \in {"inMap", "taken", "swept"}
    BY <1>0, <2>1 DEF RequestsFit
  <2>3. States[s] # "new"
    BY <2>1, <2>2, Stands
  <2>4. Abstract!Answer(c, "failed") /\ Blobs' = Blobs
    BY <1>12, <2>1, Answers, BlobsKept DEF FailChunk, Label, Ended
  <2>5. disturbed' = disturbed \cup {s} /\ UNCHANGED <<States, accepted, Claims>>
    BY <1>2, <1>12 DEF FailChunk, Claims
  <2> HIDE DEF s
  <2>6. Abstract!Break(c, s)
    BY <2>1, <2>3, <2>4, <2>5 DEF Abstract!Break
  <2> QED BY <2>1, <2>6 DEF Abstract!Next
<1>13. ASSUME NEW k \in Completions, Rewind(k) PROVE UNCHANGED Abstract!vars
  <2>1. k \in Clients /\ pc[k] = "rewind" /\ sess[k] \in Sessions
    BY <1>0, <1>13 DEF Rewind, HasSession
  <2>2. sess[k] \in isOpen
    BY <2>1 DEF Ownership, HeldIsTaken, Holds
  <2> QED BY <1>4, <1>13, <2>1, <2>2 DEF Rewind, Label, Ended
<1>14. ASSUME NEW k \in Completions, ReadBlock(k) \/ ReadEnd(k) PROVE UNCHANGED Abstract!vars
  BY <1>0, <1>4, <1>14 DEF ReadBlock, ReadEnd, sessionVars, Label, Ended
<1>15. ASSUME NEW k \in Completions, Discard(k) PROVE Abstract!Next
  <2>1. /\ k \in Clients /\ sess[k] \in Sessions /\ Claims[k] # None
        /\ Holds(k, sess[k]) /\ pc[k] \notin Ended
    BY <1>0, <1>3, <1>15 DEF Discard, HasSession, Holds, Ended
  <2>2. UNCHANGED <<phase, sess, body, history>>
    BY <1>15 DEF Discard
  <2>3. CASE pc[k] = "close"
    <3>1. k \notin Strangers
      BY <2>3 DEF RequestsFit
    <3>2. Goto(k, "stored") /\ Abstract!Answer(k, "stored")
      BY <1>15, <2>1, <2>3, Answers DEF Discard, Ended
    <3>3. Blobs'[k] = body[k] /\ \A j \in Completions : j # k => Blobs'[j] = Blobs[j]
      BY <1>0, <2>2, <3>2 DEF Blobs, Goto
    <3>4. Blobs' \in [Completions -> Seq(Clients)]
      BY DEF Blobs, TypeOK
    <3>5. Claims[k] \notin disturbed => body[k] = Append(accepted[Claims[k]], k)
      BY <1>3, <2>1, <2>3 DEF Collected, ReadSoFar, Steady
    <3>6. UNCHANGED <<States, accepted, disturbed, Claims>>
      BY <1>2, <2>2 DEF history, Claims
    <3>7. Abstract!Store(k)
      BY <1>0, <2>1, <3>1, <3>2, <3>3, <3>4, <3>5, <3>6 DEF Abstract!Store
    <3> QED BY <3>7 DEF Abstract!Next
  <2>4. CASE pc[k] = "evict" /\ k \in Strangers
    <3>1. Goto(k, "mismatch")
      BY <1>15, <2>4 DEF Discard
    <3>2. Abstract!Answer(k, "mismatch") => Abstract!Mismatch(k)
      BY <2>4 DEF Abstract!Mismatch
    <3> QED BY <2>1, <2>2, <3>1, <3>2, Refuses DEF Ended
  <2>5. CASE pc[k] = "evict" /\ k \notin Strangers
    <3>1. Goto(k, "failed")
      BY <1>15, <2>5 DEF Discard
    <3>2. Abstract!Answer(k, "failed") => Abstract!Fail(k)
      BY <2>1, <2>5 DEF Abstract!Fail
    <3> QED BY <2>1, <2>2, <3>1, <3>2, Refuses DEF Ended
  <2> QED BY <1>15, <2>3, <2>4, <2>5 DEF Discard
<1>16. ASSUME NEW c \in Clients, NEW s \in Sessions, LookupSession(c, s)
       PROVE  Abstract!Next \/ UNCHANGED Abstract!vars
  <2>1. c \in Chunks /\ c \notin Completions /\ pc[c] = "idle" /\ pc[c] \notin Ended
    BY <1>0, <1>16 DEF LookupSession, Ended
  <2>2. UNCHANGED <<phase, body, history>>
    BY <1>16 DEF LookupSession, sessionVars
  <2>3. CASE sess' = [sess EXCEPT ![c] = s] /\ Goto(c, "lock")
    <3>1. Results' = Results /\ Blobs' = Blobs
      BY <2>1, <2>2, <2>3, GoesOn, BlobsKept DEF Label, Ended
    <3>2. Claims' = Claims
      BY <1>0, <2>1, <2>3 DEF Claims
    <3> QED BY <1>2, <2>2, <3>1, <3>2 DEF history, Abstract!vars
  <2>4. CASE c \in Strangers /\ Goto(c, "mismatch") /\ UNCHANGED sess
    <3>1. Abstract!Answer(c, "mismatch") => Abstract!Mismatch(c)
      BY <2>4 DEF Abstract!Mismatch
    <3> QED BY <2>1, <2>2, <2>4, <3>1, Refuses DEF Ended
  <2>5. CASE phase[s] # "inMap" /\ Goto(c, "unknown") /\ UNCHANGED sess
    <3>1. Abstract!Answer(c, "unknown") => Abstract!Unknown(c)
      BY <2>1, <2>5, Stands DEF Abstract!Unknown
    <3> QED BY <2>1, <2>2, <2>5, <3>1, Refuses DEF Ended
  <2> QED BY <1>16, <2>3, <2>4, <2>5 DEF LookupSession
<1>17. ASSUME NEW k \in Clients, NEW s \in Sessions, TakeSession(k, s) PROVE Abstract!Next
  <2>1. k \in Completions /\ pc[k] = "idle" /\ pc[k] \notin Ended /\ Claims[k] = None
    BY <1>3, <1>17 DEF TakeSession, RequestsFit, Ended
  <2>2. UNCHANGED <<body, history>>
    BY <1>17 DEF TakeSession
  <2>3. CASE /\ phase[s] = "inMap" /\ phase' = [phase EXCEPT ![s] = "taken"]
             /\ sess' = [sess EXCEPT ![k] = s]
             /\ Goto(k, "evict") \/ Goto(k, "rewind")
    <3>1. States[s] = "open" /\ States' = [States EXCEPT ![s] = "ended"]
      BY <2>3, Stands, StandMoves DEF Phase
    <3>2. Claims' = [Claims EXCEPT ![k] = s]
      BY <1>0, <2>1, <2>3 DEF Claims
    <3>3. Results[k] = "asked" /\ Results' = Results /\ Blobs' = Blobs
      <4>1. Results[k] = "asked"
        BY <2>1 DEF Results
      <4>2. Results' = Results
        BY <2>1, <2>3, GoesOn DEF Label, Ended
      <4>3. Blobs' = Blobs
        BY <2>1, <2>2, <2>3, BlobsKept DEF Label, Ended
      <4> QED BY <4>1, <4>2, <4>3
    <3>4. Abstract!Claim(k, s)
      BY <2>1, <2>2, <3>1, <3>2, <3>3 DEF Abstract!Claim, history
    <3> QED BY <2>1, <3>4 DEF Abstract!Next
  <2>4. CASE phase[s] # "inMap" /\ Goto(k, "unknown") /\ UNCHANGED <<phase, sess>>
    <3>1. Abstract!Answer(k, "unknown") => Abstract!Unknown(k)
      BY <2>1, <2>4, Stands DEF Abstract!Unknown
    <3> QED BY <2>1, <2>2, <2>4, <3>1, Refuses DEF Ended
  <2> QED BY <1>17, <2>3, <2>4 DEF TakeSession
<1> QED BY <1>5, <1>6, <1>7, <1>8, <1>9, <1>10, <1>11, <1>12, <1>13, <1>14, <1>15, <1>16, <1>17
        DEF Next, Looks, ChunkEnds, Read

(* However requests, cleanup and two kinds of mutex interleave, the sessions do what
   chunked uploads promise (BlobUpload): each chunk and each completion takes effect
   at one moment, or is refused. *)
THEOREM UploadsRefine == Spec => ImplementsUpload
<1>1. Init => Abstract!Init
  <2> SUFFICES ASSUME Init PROVE Abstract!Init
    OBVIOUS
  <2>1. \A c \in Clients : pc[c] = "idle" /\ sess[c] = None
    BY DEF Init
  <2>2. States = [s \in Sessions |-> "new"]
    BY DEF Init, States, State
  <2>3. Claims = [k \in Completions |-> None]
    BY <2>1 DEF Claims, Clients
  <2>4. Results = [c \in Clients |-> "asked"]
    BY <2>1 DEF Results, Ended
  <2>5. Blobs = [k \in Completions |-> << >>]
    BY <2>1 DEF Blobs, Clients
  <2> QED BY <2>2, <2>3, <2>4, <2>5 DEF Init, Abstract!Init, Abstract!Clients, Clients
<1>2. Init => RequestsFit
  BY ClientsAssumption DEF Init, RequestsFit, Clients
<1>3. TypeOK /\ HasSession /\ RequestsFit /\ [Next]_vars => RequestsFit'
  BY StepRequests
<1>4. /\ TypeOK /\ TypeOK' /\ HasSession /\ Ownership /\ Collected /\ RequestsFit /\ [Next]_vars
      => [Abstract!Next]_Abstract!vars
  <2>1. CASE UNCHANGED vars
    BY <2>1 DEF vars, Abstract!vars, States, State, Claims, Results, Blobs
  <2> QED BY <2>1, StepUpload
<1> QED BY <1>1, <1>2, <1>3, <1>4, SessionInductive, CollectedInductive, PTL
        DEF Spec, ImplementsUpload, Abstract!Spec
==============================================================================
