------------------------- MODULE HashComputing_proofs ------------------------
(***************************************************************************)
(* What TLAPS proves of HashComputing: type correctness, that no temporary *)
(* artifact is left behind, and that it implements ContentStore.           *)
(***************************************************************************)
EXTENDS HashComputing, TLAPS

\* What a call that is past staging and not yet moved has under its temporary hash;
\* references it has there at no time.
StagedWhole ==
    \A p \in Creates :
        /\ pc[p] \in {"lookup", "move"} => blob[p] = body[p] /\ meta[p] = p
        /\ refs[p] = {}

\* Metadata under a content hash means that the content is there.
MetaMeansWhole == \A b \in Bodies : meta[b] # None => blob[b] = b

\* The inductive invariant.
Inv == TypeOK /\ StagedWhole /\ MetaMeansWhole /\ TempReclaimed

\* At the start nothing is stored.
LEMMA InitInv == Init => Inv
<1> SUFFICES ASSUME Init PROVE Inv
  OBVIOUS
<1>1. TypeOK
  BY DEF Init, TypeOK, Label
<1>2. StagedWhole /\ MetaMeansWhole /\ TempReclaimed
  BY DEF Init, StagedWhole, MetaMeansWhole, TempReclaimed, Keys
<1> QED BY <1>1, <1>2 DEF Inv

\* The type invariant is preserved by a step of a call and by one of a client.
LEMMA StepType ==
    ASSUME TypeOK, StagedWhole, NEW p \in Creates, Step(p)
    PROVE  TypeOK'
<1> USE DEF TypeOK, Label, Keys, At, Goto, request, disk
<1>1. CASE Stage(p)
  BY <1>1 DEF Stage, Written
<1>2. CASE StageFails(p)
  BY <1>2 DEF StageFails
<1>3. CASE LookUp(p)
  BY <1>3 DEF LookUp, CleanupTempHash
<1>4. CASE Reread(p)
  BY <1>4 DEF Reread
<1>5. CASE MoveToFinalHash(p)
  BY <1>5 DEF MoveToFinalHash
<1>6. CASE MoveFails(p)
  BY <1>6 DEF MoveFails, CleanupTempHash
<1>7. CASE ReadBack(p)
  BY <1>7 DEF ReadBack
<1> QED BY <1>1, <1>2, <1>3, <1>4, <1>5, <1>6, <1>7 DEF Step

\* The storage calls of other clients keep every variable in its type.
LEMMA ClientType ==
    ASSUME TypeOK, NEW b \in Bodies, Client(b)
    PROVE  TypeOK'
<1> USE DEF TypeOK, Keys, request
<1>1. ASSUME NEW rs \in SUBSET Refs, CreateKnown(b, rs)
      PROVE  TypeOK'
  BY <1>1 DEF CreateKnown, Written
<1>2. ASSUME NEW rs \in SUBSET Refs, CreateOnExisting(b, rs)
      PROVE  TypeOK'
  BY <1>2 DEF CreateOnExisting
<1>3. CASE CreateKnownFails(b)
  BY <1>3 DEF CreateKnownFails
<1>4. CASE DeleteArtifact(b)
  BY <1>4 DEF DeleteArtifact
<1> QED BY <1>1, <1>2, <1>3, <1>4 DEF Client

\* The other three conjuncts are preserved by a step of a call: temporary and
\* content hashes are apart, and so are the temporary hashes of different calls.
LEMMA StepInv ==
    ASSUME Inv, NEW p \in Creates, Step(p)
    PROVE  StagedWhole' /\ MetaMeansWhole' /\ TempReclaimed'
<1> USE KeysAssumption, TornAssumption
    DEF Inv, TypeOK, Label, Keys, At, Goto, request, disk, StagedWhole, MetaMeansWhole,
        TempReclaimed
<1>1. CASE Stage(p)
  BY <1>1 DEF Stage, Written
<1>2. CASE StageFails(p)
  BY <1>2 DEF StageFails
<1>3. CASE LookUp(p)
  BY <1>3 DEF LookUp, CleanupTempHash, Found, NotFound
<1>4. CASE Reread(p)
  BY <1>4 DEF Reread
<1>5. CASE MoveToFinalHash(p)
  BY <1>5 DEF MoveToFinalHash
<1>6. CASE MoveFails(p)
  BY <1>6 DEF MoveFails, CleanupTempHash, Found, NotFound
<1>7. CASE ReadBack(p)
  BY <1>7 DEF ReadBack
<1> QED BY <1>1, <1>2, <1>3, <1>4, <1>5, <1>6, <1>7 DEF Step

\* A client touches content hashes only, and writes metadata for whole blobs only.
LEMMA ClientInv ==
    ASSUME Inv, NEW b \in Bodies, Client(b)
    PROVE  StagedWhole' /\ MetaMeansWhole' /\ TempReclaimed'
<1> USE KeysAssumption, TornAssumption
    DEF Inv, TypeOK, Keys, request, StagedWhole, MetaMeansWhole, TempReclaimed
<1>1. ASSUME NEW rs \in SUBSET Refs, CreateKnown(b, rs)
      PROVE  StagedWhole' /\ MetaMeansWhole' /\ TempReclaimed'
  BY <1>1 DEF CreateKnown, Written
<1>2. ASSUME NEW rs \in SUBSET Refs, CreateOnExisting(b, rs)
      PROVE  StagedWhole' /\ MetaMeansWhole' /\ TempReclaimed'
  BY <1>2 DEF CreateOnExisting
<1>3. CASE CreateKnownFails(b)
  BY <1>3 DEF CreateKnownFails
<1>4. CASE DeleteArtifact(b)
  BY <1>4 DEF DeleteArtifact
<1> QED BY <1>1, <1>2, <1>3, <1>4 DEF Client

\* The invariant of the wrapper.
LEMMA InvInductive == Spec => []Inv
<1>1. ASSUME Inv, [Next]_vars
      PROVE  Inv'
  <2>1. CASE Next
    <3>1. CASE \E p \in Creates : Step(p)
      BY <1>1, <3>1, StepType, StepInv DEF Inv
    <3>2. CASE \E b \in Bodies : Client(b)
      BY <1>1, <3>2, ClientType, ClientInv DEF Inv
    <3> QED BY <2>1, <3>1, <3>2 DEF Next
  <2>2. CASE UNCHANGED vars
    BY <1>1, <2>2 DEF Inv, TypeOK, StagedWhole, MetaMeansWhole, TempReclaimed, vars
  <2> QED BY <1>1, <2>1, <2>2
<1> QED BY <1>1, InitInv, PTL DEF Spec

\* Every variable keeps its type in every run of the wrapper.
THEOREM TypeCorrect == Spec => []TypeOK
BY InvInductive, PTL DEF Inv

\* handleExistingHash and moveToFinalHash leave nothing under a temporary hash,
\* however many creates, deletions and lock timeouts meet.
THEOREM NoTempLeft == Spec => []TempReclaimed
BY InvInductive, PTL DEF Inv

------------------------------------------------------------------------------
(* Refinement *)

\* The abstract states of all calls.
States == [p \in Creates |-> State(p)]

\* What is stored changes at content hashes only.
LEMMA StoredFrame ==
    ASSUME \A b \in Bodies : blob'[b] = blob[b] /\ meta'[b] = meta[b]
    PROVE  Stored' = Stored
BY DEF Stored

\* A step of call p that takes it to label moves the abstract state of p only.
LEMMA StatesStep ==
    ASSUME TypeOK, NEW p \in Creates, NEW label \in Label, Goto(p, label),
           NEW abstract, State(p)' = abstract
    PROVE  States' = [States EXCEPT ![p] = abstract]
<1>1. \A q \in Creates \ {p} : State(q)' = State(q)
  BY DEF TypeOK, Goto, State
<1> QED BY <1>1 DEF States

\* An empty storage is an abstract one.
LEMMA InitRefines == Init => Store!Init
<1> SUFFICES ASSUME Init PROVE Store!Init
  OBVIOUS
<1>1. Stored = {}
  BY DEF Init, Stored, Keys
<1>2. \A p \in Creates : State(p) = "asked"
  BY DEF Init, State
<1>3. body \in [Creates -> Bodies]
  BY DEF Init
<1> QED BY <1>1, <1>2, <1>3 DEF Store!Init

\* A call whose abstract state and whose artifacts stay as they are stutters.
LEMMA Stutter ==
    ASSUME TypeOK, NEW p \in Creates, NEW label \in Label, Goto(p, label),
           State(p)' = State(p), Stored' = Stored, UNCHANGED request
    PROVE  UNCHANGED Store!vars
<1>1. States' = [States EXCEPT ![p] = State(p)]
  BY StatesStep
<1>2. States' = States
  BY <1>1 DEF States
<1> QED BY <1>2 DEF Store!vars, States, request

\* A call that ends well with its content stored answers, any other that ends fails.
LEMMA Answers ==
    ASSUME TypeOK, NEW p \in Creates, Goto(p, "ok"), body[p] \in Stored,
           State(p) \in {"asked", "kept"}, Stored' = Stored, UNCHANGED request
    PROVE  Store!Answer(p)
<1>1. State(p)' = "ok"
  BY DEF TypeOK, Goto, State
<1>2. States' = [States EXCEPT ![p] = "ok"]
  BY <1>1, StatesStep DEF Label
<1> QED BY <1>2 DEF Store!Answer, Store!Open, States, request

\* A call that fails while it is open is the abstract failure.
LEMMA Fails ==
    ASSUME TypeOK, NEW p \in Creates, NEW label \in {"failed", "unstaged"}, Goto(p, label),
           State(p) \in {"asked", "kept"}, Stored' = Stored, UNCHANGED request
    PROVE  Store!Fail(p)
<1>1. State(p)' = "failed"
  BY DEF TypeOK, Goto, State
<1>2. States' = [States EXCEPT ![p] = "failed"]
  BY <1>1, StatesStep DEF Label
<1> QED BY <1>2 DEF Store!Fail, Store!Open, States, request

\* Move stores the content of its call, over whatever was there.
LEMMA MoveKeeps ==
    ASSUME Inv, NEW p \in Creates, MoveToFinalHash(p)
    PROVE  Store!Keep(p)
<1> USE DEF Inv, TypeOK, MoveToFinalHash, At
<1>1. body[p] \in Bodies /\ blob[p] = body[p] /\ meta[p] = p
  BY DEF StagedWhole
<1>2. Stored' = Stored \cup {body[p]}
  BY <1>1, KeysAssumption, TornAssumption DEF Stored, Keys
<1>3. State(p) = "asked" /\ State(p)' = "kept"
  BY DEF State, Goto
<1>4. States' = [States EXCEPT ![p] = "kept"]
  BY <1>3, StatesStep DEF Label
<1> QED BY <1>2, <1>3, <1>4 DEF Store!Keep, States, request

\* Every other step of a call leaves the content hashes alone.
LEMMA StepRefines ==
    ASSUME Inv, NEW p \in Creates, Step(p)
    PROVE  Store!Keep(p) \/ Store!Answer(p) \/ Store!Fail(p) \/ UNCHANGED Store!vars
<1>1. CASE MoveToFinalHash(p)
  BY <1>1, MoveKeeps
<1>2. ASSUME ~MoveToFinalHash(p)
      PROVE  Stored' = Stored
  <2>1. \A b \in Bodies : b # p
    BY KeysAssumption
  <2>2. \A b \in Bodies : blob'[b] = blob[b] /\ meta'[b] = meta[b]
    BY <1>2, <2>1 DEF Step, Stage, Written, StageFails, LookUp, CleanupTempHash, Reread,
       MoveFails, ReadBack, disk, Inv, TypeOK, Keys
  <2> QED BY <2>2, StoredFrame
<1>3. Found(body[p]) => body[p] \in Stored
  BY DEF Found, Stored, Inv, MetaMeansWhole, TypeOK
<1>4. UNCHANGED request
  BY DEF Step, Stage, StageFails, LookUp, Reread, MoveToFinalHash, MoveFails, ReadBack
<1>5. TypeOK
  BY DEF Inv
<1>6. CASE Stage(p)
  <2>1. Goto(p, "lookup") /\ State(p)' = State(p)
    BY <1>5, <1>6 DEF Stage, At, Goto, State, TypeOK
  <2>2. Stored' = Stored
    BY <1>2, <1>6, <1>5 DEF Stage, MoveToFinalHash, At
  <2> QED BY <2>1, <2>2, <1>4, <1>5, Stutter DEF Label
<1>7. CASE StageFails(p)
  <2>1. Goto(p, "unstaged") /\ State(p) = "asked"
    BY <1>7 DEF StageFails, At, State
  <2>2. Stored' = Stored
    BY <1>2, <1>7 DEF StageFails, MoveToFinalHash, At
  <2> QED BY <2>1, <2>2, <1>4, <1>5, Fails
<1>8. CASE LookUp(p)
  <2>1. PICK label \in {"reread", "move"} : Goto(p, label)
    BY <1>8 DEF LookUp
  <2>2. State(p)' = State(p)
    BY <1>5, <1>8, <2>1 DEF LookUp, At, Goto, State, TypeOK
  <2>3. Stored' = Stored
    BY <1>2, <1>8 DEF LookUp, MoveToFinalHash, At
  <2> QED BY <2>1, <2>2, <2>3, <1>4, <1>5, Stutter DEF Label
<1>9. CASE Reread(p) \/ ReadBack(p)
  <2>1. State(p) \in {"asked", "kept"}
    BY <1>9 DEF Reread, ReadBack, At, State
  <2>2. Stored' = Stored
    BY <1>2, <1>9 DEF Reread, ReadBack, MoveToFinalHash, At
  <2>3. CASE Found(body[p]) /\ Goto(p, "ok")
    BY <2>1, <2>2, <2>3, <1>3, <1>4, <1>5, Answers
  <2>4. CASE Goto(p, "failed")
    BY <2>1, <2>2, <2>4, <1>4, <1>5, Fails
  <2> QED BY <1>9, <2>3, <2>4 DEF Reread, ReadBack
<1>10. CASE MoveFails(p)
  <2>1. State(p) = "asked"
    BY <1>10 DEF MoveFails, At, State
  <2>2. CASE Stored' = Stored /\ Goto(p, "reread")
    <3>1. State(p)' = State(p)
      BY <1>5, <2>1, <2>2 DEF Goto, State, TypeOK
    <3> QED BY <3>1, <2>2, <1>4, <1>5, Stutter DEF Label
  <2>3. CASE Stored' = Stored /\ Goto(p, "failed")
    BY <2>1, <2>3, <1>4, <1>5, Fails
  <2>4. CASE MoveToFinalHash(p)
    BY <2>4, MoveKeeps
  <2> QED BY <1>2, <1>10, <2>2, <2>3, <2>4 DEF MoveFails
<1> QED BY <1>1, <1>6, <1>7, <1>8, <1>9, <1>10 DEF Step

\* A client stores or deletes one content, or changes nothing that is stored.
LEMMA ClientRefines ==
    ASSUME Inv, NEW b \in Bodies, Client(b)
    PROVE  Store!Insert(b) \/ Store!Remove(b) \/ UNCHANGED Store!vars
<1>1. States' = States /\ body' = body
  BY DEF Client, CreateKnown, CreateOnExisting, CreateKnownFails, DeleteArtifact, States,
     State, request
<1> USE KeysAssumption, TornAssumption DEF Inv, TypeOK, Keys, Stored
<1>2. ASSUME NEW rs \in SUBSET Refs, CreateKnown(b, rs)
      PROVE  Stored' = Stored \cup {b}
  BY <1>2 DEF CreateKnown, Written
<1>3. ASSUME NEW rs \in SUBSET Refs, CreateOnExisting(b, rs)
      PROVE  Stored' = Stored
  BY <1>3 DEF CreateOnExisting
<1>4. CASE CreateKnownFails(b)
  <2>1. Stored' = Stored
    BY <1>4 DEF CreateKnownFails
  <2> QED BY <1>1, <2>1 DEF Store!vars, States
<1>5. CASE DeleteArtifact(b)
  <2>1. Stored' = Stored \ {b}
    BY <1>5 DEF DeleteArtifact
  <2> QED BY <1>1, <2>1 DEF Store!Remove, States
<1> QED BY <1>1, <1>2, <1>3, <1>4, <1>5 DEF Client, Store!Insert, Store!vars, States

\* The wrapper implements ContentStore: a create with an unknown hash that
\* succeeds has its content in the store at that moment, under the computed hash.
THEOREM Refines == Spec => ImplementsStore
<1>1. ASSUME Inv, [Next]_vars
      PROVE  [Store!Next]_Store!vars
  <2>1. CASE \E p \in Creates : Step(p)
    BY <1>1, <2>1, StepRefines DEF Store!Next
  <2>2. CASE \E b \in Bodies : Client(b)
    BY <1>1, <2>2, ClientRefines DEF Store!Next
  <2>3. CASE UNCHANGED vars
    BY <2>3 DEF vars, Store!vars, Stored, State
  <2> QED BY <1>1, <2>1, <2>2, <2>3 DEF Next
<1> QED BY <1>1, InvInductive, InitRefines, PTL DEF Spec, ImplementsStore, Store!Spec

==============================================================================
