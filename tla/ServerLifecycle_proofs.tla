------------------------ MODULE ServerLifecycle_proofs ------------------------
(* What holds of the server process in every configuration, with any number of *)
(* storages, registries, addresses and requests, and whatever else listens.     *)
EXTENDS ServerLifecycle, TLAPS

------------------------------------------------------------------------------
(* The inductive invariant.  ServedProperly and CleanStop speak of listeners and  *)
(* requests; what keeps them true is the order main works in: storages, then      *)
(* registries on top of them, then servers, and a list that has all of these.     *)

\* A storage main created is one the configuration has, and usable.
StoragesUsable ==
    /\ phase = "storages" => todo \subseteq config.storages
    /\ created \cap Storages \subseteq config.storages \cap config.usable

\* Main reaches StartAllServers with the storage of every registry created.
StoragesFirst ==
    /\ phase = "registries" => \A r \in Registries \ todo : HasStorage(r)
    /\ phase = "starting" => \A r \in Registries : HasStorage(r)
    /\ \A r \in servers : HasStorage(r)

\* A goroutine listens, and requests arrive, for the servers on the list alone.
ServersListed ==
    \A r \in Registries : /\ r \in servers <=> listener[r] # "none"
                          /\ busy[r] > 0 => r \in servers

\* The servers' addresses are claimed, each by one of them.
OwnAddress ==
    /\ \A r \in servers : config.binding[r] \in claimed
    /\ \A r, q \in servers : config.binding[r] = config.binding[q] => r = q

\* What fails to listen fails for another process.
FailsForOthers == \A r \in Registries : listener[r] = "failed" => config.binding[r] \in taken

\* When main has returned it has waited for every server on the list.
AllShutDown == phase = "done" => \A r \in servers : ShutDown(r)

ServerInv == /\ TypeOK
             /\ StoragesUsable
             /\ StoragesFirst
             /\ ServersListed
             /\ OwnAddress
             /\ FailsForOthers
             /\ AllShutDown

\* Init satisfies it.
LEMMA InitInv == Init => ServerInv
<1> SUFFICES ASSUME Init PROVE ServerInv
  OBVIOUS
<1>1. TypeOK
  <2>1. config.storages \subseteq Storages
    BY DEF Init, Config
  <2>2. [r \in Registries |-> 0] \in [Registries -> 0 .. MaxRequests]
    BY MaxRequestsAssumption
  <2> QED BY <2>1, <2>2 DEF Init, TypeOK, Ended
<1>2. StoragesUsable /\ StoragesFirst
  BY DEF Init, StoragesUsable, StoragesFirst
<1>3. ServersListed /\ OwnAddress /\ FailsForOthers /\ AllShutDown
  BY DEF Init, ServersListed, OwnAddress, FailsForOthers, AllShutDown
<1> QED BY <1>1, <1>2, <1>3 DEF ServerInv

\* CreateStorage and CreateRegistry touch nothing that serves.
LEMMA StillServing ==
    ASSUME ServerInv, TypeOK', StoragesUsable', StoragesFirst',
           UNCHANGED <<environment, claimed, servers, listener, busy, expired>>,
           phase' # "done"
    PROVE  ServerInv'
<1>1. ServersListed' /\ OwnAddress' /\ FailsForOthers'
  BY DEF ServerInv, environment, ServersListed, OwnAddress, FailsForOthers
<1>2. AllShutDown'
  BY DEF AllShutDown
<1> QED BY <1>1, <1>2 DEF ServerInv

\* A storage of the configuration is created, or main ends.
LEMMA StorageStep ==
    ASSUME ServerInv, NEW s \in Storages, CreateStorage(s)
    PROVE  ServerInv'
<1>1. TypeOK'
  BY DEF ServerInv, TypeOK, CreateStorage, Ended, environment, Usable
<1>2. StoragesUsable'
  BY DEF ServerInv, StoragesUsable, CreateStorage, Usable, environment
<1>3. StoragesFirst'
  BY DEF ServerInv, StoragesFirst, HasStorage, CreateStorage, environment
<1> QED BY <1>1, <1>2, <1>3, StillServing DEF CreateStorage

\* A registry is created on a storage, or main ends.
LEMMA RegistryStep ==
    ASSUME ServerInv, NEW r \in Registries, CreateRegistry(r)
    PROVE  ServerInv'
<1>1. TypeOK'
  BY DEF ServerInv, TypeOK, CreateRegistry, Ended, environment
<1>2. StoragesUsable'
  BY AliasesAssumption DEF ServerInv, StoragesUsable, CreateRegistry, environment
<1>3. StoragesFirst'
  <2>1. CASE HasStorage(r)
    <3>1. /\ phase' = "registries" /\ todo' = todo \ {r} /\ created' = created \cup {r}
          /\ UNCHANGED <<config, servers>>
      BY <2>1 DEF CreateRegistry, environment
    <3>2. \A q \in Registries : HasStorage(q) => HasStorage(q)'
      BY <3>1 DEF HasStorage
    <3>3. \A q \in Registries \ todo' : HasStorage(q)
      BY <2>1, <3>1 DEF CreateRegistry, ServerInv, StoragesFirst
    <3> QED BY <3>1, <3>2, <3>3 DEF ServerInv, StoragesFirst, TypeOK
  <2>2. CASE ~HasStorage(r)
    BY <2>2 DEF ServerInv, StoragesFirst, HasStorage, CreateRegistry, environment
  <2> QED BY <2>1, <2>2
<1> QED BY <1>1, <1>2, <1>3, StillServing DEF CreateRegistry

\* All storages, and then all registries, are created.
LEMMA LoadedStep ==
    ASSUME ServerInv, Loaded
    PROVE  ServerInv'
<1>1. TypeOK'
  BY DEF ServerInv, TypeOK, Loaded, Ended, environment
<1>2. StoragesUsable'
  BY DEF ServerInv, StoragesUsable, Loaded, environment
<1>3. StoragesFirst'
  BY DEF ServerInv, StoragesFirst, HasStorage, Loaded, environment
<1> QED BY <1>1, <1>2, <1>3, StillServing DEF Loaded

\* A server starts on an address nobody claimed: it is a new one.
LEMMA StartStep ==
    ASSUME ServerInv, NEW r \in Registries, StartServer(r)
    PROVE  ServerInv'
<1>1. TypeOK'
  BY DEF ServerInv, TypeOK, Config, StartServer, Skip, StartFails, Start, Ended, environment
<1>2. StoragesUsable'
  BY DEF ServerInv, StoragesUsable, StartServer, Skip, StartFails, Start, environment
<1>3. CASE UNCHANGED <<servers, listener>>
  <2>1. StoragesFirst'
    BY <1>3 DEF ServerInv, StoragesFirst, HasStorage, StartServer, Skip, StartFails, Start,
                environment
  <2>2. ServersListed' /\ FailsForOthers'
    BY <1>3 DEF ServerInv, ServersListed, FailsForOthers, StartServer, environment
  <2>3. OwnAddress'
    BY <1>3 DEF ServerInv, OwnAddress, StartServer, Skip, StartFails, Start, environment
  <2>4. AllShutDown'
    BY DEF AllShutDown, StartServer, Skip, StartFails, Start
  <2> QED BY <1>1, <1>2, <2>1, <2>2, <2>3, <2>4 DEF ServerInv
<1>4. CASE Start(r)
  <2>1. /\ phase' = "starting" /\ phase = "starting"
        /\ config.binding[r] \notin claimed
        /\ claimed' = claimed \cup {config.binding[r]} /\ servers' = servers \cup {r}
        /\ listener' = [listener EXCEPT ![r] = "starting"]
        /\ UNCHANGED <<config, taken, created, busy>>
    BY <1>4 DEF StartServer, Start, environment
  <2>2. StoragesFirst'
    BY <2>1 DEF ServerInv, StoragesFirst, HasStorage, TypeOK
  <2>3. ServersListed'
    BY <2>1 DEF ServerInv, ServersListed, TypeOK
  <2>4. OwnAddress'
    BY <2>1 DEF ServerInv, OwnAddress
  <2>5. FailsForOthers'
    BY <2>1 DEF ServerInv, FailsForOthers, TypeOK
  <2>6. AllShutDown'
    BY <2>1 DEF AllShutDown
  <2> QED BY <1>1, <1>2, <2>2, <2>3, <2>4, <2>5, <2>6 DEF ServerInv
<1> QED BY <1>3, <1>4 DEF StartServer, Skip, StartFails

\* Only an address that another process has cannot be bound.
LEMMA ListenStep ==
    ASSUME ServerInv, NEW r \in Registries, Listen(r)
    PROVE  ServerInv'
<1>1. /\ listener[r] = "starting" /\ r \in servers
      /\ listener' = [listener EXCEPT
                        ![r] = IF Bindable(config.binding[r]) THEN "accepting" ELSE "failed"]
      /\ UNCHANGED <<config, taken, phase, todo, created, claimed, servers, busy,
                     signalled, expired>>
  BY DEF Listen, environment, main, ServerInv, ServersListed
<1>2. TypeOK'
  BY <1>1 DEF ServerInv, TypeOK
<1>3. StoragesUsable' /\ StoragesFirst' /\ OwnAddress'
  BY <1>1 DEF ServerInv, StoragesUsable, StoragesFirst, HasStorage, OwnAddress
<1>4. ServersListed'
  BY <1>1 DEF ServerInv, ServersListed, TypeOK
<1>5. FailsForOthers'
  <2>1. Bindable(config.binding[r]) \/ config.binding[r] \in taken
    <3>1. ASSUME NEW q \in Registries, listener[q] = "accepting",
                 config.binding[q] = config.binding[r]
          PROVE  FALSE
      BY <1>1, <3>1 DEF ServerInv, ServersListed, OwnAddress
    <3> QED BY <3>1 DEF Bindable
  <2> QED BY <1>1, <2>1 DEF ServerInv, FailsForOthers, TypeOK
<1>6. AllShutDown'
  BY <1>1 DEF Listen, Alive, Ended, AllShutDown
<1> QED BY <1>2, <1>3, <1>4, <1>5, <1>6 DEF ServerInv

\* Requests come to servers on the list, and end.
LEMMA RequestStep ==
    ASSUME ServerInv, NEW r \in Registries, Accept(r) \/ Answer(r)
    PROVE  ServerInv'
<1>1. /\ Alive
      /\ UNCHANGED <<config, taken, phase, todo, created, claimed, servers, listener,
                     signalled, expired>>
      /\ \/ listener[r] = "accepting" /\ busy[r] < MaxRequests
            /\ busy' = [busy EXCEPT ![r] = @ + 1]
         \/ busy[r] > 0 /\ busy' = [busy EXCEPT ![r] = @ - 1]
  BY DEF Accept, Answer, environment, main
<1>2. busy'[r] \in 0 .. MaxRequests
  BY <1>1, MaxRequestsAssumption DEF ServerInv, TypeOK
<1>3. busy' \in [Registries -> 0 .. MaxRequests]
  BY <1>1, <1>2 DEF ServerInv, TypeOK
<1>4. TypeOK'
  BY <1>1, <1>3 DEF ServerInv, TypeOK
<1>5. StoragesUsable' /\ StoragesFirst' /\ OwnAddress' /\ FailsForOthers'
  BY <1>1 DEF ServerInv, StoragesUsable, StoragesFirst, HasStorage, OwnAddress, FailsForOthers
<1>6. r \in servers
  BY <1>1 DEF ServerInv, ServersListed
<1>7. ServersListed'
  BY <1>1, <1>6 DEF ServerInv, ServersListed, TypeOK
<1>8. AllShutDown'
  BY <1>1 DEF AllShutDown, Alive, Ended
<1> QED BY <1>4, <1>5, <1>7, <1>8 DEF ServerInv

\* Shutdown closes the listener of a server on the list.
LEMMA ShutdownStep ==
    ASSUME ServerInv, NEW r \in Registries, Shutdown(r)
    PROVE  ServerInv'
<1>1. /\ phase = "stopping" /\ r \in servers
      /\ listener' = [listener EXCEPT ![r] = "closed"]
      /\ UNCHANGED <<config, taken, phase, todo, created, claimed, servers, busy,
                     signalled, expired>>
  BY DEF Shutdown, environment, main
<1>2. TypeOK'
  BY <1>1 DEF ServerInv, TypeOK
<1>3. StoragesUsable' /\ StoragesFirst' /\ OwnAddress'
  BY <1>1 DEF ServerInv, StoragesUsable, StoragesFirst, HasStorage, OwnAddress
<1>4. ServersListed' /\ FailsForOthers'
  BY <1>1 DEF ServerInv, ServersListed, FailsForOthers, TypeOK
<1>5. AllShutDown'
  BY <1>1 DEF AllShutDown
<1> QED BY <1>2, <1>3, <1>4, <1>5 DEF ServerInv

\* Steps of main, of the deadline and of who sends signals, that start, stop and
\* answer nothing.
LEMMA PhaseStep ==
    ASSUME ServerInv, Started \/ Notify \/ Stop \/ Exit \/ Signal \/ Expire
    PROVE  ServerInv'
<1>1. UNCHANGED <<config, taken, todo, created, claimed, servers, listener, busy>>
  BY DEF Started, Notify, Stop, Exit, Signal, Expire, environment, main
<1>2. TypeOK'
  BY <1>1 DEF ServerInv, TypeOK, Started, Notify, Stop, Exit, Signal, Expire, main, Ended
<1>3. phase' \in {phase, "done", "started", "waiting", "stopping", "killed"}
  BY DEF Started, Notify, Stop, Exit, Signal, Expire, main
<1>4. StoragesUsable' /\ StoragesFirst'
  BY <1>1, <1>3 DEF ServerInv, StoragesUsable, StoragesFirst, HasStorage
<1>5. ServersListed' /\ OwnAddress' /\ FailsForOthers'
  BY <1>1 DEF ServerInv, ServersListed, OwnAddress, FailsForOthers
<1>6. AllShutDown'
  BY <1>1 DEF AllShutDown, ShutDown, Started, Notify, Stop, Exit, Signal, Expire, main,
              Alive, Ended
<1> QED BY <1>2, <1>4, <1>5, <1>6 DEF ServerInv

\* The invariant of the server process.
LEMMA ServerInvariant == Spec => []ServerInv
<1>1. ServerInv /\ [Next]_vars => ServerInv'
  <2> SUFFICES ASSUME ServerInv, [Next]_vars PROVE ServerInv'
    OBVIOUS
  <2>1. CASE UNCHANGED vars
    BY <2>1 DEF vars, ServerInv, TypeOK, StoragesUsable, StoragesFirst, HasStorage,
                ServersListed, OwnAddress, FailsForOthers, AllShutDown, ShutDown
  <2> QED BY <2>1, StorageStep, RegistryStep, LoadedStep, StartStep, ListenStep, RequestStep,
             ShutdownStep, PhaseStep DEF Next, Main
<1> QED BY <1>1, InitInv, PTL DEF Spec

\* Every variable keeps to its type.
THEOREM TypeCorrect == Spec => []TypeOK
BY ServerInvariant, PTL DEF ServerInv

\* No configuration and no order of starting serves a registry without its storage, or
\* makes two registries of this process fight for an address.
THEOREM ServedAsConfigured == Spec => []ServedProperly
<1>1. ServerInv => ServedProperly
  <2> SUFFICES ASSUME ServerInv, NEW r \in Registries
               PROVE  /\ listener[r] = "accepting" =>
                            config.storage[r] \in config.storages \cap config.usable
                      /\ listener[r] = "failed" => config.binding[r] \in taken
    BY DEF ServedProperly
  <2>1. ASSUME listener[r] = "accepting"
        PROVE  config.storage[r] \in config.storages \cap config.usable
    <3>1. config.storage[r] \in created
      BY <2>1 DEF ServerInv, ServersListed, StoragesFirst, HasStorage
    <3>2. config.storage[r] \in Storages
      BY DEF ServerInv, TypeOK, Config
    <3> QED BY <3>1, <3>2 DEF ServerInv, StoragesUsable
  <2> QED BY <2>1 DEF ServerInv, FailsForOthers
<1> QED BY <1>1, ServerInvariant, PTL

\* When main has returned nothing listens, and what was cut off had its 30 seconds.
THEOREM StopsCleanly == Spec => []CleanStop
<1>1. ServerInv => CleanStop
  <2> SUFFICES ASSUME ServerInv, phase = "done", NEW r \in Registries
               PROVE  listener[r] # "accepting" /\ (busy[r] = 0 \/ expired)
    BY DEF CleanStop
  <2>1. CASE r \in servers
    BY <2>1 DEF ServerInv, AllShutDown, ShutDown
  <2>2. CASE r \notin servers
    <3>1. listener[r] = "none" /\ ~(busy[r] > 0)
      BY <2>2 DEF ServerInv, ServersListed
    <3>2. busy[r] \in Nat
      BY MaxRequestsAssumption DEF ServerInv, TypeOK
    <3> QED BY <3>1, <3>2
  <2> QED BY <2>1, <2>2
<1> QED BY <1>1, ServerInvariant, PTL

==============================================================================
