--------------------------- MODULE ServerLifecycle ---------------------------
(***************************************************************************)
(* The life of the server process: main.go, StorageManager and             *)
(* RegistryManager.  Storages and then registries are created from the     *)
(* configuration, StartAllServers gives each registry with a service       *)
(* binding an HTTP server on a goroutine of its own, and only then does    *)
(* main ask for the signals that shut the servers down.                    *)
(*                                                                         *)
(* A request is what net/http has accepted and not answered; what it does  *)
(* is the subject of RegistryPush and UploadSessions.                      *)
(***************************************************************************)
EXTENDS Naturals

CONSTANTS
    Storages,     \* storage aliases
    Registries,   \* registry aliases
    Addresses,    \* the service bindings, as StartAllServers compares them
    MaxRequests,  \* bound on the requests a server has in flight
    None          \* no service binding

ASSUME MaxRequestsAssumption == MaxRequests \in Nat \ {0}
ASSUME AliasesAssumption == Storages \cap Registries = {} /\ None \notin Addresses

VARIABLES
    config,     \* storages, and those usable; kind, binding, storage of each registry
    taken,      \* addresses that other processes listen on
    phase,      \* how far main has got, or how the process ended
    todo,       \* what main's present loop has still to visit
    created,    \* the aliases in the managers' maps
    claimed,    \* StartAllServers' addresses
    servers,    \* the registries in the list StartAllServers returns
    listener,   \* the ListenAndServe goroutine of each registry
    busy,       \* requests in flight
    signalled,  \* SIGINT or SIGTERM was sent
    expired     \* the 30 seconds of the shutdown context are over

main == <<phase, todo, created, claimed, servers>>
environment == <<config, taken>>
vars == <<config, taken, phase, todo, created, claimed, servers,
          listener, busy, signalled, expired>>

\* A registry may name a storage alias that is not configured.
Config == [ storages : SUBSET Storages,
            usable  : SUBSET Storages,
            kind    : [Registries -> {"private", "proxy"}],
            binding : [Registries -> Addresses \cup {None}],
            storage : [Registries -> Storages] ]

Ended == {"done", "error", "killed"}
Alive == phase \notin Ended

Init ==
    /\ config \in Config
    /\ taken \in SUBSET Addresses
    /\ phase = "storages"
    /\ todo = config.storages
    /\ created = {}
    /\ claimed = {}
    /\ servers = {}
    /\ listener = [r \in Registries |-> "none"]
    /\ busy = [r \in Registries |-> 0]
    /\ signalled = FALSE
    /\ expired = FALSE

------------------------------------------------------------------------------
(* initializeStorage and initializeRegistry: an error ends the process. *)

\* A storage of a known class with the parameters the class requires.
Usable(s) == s \in config.usable

CreateStorage(s) ==
    /\ phase = "storages" /\ s \in todo
    /\ todo' = todo \ {s}
    /\ \/ Usable(s) /\ created' = created \cup {s} /\ UNCHANGED phase
       \/ ~Usable(s) /\ phase' = "error" /\ UNCHANGED created
    /\ UNCHANGED <<environment, claimed, servers, listener, busy, signalled, expired>>

\* The constructor of either kind of registry looks its storage up.
HasStorage(r) == config.storage[r] \in created

CreateRegistry(r) ==
    /\ phase = "registries" /\ r \in todo
    /\ todo' = todo \ {r}
    /\ \/ HasStorage(r) /\ created' = created \cup {r} /\ UNCHANGED phase
       \/ ~HasStorage(r) /\ phase' = "error" /\ UNCHANGED created
    /\ UNCHANGED <<environment, claimed, servers, listener, busy, signalled, expired>>

Loaded ==
    /\ phase \in {"storages", "registries"} /\ todo = {}
    /\ phase' = IF phase = "storages" THEN "registries" ELSE "starting"
    /\ todo' = Registries
    /\ UNCHANGED <<environment, created, claimed, servers, listener, busy, signalled, expired>>

------------------------------------------------------------------------------
(* StartAllServers, which visits its map in any order. *)

Skip(r) ==
    /\ config.binding[r] = None
    /\ UNCHANGED <<phase, claimed, servers, listener>>

\* A second registry on an address, or a proxy, whose SetupRoutes is not
\* implemented: main exits, with the servers started so far already running.
StartFails(r) ==
    /\ config.binding[r] # None
    /\ config.binding[r] \in claimed \/ config.kind[r] = "proxy"
    /\ phase' = "error"
    /\ claimed' = claimed \cup {config.binding[r]}
    /\ UNCHANGED <<servers, listener>>

\* Seeded fault: no check for a conflict.
StartUnchecked(r) ==
    /\ config.binding[r] # None /\ config.kind[r] = "private"
    /\ claimed' = claimed \cup {config.binding[r]}
    /\ servers' = servers \cup {r}
    /\ listener' = [listener EXCEPT ![r] = "starting"]
    /\ UNCHANGED phase

Start(r) ==
    /\ config.binding[r] \notin claimed \cup {None} /\ config.kind[r] = "private"
    /\ claimed' = claimed \cup {config.binding[r]}
    /\ servers' = servers \cup {r}
    /\ listener' = [listener EXCEPT ![r] = "starting"]
    /\ UNCHANGED phase

StartServer(r) ==
    /\ phase = "starting" /\ r \in todo
    /\ todo' = todo \ {r}
    /\ Skip(r) \/ StartFails(r) \/ Start(r)
    /\ UNCHANGED <<environment, created, busy, signalled, expired>>

\* Nothing to serve is no error.
Started ==
    /\ phase = "starting" /\ todo = {}
    /\ phase' = IF servers = {} THEN "done" ELSE "started"
    /\ UNCHANGED <<environment, todo, created, claimed, servers, listener,
                   busy, signalled, expired>>

\* ListenAndServe: an address that cannot be bound is logged and no more.
Bindable(a) ==
    a \notin taken /\ \A r \in Registries : listener[r] = "accepting" => config.binding[r] # a

Listen(r) ==
    /\ Alive /\ listener[r] = "starting"
    /\ listener' = [listener EXCEPT
                      ![r] = IF Bindable(config.binding[r]) THEN "accepting" ELSE "failed"]
    /\ UNCHANGED <<environment, main, busy, signalled, expired>>

------------------------------------------------------------------------------
(* Requests *)

Accept(r) ==
    /\ Alive /\ listener[r] = "accepting" /\ busy[r] < MaxRequests
    /\ busy' = [busy EXCEPT ![r] = @ + 1]
    /\ UNCHANGED <<environment, main, listener, signalled, expired>>

Answer(r) ==
    /\ Alive /\ busy[r] > 0
    /\ busy' = [busy EXCEPT ![r] = @ - 1]
    /\ UNCHANGED <<environment, main, listener, signalled, expired>>

------------------------------------------------------------------------------
(* setupGracefulShutdown *)

\* signal.Notify: from here on a signal no longer kills the process.
Notify ==
    /\ phase = "started"
    /\ phase' = "waiting"
    /\ UNCHANGED <<environment, todo, created, claimed, servers, listener,
                   busy, signalled, expired>>

Signal ==
    /\ Alive /\ ~signalled
    /\ signalled' = TRUE
    /\ phase' = IF phase = "waiting" THEN phase ELSE "killed"
    /\ UNCHANGED <<environment, todo, created, claimed, servers, listener, busy, expired>>

Stop ==
    /\ phase = "waiting" /\ signalled
    /\ phase' = "stopping"
    /\ UNCHANGED <<environment, todo, created, claimed, servers, listener,
                   busy, signalled, expired>>

\* Server.Shutdown closes the listener, or keeps one from ever opening, and then
\* waits for the server's requests.
Shutdown(r) ==
    /\ phase = "stopping" /\ r \in servers /\ listener[r] \in {"starting", "accepting"}
    /\ listener' = [listener EXCEPT ![r] = "closed"]
    /\ UNCHANGED <<environment, main, busy, signalled, expired>>

Expire ==
    /\ phase = "stopping" /\ ~expired
    /\ expired' = TRUE
    /\ UNCHANGED <<environment, main, listener, busy, signalled>>

\* Seeded fault: the shutdown context has no deadline.
ShutDownPatiently(r) == listener[r] \in {"closed", "failed"} /\ busy[r] = 0

\* Server.Shutdown has returned.
ShutDown(r) == listener[r] \in {"closed", "failed"} /\ (busy[r] = 0 \/ expired)

\* Seeded fault: main does not wait for the Shutdowns.
ExitAtOnce ==
    /\ phase = "stopping"
    /\ phase' = "done"
    /\ UNCHANGED <<environment, todo, created, claimed, servers, listener,
                   busy, signalled, expired>>

\* All Shutdowns have returned: main returns.
Exit ==
    /\ phase = "stopping"
    /\ \A r \in servers : ShutDown(r)
    /\ phase' = "done"
    /\ UNCHANGED <<environment, todo, created, claimed, servers, listener,
                   busy, signalled, expired>>

Main ==
    \/ \E s \in Storages : CreateStorage(s)
    \/ \E r \in Registries : CreateRegistry(r) \/ StartServer(r)
    \/ Loaded \/ Started \/ Notify \/ Stop \/ Exit

Next ==
    \/ Main \/ Signal \/ Expire
    \/ \E r \in Registries : Listen(r) \/ Shutdown(r) \/ Accept(r) \/ Answer(r)

\* Goroutines are not starved and the deadline passes; requests may never end.
Spec ==
    /\ Init /\ [][Next]_vars
    /\ WF_vars(Main) /\ WF_vars(Expire)
    /\ \A r \in Registries : WF_vars(Listen(r)) /\ WF_vars(Shutdown(r))

------------------------------------------------------------------------------
(* Properties *)

TypeOK ==
    /\ config \in Config
    /\ taken \subseteq Addresses
    /\ phase \in Ended \cup {"storages", "registries", "starting", "started",
                             "waiting", "stopping"}
    /\ todo \subseteq Storages \cup Registries
    /\ created \subseteq Storages \cup Registries
    /\ claimed \subseteq Addresses
    /\ servers \subseteq Registries
    /\ listener \in [Registries -> {"none", "starting", "accepting", "failed", "closed"}]
    /\ busy \in [Registries -> 0 .. MaxRequests]
    /\ signalled \in BOOLEAN /\ expired \in BOOLEAN

\* No request reaches a registry whose storage could not be created, and a server
\* that fails to listen, which nobody is told of, fails for what other processes
\* listen on, never for another registry of this one.
ServedProperly ==
    \A r \in Registries :
        /\ listener[r] = "accepting" => config.storage[r] \in config.storages \cap config.usable
        /\ listener[r] = "failed" => config.binding[r] \in taken

\* When main returns, every server StartAllServers ever started has been shut down
\* (none is missing from the list it handed over), and a request is cut off only
\* when the 30 seconds are over.
CleanStop ==
    phase = "done" => \A r \in Registries :
        listener[r] # "accepting" /\ (busy[r] = 0 \/ expired)

\* A signal ends the process, however long its clients keep their requests open.
SignalStops == signalled ~> ~Alive

==============================================================================
