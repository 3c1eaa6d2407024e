------------------------------- MODULE MCService -------------------------------
(***************************************************************************)
(* The parts of the service around the core, each by itself: they share no  *)
(* state of the models, so that one run checks them side by side, as         *)
(* MCMonitors does.                                                         *)
(***************************************************************************)
EXTENDS IdRegistry, RotatedStorage, SubscriberHub, OfflineRun, ControlRoutes, MCGraphExchange

CONSTANTS o1, o2, o3, t1, t2
MCOwner == (o1 :> t1) @@ (o2 :> t2) @@ (o3 :> t2)

VARIABLE part

others(p) ==
    /\ UNCHANGED part /\ part = p
    /\ p # "ids" => UNCHANGED id_vars
    /\ p # "storage" => UNCHANGED storage_vars
    /\ p # "hub" => UNCHANGED hub_vars
    /\ p # "run" => UNCHANGED run_vars
    /\ p # "routes" => UNCHANGED routes_vars
    /\ p # "exchange" => UNCHANGED exchange_vars

service_vars == <<part, id_vars, storage_vars, hub_vars, run_vars, routes_vars, exchange_vars>>

ServiceInit ==
    /\ part \in {"ids", "storage", "hub", "run", "routes", "exchange"}
    /\ RegistryInit /\ StorageInit /\ HubInit /\ OfflineInit /\ RoutesInit
    /\ ExchangeInit
    /\ part # "ids" => identity = [o \in Objects |-> CHOOSE i \in Ids : TRUE]
    /\ part # "exchange" => address = CHOOSE a \in Addresses : TRUE
    /\ part # "routes" => slave = [h \in Hosts |-> Nobody]

ServiceNext ==
    \/ others("ids") /\ RegistryNext
    \/ others("storage") /\ StorageNext
    \/ others("hub") /\ HubNext
    \/ others("run") /\ OfflineNext
    \/ others("routes") /\ RoutesNext
    \/ others("exchange") /\ ExchangeNext

ServiceSpec == ServiceInit /\ [][ServiceNext]_service_vars

ServiceFairSpec == ServiceSpec /\ OfflineFairness /\ RoutesFairness

\* Every variable of the six modules has its type.
ServiceTypeOK == /\ RegistryTypeOK /\ StorageTypeOK /\ HubTypeOK /\ RunTypeOK /\ RoutesTypeOK
                 /\ ExchangeTypeOK

\* An entity stays the one it is: in the registry of its host, whatever threads
\* do to it, and under way from host to host.
EntitiesKept == IdentityKept /\ OriginKept
=============================================================================
