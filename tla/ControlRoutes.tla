---------------------------- MODULE ControlRoutes ----------------------------
(***************************************************************************)
(* Servers on several hosts.  The handlers of the routes are coroutines     *)
(* that never yield: each host answers one request at a time, and while its  *)
(* core starts, stops or clears the remote collector of another host - a     *)
(* POST that waits for the answer, with a time-out - it answers nobody.      *)
(* Hosts may be each other's slaves.                                         *)
(***************************************************************************)
EXTENDS Integers, Sequences, FiniteSets

CONSTANTS
    Hosts,
    Client,       \* whoever else asks
    Nobody,       \* no slave, no request, or a requester that gave up
    Backlog,      \* connections a host accepts and has not served
    MaxAsked      \* requests of clients: a bound of the model

ASSUME RoutesAssumption ==
    Client \notin Hosts /\ Nobody \notin Hosts \cup {Client} /\ MaxAsked \in Nat

VARIABLES
    slave,        \* the remote slave in the configuration of a host
    count,        \* _running of its core
    told,         \* its collectors are started, as far as it knows
    backlog,      \* the requests that wait for its event loop
    serving,      \* the one on its event loop
    post,         \* the POST under way: "none", "waiting", or its outcome
    asked, answered

routes_vars == <<slave, count, told, backlog, serving, post, asked, answered>>

Kinds == {"start", "stop", "trigger", "clear", "get"}
Request(kind, from) == [kind |-> kind, from |-> from]
NoRequest == Request("get", Nobody)

\* A configuration: the slave of each host is another one, or there is none.
RoutesInit ==
    /\ slave \in {s \in [Hosts -> Hosts \cup {Nobody}] : \A h \in Hosts : s[h] # h}
    /\ count = [h \in Hosts |-> 0] /\ told = [h \in Hosts |-> FALSE]
    /\ backlog = [h \in Hosts |-> <<>>] /\ serving = [h \in Hosts |-> NoRequest]
    /\ post = [h \in Hosts |-> "none"]
    /\ asked = 0 /\ answered = 0

Idle(h) == serving[h] = NoRequest

ClientPosts ==
    /\ asked < MaxAsked /\ asked' = asked + 1
    /\ \E h \in Hosts, kind \in Kinds :
         /\ Len(backlog[h]) < Backlog
         /\ backlog' = [backlog EXCEPT ![h] = Append(@, Request(kind, Client))]
    /\ UNCHANGED <<slave, count, told, serving, post, answered>>

\* The event loop takes up the next request.
Serve(h) ==
    /\ Idle(h) /\ backlog[h] # <<>>
    /\ serving' = [serving EXCEPT ![h] = Head(backlog[h])]
    /\ backlog' = [backlog EXCEPT ![h] = Tail(@)]
    /\ UNCHANGED <<slave, count, told, post, asked, answered>>

\* _get_json_response, or HTTPException 500, to whoever still waits for it.
Answer(h, outcome) ==
    LET from == serving[h].from
    IN /\ serving' = [serving EXCEPT ![h] = NoRequest]
       /\ answered' = IF from = Client THEN answered + 1 ELSE answered
       /\ post' = [g \in Hosts |-> IF g = from THEN outcome
                                   ELSE IF g = h THEN "none" ELSE post[g]]

\* The POST of a remote collector: a full backlog refuses it at once.
Post(h, kind) ==
    /\ serving' = serving /\ answered' = answered
    /\ IF Len(backlog[slave[h]]) < Backlog
         THEN /\ backlog' = [backlog EXCEPT ![slave[h]] = Append(@, Request(kind, h))]
              /\ post' = [post EXCEPT ![h] = "waiting"]
         ELSE post' = [post EXCEPT ![h] = "error"] /\ UNCHANGED backlog

\* start, stop or clear of the host's collectors: the remote one, if there is one.
CallCollectors(h, kind, after) ==
    IF slave[h] = Nobody
      THEN told' = [told EXCEPT ![h] = after] /\ Answer(h, "ok") /\ UNCHANGED backlog
      ELSE Post(h, kind) /\ UNCHANGED told

At(h, kind) == serving[h].kind = kind /\ ~Idle(h) /\ post[h] = "none"
Routed == UNCHANGED <<slave, asked>>

\* POST /control/start: of a core that runs, and of one that does not.
StartCollection(h) ==
    /\ At(h, "start") /\ Routed
    /\ count' = [count EXCEPT ![h] = @ + 1]
    /\ IF count[h] > 0 \/ told[h]
         THEN Answer(h, "ok") /\ UNCHANGED <<told, backlog>>
         ELSE CallCollectors(h, "start", TRUE)

\* Mutant: a stop of a core that does not run counts too.
StopUncounted(h) ==
    /\ At(h, "stop") /\ Routed
    /\ count' = [count EXCEPT ![h] = @ - 1]
    /\ IF count[h] = 1 /\ told[h]
         THEN CallCollectors(h, "stop", FALSE)
         ELSE Answer(h, "ok") /\ UNCHANGED <<told, backlog>>

\* POST /control/stop: the last reference stops the collectors; a core whose
\* start failed has a thread that cannot be joined.
StopCollection(h) ==
    /\ At(h, "stop") /\ Routed
    /\ count' = [count EXCEPT ![h] = IF @ = 0 THEN 0 ELSE @ - 1]
    /\ IF count[h] = 1 /\ told[h]
         THEN CallCollectors(h, "stop", FALSE)
         ELSE Answer(h, IF count[h] = 1 THEN "error" ELSE "ok") /\ UNCHANGED <<told, backlog>>

\* POST /control/trigger and the GET routes ask no other host.
TriggerCollection(h) ==
    /\ At(h, "trigger") /\ Routed
    /\ \E outcome \in {"ok", "error"} : Answer(h, outcome)
    /\ UNCHANGED <<count, told, backlog>>

GetRoute(h) == At(h, "get") /\ Routed /\ Answer(h, "ok") /\ UNCHANGED <<count, told, backlog>>

\* POST /control/clear: whether the collectors are started or not.
ClearCollection(h) ==
    /\ At(h, "clear") /\ Routed /\ CallCollectors(h, "clear", told[h]) /\ UNCHANGED count

\* The answer of the slave is there.
Posted(h) ==
    /\ post[h] \in {"ok", "error"} /\ Routed
    /\ told' = IF post[h] = "ok" /\ serving[h].kind # "clear"
                 THEN [told EXCEPT ![h] = (serving[h].kind = "start")] ELSE told
    /\ Answer(h, post[h]) /\ UNCHANGED <<count, backlog>>

Forgets(h, r) == IF r.from = h THEN [r EXCEPT !.from = Nobody] ELSE r

\* Mutant: urlopen without a time-out.
WaitForAnswer(h) == post[h] = "waiting" /\ UNCHANGED routes_vars

\* The time-out of urlopen: the request stays where it is on the other host.
PostTimesOut(h) ==
    /\ post[h] = "waiting" /\ Routed
    /\ backlog' = [g \in Hosts |-> [i \in DOMAIN backlog[g] |-> Forgets(h, backlog[g][i])]]
    /\ LET from == serving[h].from
       IN /\ serving' = [g \in Hosts |-> IF g = h THEN NoRequest ELSE Forgets(h, serving[g])]
          /\ answered' = IF from = Client THEN answered + 1 ELSE answered
          /\ post' = [g \in Hosts |-> IF g = from THEN "error"
                                      ELSE IF g = h THEN "none" ELSE post[g]]
    /\ UNCHANGED <<count, told>>

ServerStep(h) ==
    \/ Serve(h) \/ StartCollection(h) \/ StopCollection(h) \/ TriggerCollection(h)
    \/ GetRoute(h) \/ ClearCollection(h) \/ Posted(h) \/ PostTimesOut(h)

RoutesNext == ClientPosts \/ \E h \in Hosts : ServerStep(h)

RoutesSpec == RoutesInit /\ [][RoutesNext]_routes_vars
\* Event loops run, and time passes.
RoutesFairness == \A h \in Hosts : WF_routes_vars(ServerStep(h))
RoutesFairSpec == RoutesSpec /\ RoutesFairness
-----------------------------------------------------------------------------
(* Properties. *)

Requests == [kind : Kinds, from : Hosts \cup {Client, Nobody}]
RoutesTypeOK ==
    /\ slave \in [Hosts -> Hosts \cup {Nobody}]
    /\ count \in [Hosts -> Nat] /\ told \in [Hosts -> BOOLEAN]
    /\ backlog \in [Hosts -> Seq(Requests)] /\ serving \in [Hosts -> Requests]
    /\ post \in [Hosts -> {"none", "waiting", "ok", "error"}]
    /\ asked \in 0..MaxAsked /\ answered \in 0..asked

\* Unless hosts are each other's slaves, they come to rest when the clients
\* do.  (If they are, a clear goes back and forth between them for ever.)
Mutual == \E h \in Hosts : slave[h] # Nobody /\ slave[slave[h]] # Nobody
HostsComeToRest == ~Mutual => <>[](\A h \in Hosts : Idle(h) /\ backlog[h] = <<>>)

\* Every client gets its answer, even from hosts that wait for each other.
ClientsAnswered == \A n \in 1..MaxAsked : asked >= n ~> answered >= n

RequestsAnswered == ClientsAnswered /\ HostsComeToRest
=============================================================================
