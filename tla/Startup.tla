------------------------------- MODULE Startup ------------------------------
(***************************************************************************)
(* From the raw configuration to a serving proxy: main (src/src/main.rs),  *)
(* ProxyConfigResolved::try_from (src/src/conf/resolved.rs),               *)
(* RouteTable::try_new (src/src/proxy/route.rs) and SimpleProxy::try_new   *)
(* (src/src/proxy/simple_proxy.rs).                                        *)
(*                                                                         *)
(* The program is sequential; one action is one iteration of one of its    *)
(* loops or one fallible call.  An error in any of them ends the process   *)
(* before the listener is added; a limit of zero requests panics.          *)
(***************************************************************************)
EXTENDS Naturals, Sequences

CONSTANTS
  ServerNames,      \* names that servers may be given
  UpstreamNames,    \* names that upstreams may be given
  Backends,         \* lists of backend addresses
  BadBackends,      \* those with an address that does not resolve
  Configs,          \* the raw configurations to start with
  Unset             \* not in the map

\* What a server name resolves to.
Resolution == [tls : BOOLEAN, upstream : Backends]

TlsFiles == {"cert", "key", "ca"}

UpstreamConfig == [name : UpstreamNames, servers : Backends]
ServerConfig == [names : Seq(ServerNames), upstream : UpstreamNames, tls : BOOLEAN]

\* A raw configuration.  Files are what the program finds when it looks.
RawConfigs ==
  [ file      : {"ok", "unreadable"},
    tls       : {"none", "ok", "invalid"},
    missing   : SUBSET TlsFiles,
    limit     : {"none", "zero", "positive"},
    upstreams : Seq(UpstreamConfig),
    servers   : Seq(ServerConfig) ]

ASSUME StartupAssumption ==
  /\ Configs \subseteq RawConfigs
  /\ BadBackends \subseteq Backends
  /\ Unset \notin Backends \cup Resolution

VARIABLES
  config,        \* the raw configuration
  phase,         \* what the program does next, or how it ended
  error,         \* why it failed
  i, j,          \* loop variables: an upstream or server, and one of its names
  upstreamMap,   \* upstream name -> backends
  servers,       \* server name -> [tls, upstream]
  routes         \* server name -> [tls, upstream] of its route entry

vars == <<config, phase, error, i, j, upstreamMap, servers, routes>>

Ended == {"serving", "failed", "panicked"}

Init ==
  /\ config \in Configs
  /\ phase = "load"
  /\ error = "none"
  /\ i = 1
  /\ j = 1
  /\ upstreamMap = [u \in UpstreamNames |-> Unset]
  /\ servers = [s \in ServerNames |-> Unset]
  /\ routes = [s \in ServerNames |-> Unset]

Fail(reason) ==
  /\ phase' = "failed"
  /\ error' = reason
  /\ UNCHANGED <<config, i, j, upstreamMap, servers, routes>>

\* On to the next stage.
Enter(stage) ==
  /\ phase' = stage
  /\ i' = 1
  /\ j' = 1
  /\ UNCHANGED <<config, error, upstreamMap, servers, routes>>

-----------------------------------------------------------------------------
(* ProxyConfigResolved::load                                               *)

\* The file opens and parses.
Parsed == config.file = "ok"

Load ==
  /\ phase = "load"
  /\ IF Parsed THEN Enter("upstreams") ELSE Fail("config_file")

\* Mutant: the first upstream of a name stays.
FirstBackends(u) == IF upstreamMap[u.name] = Unset THEN u.servers ELSE upstreamMap[u.name]

\* HashMap::insert replaces what an earlier upstream of the name put there.
InsertedBackends(u) == u.servers

AddUpstream ==
  /\ phase = "upstreams"
  /\ i <= Len(config.upstreams)
  /\ LET u == config.upstreams[i]
     IN  upstreamMap' = [upstreamMap EXCEPT ![u.name] = InsertedBackends(u)]
  /\ i' = i + 1
  /\ UNCHANGED <<config, phase, error, j, servers, routes>>

UpstreamsAdded ==
  /\ phase = "upstreams"
  /\ i > Len(config.upstreams)
  /\ Enter("global")

\* The files that are named but not there.
Missing == IF config.tls = "none" THEN {} ELSE config.missing

\* TlsConfigResolved::try_from looks for certificate, key and CA, in this order.
FoundBefore(f) == CASE f = "cert" -> {} [] f = "key" -> {"cert"} [] f = "ca" -> {"cert", "key"}

RejectTlsFile(f) ==
  /\ phase = "global"
  /\ f \in Missing
  /\ FoundBefore(f) \cap Missing = {}
  /\ Fail(f)

\* GlobalConfigResolved::try_from.
ResolveGlobal ==
  /\ phase = "global"
  /\ Missing = {}
  /\ Enter("servers")

Server == config.servers[i]

ServerLeft == phase = "servers" /\ i <= Len(config.servers)

\* Mutant: an unknown upstream resolves to no backends at all.
NeverUnknown == FALSE

UnknownUpstream == upstreamMap[Server.upstream] = Unset

\* try_from_with_maps, once per server, before its names are looked at.
RejectUpstream ==
  /\ ServerLeft
  /\ UnknownUpstream
  /\ Fail("upstream_not_found")

\* Mutants: any entry in the map counts as the name; a name is compared with
\* the names of the same server only.
TakenByAnother(name) == \E s \in ServerNames : servers[s] # Unset
TakenBySameServer(name) == \E k \in 1 .. j - 1 : Server.names[k] = name

Taken(name) == servers[name] # Unset

RejectName ==
  /\ ServerLeft
  /\ ~UnknownUpstream
  /\ j <= Len(Server.names)
  /\ Taken(Server.names[j])
  /\ Fail("duplicate_server_name")

AddName ==
  /\ ServerLeft
  /\ ~UnknownUpstream
  /\ j <= Len(Server.names)
  /\ ~Taken(Server.names[j])
  /\ servers' = [servers EXCEPT ![Server.names[j]] =
       [tls |-> Server.tls, upstream |-> upstreamMap[Server.upstream]]]
  /\ j' = j + 1
  /\ UNCHANGED <<config, phase, error, i, upstreamMap, routes>>

NextServer ==
  /\ ServerLeft
  /\ ~UnknownUpstream
  /\ j > Len(Server.names)
  /\ i' = i + 1
  /\ j' = 1
  /\ UNCHANGED <<config, phase, error, upstreamMap, servers, routes>>

ServersResolved ==
  /\ phase = "servers"
  /\ i > Len(config.servers)
  /\ Enter("tls")

-----------------------------------------------------------------------------
(* main and SimpleProxy::try_new                                           *)

\* TlsSettings::intermediate reads certificate and key.
SetUpTls ==
  /\ phase = "tls"
  /\ IF config.tls = "invalid" THEN Fail("tls_settings") ELSE Enter("routes")

Resolved == {s \in ServerNames : servers[s] # Unset}
Unrouted == {s \in Resolved : routes[s] = Unset}

\* RouteTable::try_new, in the order the HashMap yields the names.
AddRoute(s) ==
  /\ phase = "routes"
  /\ s \in Unrouted
  /\ IF servers[s].upstream \in BadBackends
     THEN Fail("address")
     ELSE /\ routes' = [routes EXCEPT ![s] = servers[s]]
          /\ UNCHANGED <<config, phase, error, i, j, upstreamMap, servers>>

\* RateLimiter::new asserts that the limit is positive.
LimitPositive == config.limit # "zero"

MakeLimiter ==
  /\ phase = "routes"
  /\ Unrouted = {}
  /\ IF LimitPositive THEN Enter("serving") ELSE Enter("panicked")

\* Startup is over.
Over == phase \in Ended /\ UNCHANGED vars

Next ==
  \/ Load
  \/ AddUpstream \/ UpstreamsAdded
  \/ ResolveGlobal \/ \E f \in TlsFiles : RejectTlsFile(f)
  \/ RejectUpstream \/ RejectName \/ AddName \/ NextServer \/ ServersResolved
  \/ SetUpTls
  \/ \E s \in ServerNames : AddRoute(s)
  \/ MakeLimiter
  \/ Over

Spec == Init /\ [][Next]_vars

-----------------------------------------------------------------------------
(* Properties                                                              *)

TypeOK ==
  /\ config \in Configs
  /\ phase \in {"load", "upstreams", "global", "servers", "tls", "routes"} \cup Ended
  /\ i \in Nat \ {0}
  /\ j \in Nat \ {0}
  /\ upstreamMap \in [UpstreamNames -> Backends \cup {Unset}]
  /\ servers \in [ServerNames -> Resolution \cup {Unset}]
  /\ routes \in [ServerNames -> Resolution \cup {Unset}]

\* The configuration read as a whole, without the order of the loops.
Defined(u) == {k \in DOMAIN config.upstreams : config.upstreams[k].name = u}
LastOf(u) == config.upstreams[CHOOSE k \in Defined(u) : \A m \in Defined(u) : m <= k].servers
NamesOf(k) == config.servers[k].names
Listings(s) ==
  UNION {{<<k, m>> : m \in {n \in DOMAIN NamesOf(k) : NamesOf(k)[n] = s}} : k \in DOMAIN config.servers}
Twice(s) == \E p, q \in Listings(s) : p # q
Listed == {s \in ServerNames : Listings(s) # {}}
ServerOf(s) == config.servers[(CHOOSE p \in Listings(s) : TRUE)[1]]

TlsUsable == config.tls = "none" \/ (config.tls = "ok" /\ config.missing = {})

\* Everything is good, the limit left aside.
Sound ==
  /\ config.file = "ok"
  /\ TlsUsable
  /\ \A k \in DOMAIN config.servers : Defined(config.servers[k].upstream) # {}
  /\ \A s \in ServerNames : ~Twice(s)
  /\ \A s \in Listed : LastOf(ServerOf(s).upstream) \notin BadBackends

WellFormed == Sound /\ config.limit # "zero"

\* All or nothing: the proxy comes to serve a configuration exactly when every
\* part of it is good, whichever loop would have met the fault first.
ServesWellFormed == phase \in Ended => (phase = "serving" <=> WellFormed)

\* The configuration has the fault that an error stands for.
Fault(e) ==
  /\ e = "config_file" => config.file # "ok"
  /\ e \in TlsFiles => config.tls # "none" /\ e \in config.missing
  /\ e = "tls_settings" => config.tls = "invalid"
  /\ e = "upstream_not_found" =>
       \E k \in DOMAIN config.servers : Defined(config.servers[k].upstream) = {}
  /\ e = "duplicate_server_name" => \E s \in ServerNames : Twice(s)
  /\ e = "address" => \E s \in Listed : LastOf(ServerOf(s).upstream) \in BadBackends

\* The error reported is a fault the configuration really has, with the
\* duplicates and unknown upstreams of one server told apart from the next;
\* and RateLimiter::new panics, as documented, only on a limit of zero in a
\* configuration that is good in every other respect.
ErrorIsReal ==
  /\ Fault(error)
  /\ phase = "panicked" => config.limit = "zero" /\ Sound

\* Once it serves, every listed name - and no other - is routed to the
\* backends of its server's upstream; of several upstreams with one name the
\* last one counts.
RoutesAsConfigured ==
  phase = "serving" =>
    \A s \in ServerNames :
      routes[s] = IF s \in Listed
                  THEN [tls |-> ServerOf(s).tls, upstream |-> LastOf(ServerOf(s).upstream)]
                  ELSE Unset

\* The inductive invariant says at every step what the properties say of the
\* end: the maps hold what a configuration that ended here would give.
Errors == TlsFiles \cup
  {"config_file", "tls_settings", "upstream_not_found", "duplicate_server_name", "address"}

\* Upstreams of a name, and entries of a server name, that were read so far.
DefinedSoFar(u) ==
  {k \in Defined(u) : phase \in {"load", "upstreams"} => k < i}
ListedSoFar(s) ==
  {p \in Listings(s) :
     /\ phase \notin {"load", "upstreams", "global"}
     /\ phase = "servers" => p[1] < i \/ (p[1] = i /\ p[2] < j)}

\* Upstreams were read in order, and the last one of a name counts.
MapFits ==
  \A u \in UpstreamNames :
    \/ DefinedSoFar(u) = {} /\ upstreamMap[u] = Unset
    \/ \E k \in DefinedSoFar(u) :
         /\ \A m \in DefinedSoFar(u) : m <= k
         /\ upstreamMap[u] = config.upstreams[k].servers

\* A name was met once at most, and got what its server says.
Given(p) ==
  [ tls      |-> config.servers[p[1]].tls,
    upstream |-> upstreamMap[config.servers[p[1]].upstream] ]

ServersFit ==
  \A s \in ServerNames :
    \/ ListedSoFar(s) = {} /\ servers[s] = Unset
    \/ \E p \in Listings(s) :
         /\ ListedSoFar(s) = {p}
         /\ servers[s] = Given(p) /\ servers[s] # Unset

\* All servers read so far have an upstream.
UpstreamsKnown ==
  \A k \in DOMAIN config.servers :
    phase \in {"tls", "routes"} \cup Ended \/ (phase = "servers" /\ k < i)
      => Defined(config.servers[k].upstream) # {}

RoutesFit ==
  /\ phase \notin {"routes"} \cup Ended => \A s \in ServerNames : routes[s] = Unset
  /\ phase \in Ended => routes = servers
  /\ \A s \in ServerNames :
       routes[s] = Unset \/ (routes[s] = servers[s] /\ servers[s].upstream \notin BadBackends)

\* What a stage has found good is good.
StagesFit ==
  /\ phase = "load" => i = 1
  /\ phase # "load" => Parsed
  /\ phase \in {"servers", "tls", "routes"} => Missing = {}
  /\ phase = "routes" => config.tls # "invalid"
  /\ phase = "serving" => Sound /\ LimitPositive

IInv ==
  /\ TypeOK
  /\ ErrorIsReal
  /\ IF phase = "failed"
     THEN error \in Errors
     ELSE error = "none" /\ MapFits /\ ServersFit /\ UpstreamsKnown /\ RoutesFit /\ StagesFit

=============================================================================
