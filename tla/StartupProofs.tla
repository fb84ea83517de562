---------------------------- MODULE StartupProofs ----------------------------
(***************************************************************************)
(* Proofs about Startup for every set of raw configurations, of any number *)
(* of upstreams, servers and names.                                        *)
(*                                                                         *)
(* The properties are about the end of startup.  The inductive invariant   *)
(* IInv says the same of each of its loops so far: MapFits of the loop     *)
(* over the upstreams, ServersFit of the two nested ones over servers and  *)
(* their names, RoutesFit of the one over the map of names.                *)
(***************************************************************************)
EXTENDS Startup, TLAPS

-----------------------------------------------------------------------------
(* The configuration                                                       *)

LEMMA ConfigType ==
  ASSUME TypeOK
  PROVE  /\ config.file \in {"ok", "unreadable"}
         /\ config.tls \in {"none", "ok", "invalid"}
         /\ config.missing \in SUBSET TlsFiles
         /\ config.limit \in {"none", "zero", "positive"}
         /\ config.upstreams \in Seq(UpstreamConfig)
         /\ config.servers \in Seq(ServerConfig)
<1>1. config \in RawConfigs
  BY StartupAssumption DEF TypeOK
<1>2. QED
  BY <1>1 DEF RawConfigs

LEMMA UpstreamType ==
  ASSUME TypeOK
  PROVE  /\ Len(config.upstreams) \in Nat
         /\ DOMAIN config.upstreams = 1 .. Len(config.upstreams)
         /\ \A k \in DOMAIN config.upstreams :
              /\ config.upstreams[k].name \in UpstreamNames
              /\ config.upstreams[k].servers \in Backends
<1>1. config.upstreams \in Seq(UpstreamConfig)
  BY ConfigType
<1>2. \A k \in 1 .. Len(config.upstreams) : config.upstreams[k] \in UpstreamConfig
  BY <1>1
<1>3. QED
  BY <1>1, <1>2 DEF UpstreamConfig

LEMMA ServerType ==
  ASSUME TypeOK
  PROVE  /\ Len(config.servers) \in Nat
         /\ DOMAIN config.servers = 1 .. Len(config.servers)
         /\ \A k \in DOMAIN config.servers :
              /\ config.servers[k].upstream \in UpstreamNames
              /\ config.servers[k].tls \in BOOLEAN
              /\ config.servers[k].names \in Seq(ServerNames)
<1>1. config.servers \in Seq(ServerConfig)
  BY ConfigType
<1>2. \A k \in 1 .. Len(config.servers) : config.servers[k] \in ServerConfig
  BY <1>1
<1>3. \A c \in ServerConfig : c.upstream \in UpstreamNames /\ c.tls \in BOOLEAN
  BY DEF ServerConfig
<1>4. \A c \in ServerConfig : c.names \in Seq(ServerNames)
  BY DEF ServerConfig
<1>5. Len(config.servers) \in Nat /\ DOMAIN config.servers = 1 .. Len(config.servers)
  BY <1>1
<1>6. QED
  BY <1>2, <1>3, <1>4, <1>5

LEMMA NamesType ==
  ASSUME TypeOK, NEW k \in DOMAIN config.servers
  PROVE  /\ k \in Nat \ {0}
         /\ Len(NamesOf(k)) \in Nat
         /\ DOMAIN NamesOf(k) = 1 .. Len(NamesOf(k))
         /\ \A m \in DOMAIN NamesOf(k) : NamesOf(k)[m] \in ServerNames
<1>1. NamesOf(k) \in Seq(ServerNames) /\ k \in Nat \ {0}
  BY ServerType DEF NamesOf
<1>2. QED
  BY <1>1

\* An entry of a name is a place in the list of names of a server.
LEMMA ListingIs ==
  ASSUME NEW s, NEW p
  PROVE  p \in Listings(s) <=>
           \E k \in DOMAIN config.servers : \E m \in DOMAIN NamesOf(k) :
             p = <<k, m>> /\ NamesOf(k)[m] = s
<1>1. ASSUME p \in Listings(s)
      PROVE  \E k \in DOMAIN config.servers : \E m \in DOMAIN NamesOf(k) :
               p = <<k, m>> /\ NamesOf(k)[m] = s
  <2>1. PICK k \in DOMAIN config.servers :
          p \in {<<k, m>> : m \in {n \in DOMAIN NamesOf(k) : NamesOf(k)[n] = s}}
    BY <1>1 DEF Listings
  <2>2. QED
    BY <2>1
<1>2. ASSUME NEW k \in DOMAIN config.servers, NEW m \in DOMAIN NamesOf(k),
             p = <<k, m>>, NamesOf(k)[m] = s
      PROVE  p \in Listings(s)
  <2> DEFINE T(h) == {<<h, x>> : x \in {n \in DOMAIN NamesOf(h) : NamesOf(h)[n] = s}}
  <2>1. p \in T(k)
    BY <1>2
  <2>2. Listings(s) = UNION {T(h) : h \in DOMAIN config.servers}
    BY DEF Listings
  <2> HIDE DEF T
  <2>3. QED
    BY <2>1, <2>2
<1>3. QED
  BY <1>1, <1>2

LEMMA ListingAt ==
  ASSUME TypeOK, NEW s, NEW p \in Listings(s)
  PROVE  /\ p[1] \in DOMAIN config.servers /\ p[2] \in DOMAIN NamesOf(p[1])
         /\ p[1] \in Nat \ {0} /\ p[2] \in Nat \ {0}
         /\ p = <<p[1], p[2]>> /\ NamesOf(p[1])[p[2]] = s
<1>1. PICK k \in DOMAIN config.servers :
        \E m \in DOMAIN NamesOf(k) : p = <<k, m>> /\ NamesOf(k)[m] = s
  BY ListingIs
<1>2. PICK m \in DOMAIN NamesOf(k) : p = <<k, m>> /\ NamesOf(k)[m] = s
  BY <1>1
<1>3. p[1] = k /\ p[2] = m
  BY <1>2
<1>4. k \in Nat \ {0} /\ m \in Nat \ {0}
  BY NamesType
<1>5. QED
  BY <1>2, <1>3, <1>4

\* The last upstream of a name.
LEMMA LastIs ==
  ASSUME TypeOK, NEW u, NEW k \in Defined(u), \A m \in Defined(u) : m <= k
  PROVE  LastOf(u) = config.upstreams[k].servers
<1> DEFINE c == CHOOSE n \in Defined(u) : \A m \in Defined(u) : m <= n
<1>1. c \in Defined(u) /\ \A m \in Defined(u) : m <= c
  OBVIOUS
<1>2. c \in Nat /\ k \in Nat
  BY <1>1, UpstreamType DEF Defined
<1> HIDE DEF c
<1>3. c = k
  BY <1>1, <1>2
<1>4. QED
  BY <1>3 DEF LastOf, c

\* The server of a name that is listed once.
LEMMA ServerIs ==
  ASSUME NEW s, NEW p, Listings(s) = {p}
  PROVE  ServerOf(s) = config.servers[p[1]]
<1>1. (CHOOSE x \in Listings(s) : TRUE) = p
  OBVIOUS
<1>2. QED
  BY <1>1 DEF ServerOf

\* A name resolves to something.
LEMMA ResolutionIsSet ==
  ASSUME NEW x \in Resolution
  PROVE  x # Unset /\ x.upstream \in Backends
BY StartupAssumption DEF Resolution

\* No step changes the configuration, nor what is read off it.
LEMMA ConfigStays ==
  ASSUME [Next]_vars
  PROVE  UNCHANGED config
BY DEF Next, Load, AddUpstream, UpstreamsAdded, RejectTlsFile, ResolveGlobal, RejectUpstream,
       RejectName, AddName, NextServer, ServersResolved, SetUpTls, AddRoute, MakeLimiter, Over,
       Enter, Fail, vars

LEMMA ReadingStays ==
  ASSUME UNCHANGED config
  PROVE  /\ \A u : Defined(u)' = Defined(u)
         /\ \A s : Listings(s)' = Listings(s)
         /\ \A e : Fault(e)' <=> Fault(e)
         /\ Sound' <=> Sound
         /\ Missing' = Missing
         /\ Parsed' <=> Parsed
         /\ LimitPositive' <=> LimitPositive
<1>1. \A u : Defined(u)' = Defined(u)
  BY DEF Defined
<1>2. \A s : Listings(s)' = Listings(s)
  BY DEF Listings, NamesOf
<1>3. (\A e : Fault(e)' <=> Fault(e)) /\ (Sound' <=> Sound)
  BY DEF Fault, Sound, TlsUsable, Twice, Listed, Listings, NamesOf, LastOf, Defined, ServerOf
<1>4. QED
  BY <1>1, <1>2, <1>3 DEF Missing, Parsed, LimitPositive

-----------------------------------------------------------------------------
(* Steps that leave a part of the invariant alone                          *)

\* What the invariant says of a program that has not failed.
Going ==
  /\ phase # "failed"
  /\ error = "none"
  /\ MapFits /\ ServersFit /\ UpstreamsKnown /\ RoutesFit /\ StagesFit

LEMMA GoingOn == IInv /\ phase # "failed" => Going
  BY DEF IInv, Going

LEMMA Assembled ==
  ASSUME TypeOK', Going', phase' # "panicked"
  PROVE  IInv'
<1>1. Fault(error)'
  BY DEF Going, Fault, TlsFiles
<1>2. QED
  BY <1>1 DEF IInv, Going, ErrorIsReal

LEMMA MapStays ==
  ASSUME MapFits, UNCHANGED <<config, upstreamMap>>,
         \A u \in UpstreamNames : DefinedSoFar(u)' = DefinedSoFar(u)
  PROVE  MapFits'
BY DEF MapFits

LEMMA ServersStay ==
  ASSUME ServersFit, UNCHANGED <<config, upstreamMap, servers>>,
         \A s \in ServerNames : ListedSoFar(s)' = ListedSoFar(s)
  PROVE  ServersFit'
<1>1. \A s : Listings(s)' = Listings(s)
  BY ReadingStays
<1>2. \A p : Given(p)' = Given(p)
  BY DEF Given
<1>3. QED
  BY <1>1, <1>2 DEF ServersFit

\* An error that is a fault of the configuration.
LEMMA FailKept ==
  ASSUME IInv, NEW reason \in Errors, Fail(reason), Fault(reason)
  PROVE  IInv'
<1>1. phase' = "failed" /\ error' = reason /\ UNCHANGED <<config, i, j, upstreamMap, servers, routes>>
  BY DEF Fail
<1>2. TypeOK'
  BY <1>1 DEF IInv, TypeOK, Ended
<1>3. Fault(reason)'
  BY <1>1, ReadingStays
<1>4. Fault(error)'
  BY <1>1, <1>3 DEF Fault
<1>5. QED
  BY <1>1, <1>2, <1>4 DEF IInv, ErrorIsReal, Errors

\* What may follow one stage.
LEMMA EnterType ==
  ASSUME TypeOK, NEW stage \in {"upstreams", "global", "servers", "tls", "routes"} \cup Ended,
         Enter(stage)
  PROVE  TypeOK'
BY DEF TypeOK, Enter

-----------------------------------------------------------------------------
(* The invariant is inductive                                              *)

LEMMA IInvInit == Init => IInv
<1> SUFFICES ASSUME Init PROVE IInv
  OBVIOUS
<1>1. TypeOK
  BY DEF Init, TypeOK
<1>2. \A u \in UpstreamNames : DefinedSoFar(u) = {}
  <2>1. \A k \in DOMAIN config.upstreams : ~(k < 1)
    BY <1>1, UpstreamType
  <2>2. phase = "load" /\ i = 1
    BY DEF Init
  <2>3. QED
    BY <2>1, <2>2 DEF DefinedSoFar, Defined
<1>3. \A s \in ServerNames : ListedSoFar(s) = {}
  BY DEF Init, ListedSoFar
<1>4. MapFits /\ ServersFit
  BY <1>2, <1>3 DEF Init, MapFits, ServersFit
<1>5. UpstreamsKnown /\ RoutesFit /\ StagesFit
  BY DEF Init, UpstreamsKnown, RoutesFit, StagesFit, Ended
<1>6. Fault(error)
  BY DEF Init, Fault, TlsFiles
<1>7. QED
  BY <1>1, <1>4, <1>5, <1>6 DEF Init, IInv, ErrorIsReal

LEMMA LoadKept ==
  ASSUME IInv, Load
  PROVE  IInv'
<1>1. phase = "load" /\ TypeOK /\ Going
  BY GoingOn DEF Load, IInv
<1>2. CASE ~Parsed
  <2>1. Fail("config_file") /\ Fault("config_file")
    BY <1>2 DEF Load, Fault, Parsed, TlsFiles
  <2>2. QED
    BY <2>1, FailKept DEF Errors
<1>3. CASE Parsed
  <2>1. Enter("upstreams")
    BY <1>3 DEF Load
  <2>2. /\ phase' = "upstreams" /\ i' = 1 /\ i = 1
        /\ UNCHANGED <<config, error, upstreamMap, servers, routes>>
    BY <1>1, <2>1 DEF Enter, Going, StagesFit
  <2>3. TypeOK'
    BY <1>1, <2>1, EnterType
  <2>4. MapFits'
    <3>1. \A u \in UpstreamNames : DefinedSoFar(u)' = DefinedSoFar(u)
      BY <1>1, <2>2, ReadingStays DEF DefinedSoFar
    <3>2. QED
      BY <1>1, <2>2, <3>1, MapStays DEF Going
  <2>5. ServersFit'
    <3>1. \A s \in ServerNames : ListedSoFar(s)' = ListedSoFar(s)
      BY <1>1, <2>2 DEF ListedSoFar
    <3>2. QED
      BY <1>1, <2>2, <3>1, ServersStay DEF Going
  <2>6. UpstreamsKnown' /\ RoutesFit'
    BY <1>1, <2>2 DEF Going, UpstreamsKnown, RoutesFit, Ended
  <2>7. StagesFit'
    BY <1>3, <2>2, ReadingStays DEF StagesFit
  <2>8. QED
    BY <1>1, <2>2, <2>3, <2>4, <2>5, <2>6, <2>7, Assembled DEF Going
<1>4. QED
  BY <1>2, <1>3

LEMMA AddUpstreamKept ==
  ASSUME IInv, AddUpstream
  PROVE  IInv'
<1> DEFINE u == config.upstreams[i]
<1>1. /\ phase = "upstreams" /\ TypeOK /\ Going
      /\ i \in DOMAIN config.upstreams /\ i \in Nat
  BY GoingOn, UpstreamType DEF AddUpstream, IInv, TypeOK
<1>2. /\ upstreamMap' = [upstreamMap EXCEPT ![u.name] = u.servers]
      /\ i' = i + 1
      /\ UNCHANGED <<config, phase, error, j, servers, routes>>
  BY DEF AddUpstream, InsertedBackends
<1>3. u.name \in UpstreamNames /\ u.servers \in Backends
  BY <1>1, UpstreamType
<1> HIDE DEF u
<1>4. TypeOK'
  BY <1>1, <1>2, <1>3 DEF TypeOK
<1>5. MapFits'
  <2> SUFFICES ASSUME NEW v \in UpstreamNames
               PROVE  \/ DefinedSoFar(v)' = {} /\ upstreamMap'[v] = Unset
                      \/ \E k \in DefinedSoFar(v)' :
                           /\ \A m \in DefinedSoFar(v)' : m <= k
                           /\ upstreamMap'[v] = config'.upstreams[k].servers
    BY DEF MapFits
  <2>1. \A k \in Defined(v) : k \in Nat
    BY <1>1, UpstreamType DEF Defined
  <2>2. /\ DefinedSoFar(v) = {k \in Defined(v) : k < i}
        /\ DefinedSoFar(v)' = {k \in Defined(v) : k < i + 1}
    BY <1>1, <1>2, ReadingStays DEF DefinedSoFar
  <2>3. CASE v = u.name
    <3>1. i \in DefinedSoFar(v)' /\ \A m \in DefinedSoFar(v)' : m <= i
      BY <1>1, <2>1, <2>2, <2>3 DEF Defined, u
    <3>2. upstreamMap'[v] = config'.upstreams[i].servers
      BY <1>1, <1>2, <2>3 DEF TypeOK, u
    <3>3. QED
      BY <3>1, <3>2
  <2>4. CASE v # u.name
    <3>1. i \notin Defined(v)
      BY <2>4 DEF Defined, u
    <3>2. DefinedSoFar(v)' = DefinedSoFar(v)
      BY <1>1, <2>1, <2>2, <3>1
    <3>3. upstreamMap'[v] = upstreamMap[v]
      BY <1>1, <1>2, <2>4 DEF TypeOK
    <3>4. QED
      BY <1>1, <1>2, <3>2, <3>3 DEF Going, MapFits
  <2>5. QED
    BY <2>3, <2>4
<1>6. ServersFit'
  <2>1. \A s \in ServerNames : ListedSoFar(s) = {} /\ ListedSoFar(s)' = {}
    BY <1>1, <1>2 DEF ListedSoFar
  <2>2. \A s \in ServerNames : servers'[s] = Unset
    BY <1>1, <1>2, <2>1 DEF Going, ServersFit
  <2>3. QED
    BY <2>1, <2>2 DEF ServersFit
<1>7. UpstreamsKnown' /\ RoutesFit'
  BY <1>1, <1>2 DEF Going, UpstreamsKnown, RoutesFit, Ended
<1>8. StagesFit'
  BY <1>1, <1>2, ReadingStays DEF Going, StagesFit
<1>9. QED
  BY <1>1, <1>2, <1>4, <1>5, <1>6, <1>7, <1>8, Assembled DEF Going

LEMMA UpstreamsAddedKept ==
  ASSUME IInv, UpstreamsAdded
  PROVE  IInv'
<1>1. phase = "upstreams" /\ i > Len(config.upstreams) /\ TypeOK /\ Going /\ Enter("global")
  BY GoingOn DEF UpstreamsAdded, IInv
<1>2. /\ phase' = "global"
      /\ UNCHANGED <<config, error, upstreamMap, servers, routes>>
  BY <1>1 DEF Enter
<1>3. TypeOK'
  BY <1>1, EnterType
<1>4. MapFits'
  <2>1. \A k \in DOMAIN config.upstreams : k < i
    BY <1>1, UpstreamType DEF TypeOK
  <2>2. \A u \in UpstreamNames : DefinedSoFar(u)' = DefinedSoFar(u)
    BY <1>1, <1>2, <2>1, ReadingStays DEF DefinedSoFar, Defined
  <2>3. QED
    BY <1>1, <1>2, <2>2, MapStays DEF Going
<1>5. ServersFit'
  <2>1. \A s \in ServerNames : ListedSoFar(s)' = ListedSoFar(s)
    BY <1>1, <1>2 DEF ListedSoFar
  <2>2. QED
    BY <1>1, <1>2, <2>1, ServersStay DEF Going
<1>6. UpstreamsKnown' /\ RoutesFit'
  BY <1>1, <1>2 DEF Going, UpstreamsKnown, RoutesFit, Ended
<1>7. StagesFit'
  BY <1>1, <1>2, ReadingStays DEF Going, StagesFit
<1>8. QED
  BY <1>1, <1>2, <1>3, <1>4, <1>5, <1>6, <1>7, Assembled DEF Going

LEMMA GlobalKept ==
  ASSUME IInv, ResolveGlobal \/ \E f \in TlsFiles : RejectTlsFile(f)
  PROVE  IInv'
<1>1. phase = "global" /\ TypeOK /\ Going
  BY GoingOn DEF ResolveGlobal, RejectTlsFile, IInv
<1>2. ASSUME NEW f \in TlsFiles, RejectTlsFile(f) PROVE IInv'
  <2>1. f \in Missing /\ Fail(f)
    BY <1>2 DEF RejectTlsFile
  <2>2. config.tls # "none" /\ f \in config.missing
    BY <2>1 DEF Missing
  <2>3. Fault(f) /\ f \in Errors
    BY <2>2 DEF Fault, TlsFiles, Errors
  <2>4. QED
    BY <2>1, <2>3, FailKept
<1>3. CASE ResolveGlobal
  <2>1. Missing = {} /\ Enter("servers")
    BY <1>3 DEF ResolveGlobal
  <2>2. /\ phase' = "servers" /\ i' = 1 /\ j' = 1
        /\ UNCHANGED <<config, error, upstreamMap, servers, routes>>
    BY <2>1 DEF Enter
  <2>3. TypeOK'
    BY <1>1, <2>1, EnterType
  <2>4. MapFits'
    <3>1. \A u \in UpstreamNames : DefinedSoFar(u)' = DefinedSoFar(u)
      BY <1>1, <2>2, ReadingStays DEF DefinedSoFar
    <3>2. QED
      BY <1>1, <2>2, <3>1, MapStays DEF Going
  <2>5. ServersFit'
    <3>1. ASSUME NEW s \in ServerNames PROVE ListedSoFar(s)' = ListedSoFar(s)
      <4>1. ListedSoFar(s) = {}
        BY <1>1 DEF ListedSoFar
      <4>2. \A p \in Listings(s) : ~(p[1] < 1) /\ ~(p[2] < 1)
        BY <1>1, ListingAt
      <4>3. ListedSoFar(s)' = {}
        BY <2>2, <4>2, ReadingStays DEF ListedSoFar
      <4>4. QED
        BY <4>1, <4>3
    <3>2. QED
      BY <1>1, <2>2, <3>1, ServersStay DEF Going
  <2>6. UpstreamsKnown' /\ RoutesFit'
    <3>1. \A k \in DOMAIN config.servers : ~(k < 1)
      BY <1>1, ServerType
    <3>2. QED
      BY <1>1, <2>2, <3>1 DEF Going, UpstreamsKnown, RoutesFit, Ended
  <2>7. StagesFit'
    BY <1>1, <2>1, <2>2, ReadingStays DEF Going, StagesFit
  <2>8. QED
    BY <1>1, <2>2, <2>3, <2>4, <2>5, <2>6, <2>7, Assembled DEF Going
<1>4. QED
  BY <1>2, <1>3

-----------------------------------------------------------------------------
(* Servers and their names                                                 *)

\* Where the program is when it looks at a server.
LEMMA AtServer ==
  ASSUME IInv, ServerLeft
  PROVE  /\ phase = "servers" /\ TypeOK /\ Going
         /\ i \in DOMAIN config.servers /\ i \in Nat \ {0} /\ j \in Nat \ {0}
         /\ Server.upstream \in UpstreamNames /\ Server.tls \in BOOLEAN
         /\ Server.names = NamesOf(i)
         /\ Len(NamesOf(i)) \in Nat /\ DOMAIN NamesOf(i) = 1 .. Len(NamesOf(i))
<1>1. phase = "servers" /\ TypeOK /\ Going
  BY GoingOn DEF ServerLeft, IInv
<1>2. i \in DOMAIN config.servers /\ i \in Nat \ {0} /\ j \in Nat \ {0}
  BY <1>1, ServerType DEF ServerLeft, TypeOK
<1>3. QED
  BY <1>1, <1>2, ServerType, NamesType DEF Server, NamesOf

\* All upstreams were read: a name is in the map when it is defined.
LEMMA MapComplete ==
  ASSUME TypeOK, MapFits, phase \notin {"load", "upstreams"}, NEW u \in UpstreamNames
  PROVE  /\ upstreamMap[u] = Unset <=> Defined(u) = {}
         /\ Defined(u) # {} => upstreamMap[u] = LastOf(u)
<1>1. DefinedSoFar(u) = Defined(u)
  BY DEF DefinedSoFar
<1>2. CASE Defined(u) = {} /\ upstreamMap[u] = Unset
  BY <1>2
<1>3. ASSUME NEW k \in Defined(u), \A m \in Defined(u) : m <= k,
             upstreamMap[u] = config.upstreams[k].servers
      PROVE  Defined(u) # {} /\ upstreamMap[u] = LastOf(u) /\ upstreamMap[u] # Unset
  <2>1. upstreamMap[u] = LastOf(u)
    BY <1>3, LastIs
  <2>2. config.upstreams[k].servers \in Backends
    BY UpstreamType DEF Defined
  <2>3. QED
    BY <1>3, <2>1, <2>2, StartupAssumption
<1>4. QED
  BY <1>1, <1>2, <1>3 DEF MapFits

\* A name that is in the map was met before, and once.
LEMMA TakenIsListed ==
  ASSUME TypeOK, ServersFit, NEW s \in ServerNames
  PROVE  /\ servers[s] = Unset => ListedSoFar(s) = {}
         /\ servers[s] # Unset => \E p \in Listings(s) : ListedSoFar(s) = {p} /\ servers[s] = Given(p)
BY DEF ServersFit

LEMMA RejectUpstreamKept ==
  ASSUME IInv, RejectUpstream
  PROVE  IInv'
<1>1. ServerLeft /\ UnknownUpstream /\ Fail("upstream_not_found")
  BY DEF RejectUpstream
<1>2. Defined(Server.upstream) = {}
  BY <1>1, AtServer, MapComplete DEF UnknownUpstream, Going
<1>3. Fault("upstream_not_found")
  BY <1>1, <1>2, AtServer DEF Fault, Server, TlsFiles
<1>4. QED
  BY <1>1, <1>3, FailKept DEF Errors

\* The entry the program looks at was not met before.
LEMMA EntryIsNew ==
  ASSUME IInv, ServerLeft, j <= Len(NamesOf(i))
  PROVE  /\ NamesOf(i)[j] \in ServerNames
         /\ <<i, j>> \in Listings(NamesOf(i)[j])
         /\ <<i, j>> \notin ListedSoFar(NamesOf(i)[j])
<1>1. j \in DOMAIN NamesOf(i)
  BY AtServer
<1>2. NamesOf(i)[j] \in ServerNames
  BY <1>1, AtServer, NamesType
<1>3. <<i, j>> \in Listings(NamesOf(i)[j])
  BY <1>1, AtServer, ListingIs
<1>4. <<i, j>>[1] = i /\ <<i, j>>[2] = j
  OBVIOUS
<1>5. <<i, j>> \notin ListedSoFar(NamesOf(i)[j])
  BY <1>4, AtServer DEF ListedSoFar
<1>6. QED
  BY <1>2, <1>3, <1>5

LEMMA RejectNameKept ==
  ASSUME IInv, RejectName
  PROVE  IInv'
<1> DEFINE s == NamesOf(i)[j]
<1>1. /\ ServerLeft /\ j <= Len(NamesOf(i))
      /\ servers[s] # Unset /\ Fail("duplicate_server_name")
  BY AtServer DEF RejectName, Taken
<1>2. s \in ServerNames /\ <<i, j>> \in Listings(s) /\ <<i, j>> \notin ListedSoFar(s)
  BY <1>1, EntryIsNew
<1> HIDE DEF s
<1>3. PICK p \in Listings(s) : ListedSoFar(s) = {p}
  BY <1>1, <1>2, AtServer, TakenIsListed DEF Going
<1>4. Twice(s)
  BY <1>2, <1>3 DEF Twice
<1>5. Fault("duplicate_server_name")
  BY <1>2, <1>4 DEF Fault, TlsFiles
<1>6. QED
  BY <1>1, <1>5, FailKept DEF Errors

LEMMA AddNameKept ==
  ASSUME IInv, AddName
  PROVE  IInv'
<1> DEFINE s == NamesOf(i)[j]
           e == Given(<<i, j>>)
<1>1. ServerLeft /\ j <= Len(NamesOf(i)) /\ servers[s] = Unset /\ ~UnknownUpstream
  BY AtServer DEF AddName, Taken
<1>2. /\ servers' = [servers EXCEPT ![s] = e]
      /\ j' = j + 1
      /\ UNCHANGED <<config, phase, error, i, upstreamMap, routes>>
  BY <1>1, AtServer DEF AddName, Given, Server
<1>3. /\ phase = "servers" /\ TypeOK /\ Going /\ i \in Nat \ {0} /\ j \in Nat \ {0}
  BY <1>1, AtServer
<1>4. s \in ServerNames /\ <<i, j>> \in Listings(s)
  BY <1>1, EntryIsNew
<1>5. e \in Resolution
  <2>1. upstreamMap[Server.upstream] \in Backends
    BY <1>1, AtServer DEF UnknownUpstream, TypeOK
  <2>2. e = [tls |-> Server.tls, upstream |-> upstreamMap[Server.upstream]]
    BY DEF Given, Server
  <2>3. QED
    BY <1>1, <2>1, <2>2, AtServer DEF Resolution
<1>6. ASSUME NEW t \in ServerNames
      PROVE  ListedSoFar(t)' = IF t = s THEN ListedSoFar(t) \cup {<<i, j>>} ELSE ListedSoFar(t)
  <2>1. ListedSoFar(t) = {p \in Listings(t) : p[1] < i \/ (p[1] = i /\ p[2] < j)}
    BY <1>3 DEF ListedSoFar
  <2>2. ListedSoFar(t)' = {p \in Listings(t) : p[1] < i \/ (p[1] = i /\ p[2] < j + 1)}
    BY <1>2, <1>3, ReadingStays DEF ListedSoFar
  <2>3. ASSUME NEW p \in Listings(t)
        PROVE  /\ p[1] = i /\ p[2] < j + 1 <=> (p[1] = i /\ p[2] < j) \/ p = <<i, j>>
               /\ p = <<i, j>> => t = s
    <3>1. /\ p[1] \in Nat /\ p[2] \in Nat /\ p = <<p[1], p[2]>>
          /\ NamesOf(p[1])[p[2]] = t
      BY <1>3, ListingAt
    <3>2. p = <<i, j>> <=> p[1] = i /\ p[2] = j
      BY <3>1
    <3>3. QED
      BY <1>3, <3>1, <3>2
  <2>4. <<i, j>> \in Listings(t) <=> t = s
    BY <1>4, <2>3
  <2> HIDE DEF s
  <2>5. QED
    BY <2>1, <2>2, <2>3, <2>4
<1> HIDE DEF s, e
<1>7. TypeOK'
  BY <1>2, <1>3, <1>4, <1>5 DEF TypeOK
<1>8. MapFits'
  <2>1. \A u \in UpstreamNames : DefinedSoFar(u)' = DefinedSoFar(u)
    BY <1>2, <1>3, ReadingStays DEF DefinedSoFar
  <2>2. QED
    BY <1>2, <1>3, <2>1, MapStays DEF Going
<1>9. ServersFit'
  <2> SUFFICES ASSUME NEW t \in ServerNames
               PROVE  \/ ListedSoFar(t)' = {} /\ servers'[t] = Unset
                      \/ \E p \in Listings(t)' :
                           /\ ListedSoFar(t)' = {p}
                           /\ servers'[t] = Given(p)' /\ servers'[t] # Unset
    BY DEF ServersFit
  <2>1. /\ Listings(t)' = Listings(t)
        /\ \A p : Given(p)' = Given(p)
    BY <1>2, ReadingStays DEF Given
  <2>2. CASE t = s
    <3>1. ListedSoFar(t)' = {<<i, j>>}
      BY <1>1, <1>3, <1>4, <1>6, <2>2, TakenIsListed DEF Going
    <3>2. servers'[t] = e /\ e # Unset
      BY <1>2, <1>3, <1>4, <1>5, <2>2, ResolutionIsSet DEF TypeOK
    <3>3. <<i, j>> \in Listings(t)'
      BY <1>4, <2>1, <2>2
    <3>4. QED
      BY <2>1, <3>1, <3>2, <3>3 DEF e
  <2>3. CASE t # s
    <3>1. ListedSoFar(t)' = ListedSoFar(t)
      BY <1>6, <2>3
    <3>2. servers'[t] = servers[t]
      BY <1>2, <1>3, <2>3 DEF TypeOK
    <3>3. QED
      BY <1>3, <2>1, <3>1, <3>2 DEF Going, ServersFit
  <2>4. QED
    BY <2>2, <2>3
<1>10. UpstreamsKnown'
  BY <1>2, <1>3, ReadingStays DEF Going, UpstreamsKnown, Ended
<1>11. RoutesFit'
  BY <1>2, <1>3 DEF Going, RoutesFit, Ended
<1>12. StagesFit'
  BY <1>2, <1>3, ReadingStays DEF Going, StagesFit
<1>13. QED
  BY <1>2, <1>3, <1>7, <1>8, <1>9, <1>10, <1>11, <1>12, Assembled DEF Going

LEMMA NextServerKept ==
  ASSUME IInv, NextServer
  PROVE  IInv'
<1>1. ServerLeft /\ ~UnknownUpstream /\ j > Len(NamesOf(i))
  BY AtServer DEF NextServer
<1>2. i' = i + 1 /\ j' = 1 /\ UNCHANGED <<config, phase, error, upstreamMap, servers, routes>>
  BY DEF NextServer
<1>3. /\ phase = "servers" /\ TypeOK /\ Going /\ i \in Nat \ {0} /\ j \in Nat \ {0}
      /\ DOMAIN NamesOf(i) = 1 .. Len(NamesOf(i)) /\ Len(NamesOf(i)) \in Nat
      /\ Server.upstream \in UpstreamNames
  BY <1>1, AtServer
<1>4. TypeOK'
  BY <1>2, <1>3 DEF TypeOK
<1>5. MapFits'
  <2>1. \A u \in UpstreamNames : DefinedSoFar(u)' = DefinedSoFar(u)
    BY <1>2, <1>3, ReadingStays DEF DefinedSoFar
  <2>2. QED
    BY <1>2, <1>3, <2>1, MapStays DEF Going
<1>6. ServersFit'
  <2>1. ASSUME NEW s \in ServerNames PROVE ListedSoFar(s)' = ListedSoFar(s)
    <3>1. ListedSoFar(s) = {p \in Listings(s) : p[1] < i \/ (p[1] = i /\ p[2] < j)}
      BY <1>3 DEF ListedSoFar
    <3>2. ListedSoFar(s)' = {p \in Listings(s) : p[1] < i + 1 \/ (p[1] = i + 1 /\ p[2] < 1)}
      BY <1>2, <1>3, ReadingStays DEF ListedSoFar
    <3>3. ASSUME NEW p \in Listings(s)
          PROVE  p[1] < i \/ (p[1] = i /\ p[2] < j) <=> p[1] < i + 1 \/ (p[1] = i + 1 /\ p[2] < 1)
      <4>1. p[1] \in Nat \ {0} /\ p[2] \in Nat \ {0} /\ p[2] \in DOMAIN NamesOf(p[1])
        BY <1>3, ListingAt
      <4>2. p[1] = i => p[2] < j
        BY <1>1, <1>3, <4>1
      <4>3. QED
        BY <1>3, <4>1, <4>2
    <3>4. QED
      BY <3>1, <3>2, <3>3
  <2>2. QED
    BY <1>2, <1>3, <2>1, ServersStay DEF Going
<1>7. UpstreamsKnown'
  <2>1. Defined(Server.upstream) # {}
    BY <1>1, <1>3, MapComplete DEF UnknownUpstream, Going
  <2>2. \A k \in DOMAIN config.servers : k < i + 1 => k < i \/ k = i
    BY <1>3, ServerType
  <2>3. \A k \in DOMAIN config.servers : k < i + 1 => Defined(config.servers[k].upstream) # {}
    BY <1>3, <2>1, <2>2 DEF Going, UpstreamsKnown, Server
  <2>4. QED
    BY <1>2, <1>3, <2>3, ReadingStays DEF UpstreamsKnown, Ended
<1>8. RoutesFit'
  BY <1>2, <1>3 DEF Going, RoutesFit, Ended
<1>9. StagesFit'
  BY <1>2, <1>3, ReadingStays DEF Going, StagesFit
<1>10. QED
  BY <1>2, <1>3, <1>4, <1>5, <1>6, <1>7, <1>8, <1>9, Assembled DEF Going

LEMMA ServersResolvedKept ==
  ASSUME IInv, ServersResolved
  PROVE  IInv'
<1>1. phase = "servers" /\ i > Len(config.servers) /\ TypeOK /\ Going /\ Enter("tls")
  BY GoingOn DEF ServersResolved, IInv
<1>2. phase' = "tls" /\ UNCHANGED <<config, error, upstreamMap, servers, routes>>
  BY <1>1 DEF Enter
<1>3. TypeOK'
  BY <1>1, EnterType
<1>4. MapFits'
  <2>1. \A u \in UpstreamNames : DefinedSoFar(u)' = DefinedSoFar(u)
    BY <1>1, <1>2, ReadingStays DEF DefinedSoFar
  <2>2. QED
    BY <1>1, <1>2, <2>1, MapStays DEF Going
<1>5. \A k \in DOMAIN config.servers : k < i
  BY <1>1, ServerType DEF TypeOK
<1>6. ServersFit'
  <2>1. \A s \in ServerNames : \A p \in Listings(s) : p[1] < i
    BY <1>1, <1>5, ListingAt
  <2>2. \A s \in ServerNames : ListedSoFar(s)' = ListedSoFar(s)
    BY <1>1, <1>2, <2>1, ReadingStays DEF ListedSoFar
  <2>3. QED
    BY <1>1, <1>2, <2>2, ServersStay DEF Going
<1>7. UpstreamsKnown'
  BY <1>1, <1>2, <1>5, ReadingStays DEF Going, UpstreamsKnown
<1>8. RoutesFit'
  BY <1>1, <1>2 DEF Going, RoutesFit, Ended
<1>9. StagesFit'
  BY <1>1, <1>2, ReadingStays DEF Going, StagesFit
<1>10. QED
  BY <1>1, <1>2, <1>3, <1>4, <1>6, <1>7, <1>8, <1>9, Assembled DEF Going

-----------------------------------------------------------------------------
(* Routes                                                                  *)

\* What the resolved servers say of the configuration.
LEMMA ResolvedIs ==
  ASSUME TypeOK, Going, phase \in {"tls", "routes", "serving", "panicked"}, NEW s \in ServerNames
  PROVE  /\ ~Twice(s)
         /\ s \in Listed <=> servers[s] # Unset
         /\ s \in Listed =>
              servers[s] = [tls |-> ServerOf(s).tls, upstream |-> LastOf(ServerOf(s).upstream)]
<1>1. ListedSoFar(s) = Listings(s)
  BY DEF ListedSoFar
<1>2. CASE servers[s] = Unset
  <2>1. Listings(s) = {}
    BY <1>1, <1>2, TakenIsListed DEF Going
  <2>2. QED
    BY <1>2, <2>1 DEF Twice, Listed
<1>3. CASE servers[s] # Unset
  <2>1. PICK p \in Listings(s) : Listings(s) = {p} /\ servers[s] = Given(p)
    BY <1>1, <1>3, TakenIsListed DEF Going
  <2>2. ServerOf(s) = config.servers[p[1]] /\ p[1] \in DOMAIN config.servers
    BY <2>1, ServerIs, ListingAt
  <2>3. config.servers[p[1]].upstream \in UpstreamNames
    BY <2>2, ServerType
  <2>4. Defined(config.servers[p[1]].upstream) # {}
    BY <2>2 DEF Going, UpstreamsKnown, Ended
  <2>5. upstreamMap[config.servers[p[1]].upstream] = LastOf(config.servers[p[1]].upstream)
    BY <2>3, <2>4, MapComplete DEF Going
  <2>6. ~Twice(s) /\ s \in Listed
    BY <2>1 DEF Twice, Listed
  <2>7. QED
    BY <1>3, <2>1, <2>2, <2>5, <2>6 DEF Given
<1>4. QED
  BY <1>2, <1>3

LEMMA SetUpTlsKept ==
  ASSUME IInv, SetUpTls
  PROVE  IInv'
<1>1. phase = "tls" /\ TypeOK /\ Going
  BY GoingOn DEF SetUpTls, IInv
<1>2. CASE config.tls = "invalid"
  <2>1. Fail("tls_settings") /\ Fault("tls_settings")
    BY <1>2 DEF SetUpTls, Fault, TlsFiles
  <2>2. QED
    BY <2>1, FailKept DEF Errors
<1>3. CASE config.tls # "invalid"
  <2>1. Enter("routes")
    BY <1>3 DEF SetUpTls
  <2>2. phase' = "routes" /\ UNCHANGED <<config, error, upstreamMap, servers, routes>>
    BY <2>1 DEF Enter
  <2>3. TypeOK'
    BY <1>1, <2>1, EnterType
  <2>4. MapFits'
    <3>1. \A u \in UpstreamNames : DefinedSoFar(u)' = DefinedSoFar(u)
      BY <1>1, <2>2, ReadingStays DEF DefinedSoFar
    <3>2. QED
      BY <1>1, <2>2, <3>1, MapStays DEF Going
  <2>5. ServersFit'
    <3>1. \A s \in ServerNames : ListedSoFar(s)' = ListedSoFar(s)
      BY <1>1, <2>2, ReadingStays DEF ListedSoFar
    <3>2. QED
      BY <1>1, <2>2, <3>1, ServersStay DEF Going
  <2>6. UpstreamsKnown'
    BY <1>1, <2>2, ReadingStays DEF Going, UpstreamsKnown
  <2>7. RoutesFit'
    BY <1>1, <2>2 DEF Going, RoutesFit, Ended
  <2>8. StagesFit'
    BY <1>1, <1>3, <2>2, ReadingStays DEF Going, StagesFit
  <2>9. QED
    BY <1>1, <2>2, <2>3, <2>4, <2>5, <2>6, <2>7, <2>8, Assembled DEF Going
<1>4. QED
  BY <1>2, <1>3

LEMMA AddRouteKept ==
  ASSUME IInv, NEW s \in ServerNames, AddRoute(s)
  PROVE  IInv'
<1>1. phase = "routes" /\ TypeOK /\ Going /\ servers[s] # Unset
  BY GoingOn DEF AddRoute, Unrouted, Resolved, IInv
<1>2. CASE servers[s].upstream \in BadBackends
  <2>1. /\ s \in Listed
        /\ servers[s] = [tls |-> ServerOf(s).tls, upstream |-> LastOf(ServerOf(s).upstream)]
    BY <1>1, ResolvedIs
  <2>2. LastOf(ServerOf(s).upstream) \in BadBackends
    BY <1>2, <2>1
  <2>3. Fail("address") /\ Fault("address")
    BY <1>2, <2>1, <2>2 DEF AddRoute, Fault, TlsFiles
  <2>4. QED
    BY <2>3, FailKept DEF Errors
<1>3. CASE servers[s].upstream \notin BadBackends
  <2>1. /\ routes' = [routes EXCEPT ![s] = servers[s]]
        /\ UNCHANGED <<config, phase, error, i, j, upstreamMap, servers>>
    BY <1>3 DEF AddRoute
  <2>2. TypeOK'
    BY <1>1, <2>1 DEF TypeOK
  <2>3. MapFits'
    <3>1. \A u \in UpstreamNames : DefinedSoFar(u)' = DefinedSoFar(u)
      BY <1>1, <2>1, ReadingStays DEF DefinedSoFar
    <3>2. QED
      BY <1>1, <2>1, <3>1, MapStays DEF Going
  <2>4. ServersFit'
    <3>1. \A t \in ServerNames : ListedSoFar(t)' = ListedSoFar(t)
      BY <1>1, <2>1, ReadingStays DEF ListedSoFar
    <3>2. QED
      BY <1>1, <2>1, <3>1, ServersStay DEF Going
  <2>5. UpstreamsKnown'
    BY <1>1, <2>1, ReadingStays DEF Going, UpstreamsKnown
  <2>6. RoutesFit'
    <3>1. \A t \in ServerNames : routes'[t] = IF t = s THEN servers[s] ELSE routes[t]
      BY <1>1, <2>1 DEF TypeOK
    <3>2. QED
      BY <1>1, <1>3, <2>1, <3>1 DEF Going, RoutesFit, Ended
  <2>7. StagesFit'
    BY <1>1, <2>1, ReadingStays DEF Going, StagesFit
  <2>8. QED
    BY <1>1, <2>1, <2>2, <2>3, <2>4, <2>5, <2>6, <2>7, Assembled DEF Going
<1>4. QED
  BY <1>2, <1>3

\* With every name routed, nothing but the limit can be wrong.
LEMMA RoutedIsSound ==
  ASSUME TypeOK, Going, phase = "routes", Unrouted = {}
  PROVE  routes = servers /\ Sound
<1>1. \A s \in ServerNames : routes[s] = servers[s]
  BY DEF Going, RoutesFit, Unrouted, Resolved
<1>2. routes = servers
  BY <1>1 DEF TypeOK
<1>3. config.file = "ok"
  BY DEF Going, StagesFit, Parsed
<1>4. TlsUsable
  BY ConfigType DEF Going, StagesFit, Missing, TlsUsable
<1>5. \A k \in DOMAIN config.servers : Defined(config.servers[k].upstream) # {}
  BY DEF Going, UpstreamsKnown
<1>6. \A s \in ServerNames : ~Twice(s)
  BY ResolvedIs
<1>7. ASSUME NEW s \in Listed PROVE LastOf(ServerOf(s).upstream) \notin BadBackends
  <2>1. s \in ServerNames
    BY DEF Listed
  <2>2. /\ servers[s] # Unset
        /\ servers[s] = [tls |-> ServerOf(s).tls, upstream |-> LastOf(ServerOf(s).upstream)]
    BY <1>7, <2>1, ResolvedIs
  <2>3. servers[s].upstream \notin BadBackends
    BY <1>1, <2>1, <2>2 DEF Going, RoutesFit
  <2>4. QED
    BY <2>2, <2>3
<1>8. QED
  BY <1>2, <1>3, <1>4, <1>5, <1>6, <1>7 DEF Sound

LEMMA MakeLimiterKept ==
  ASSUME IInv, MakeLimiter
  PROVE  IInv'
<1>1. phase = "routes" /\ Unrouted = {} /\ TypeOK /\ Going
  BY GoingOn DEF MakeLimiter, IInv
<1>2. /\ phase' = IF LimitPositive THEN "serving" ELSE "panicked"
      /\ UNCHANGED <<config, error, upstreamMap, servers, routes>>
  BY DEF MakeLimiter, Enter
<1>3. TypeOK'
  BY <1>1, EnterType DEF MakeLimiter, Ended
<1>4. MapFits'
  <2>1. \A u \in UpstreamNames : DefinedSoFar(u)' = DefinedSoFar(u)
    BY <1>1, <1>2, ReadingStays DEF DefinedSoFar
  <2>2. QED
    BY <1>1, <1>2, <2>1, MapStays DEF Going
<1>5. ServersFit'
  <2>1. \A s \in ServerNames : ListedSoFar(s)' = ListedSoFar(s)
    BY <1>1, <1>2, ReadingStays DEF ListedSoFar
  <2>2. QED
    BY <1>1, <1>2, <2>1, ServersStay DEF Going
<1>6. UpstreamsKnown'
  BY <1>1, <1>2, ReadingStays DEF Going, UpstreamsKnown
<1>7. RoutesFit'
  BY <1>1, <1>2, RoutedIsSound DEF Going, RoutesFit, Ended
<1>8. Sound'
  BY <1>1, <1>2, RoutedIsSound, ReadingStays
<1>9. StagesFit'
  BY <1>1, <1>2, <1>8, ReadingStays DEF Going, StagesFit
<1>10. ErrorIsReal'
  <2>1. Fault(error)'
    BY <1>1, <1>2 DEF Going, Fault, TlsFiles
  <2>2. phase' = "panicked" => config'.limit = "zero"
    BY <1>2 DEF LimitPositive
  <2>3. QED
    BY <1>8, <2>1, <2>2 DEF ErrorIsReal
<1>11. QED
  BY <1>1, <1>2, <1>3, <1>4, <1>5, <1>6, <1>7, <1>9, <1>10 DEF IInv, Going

LEMMA IInvNext ==
  ASSUME IInv, [Next]_vars
  PROVE  IInv'
<1>1. CASE Load
  BY <1>1, LoadKept
<1>2. CASE AddUpstream
  BY <1>2, AddUpstreamKept
<1>3. CASE UpstreamsAdded
  BY <1>3, UpstreamsAddedKept
<1>4. CASE ResolveGlobal \/ \E f \in TlsFiles : RejectTlsFile(f)
  BY <1>4, GlobalKept
<1>5. CASE RejectUpstream
  BY <1>5, RejectUpstreamKept
<1>6. CASE RejectName
  BY <1>6, RejectNameKept
<1>7. CASE AddName
  BY <1>7, AddNameKept
<1>8. CASE NextServer
  BY <1>8, NextServerKept
<1>9. CASE ServersResolved
  BY <1>9, ServersResolvedKept
<1>10. CASE SetUpTls
  BY <1>10, SetUpTlsKept
<1>11. ASSUME NEW s \in ServerNames, AddRoute(s) PROVE IInv'
  BY <1>11, AddRouteKept
<1>12. CASE MakeLimiter
  BY <1>12, MakeLimiterKept
<1>13. CASE UNCHANGED vars
  <2>1. UNCHANGED <<config, phase, error, i, j, upstreamMap, servers, routes>>
    BY <1>13 DEF vars
  <2>2. TypeOK' /\ ErrorIsReal'
    BY <2>1, ReadingStays DEF IInv, TypeOK, ErrorIsReal, Fault
  <2>3. CASE phase = "failed"
    BY <2>1, <2>2, <2>3 DEF IInv
  <2>4. CASE phase # "failed"
    <3>1. Going
      BY <2>4, GoingOn
    <3>2. MapFits'
      <4>1. \A u \in UpstreamNames : DefinedSoFar(u)' = DefinedSoFar(u)
        BY <2>1, ReadingStays DEF DefinedSoFar
      <4>2. QED
        BY <2>1, <3>1, <4>1, MapStays DEF Going
    <3>3. ServersFit'
      <4>1. \A s \in ServerNames : ListedSoFar(s)' = ListedSoFar(s)
        BY <2>1, ReadingStays DEF ListedSoFar
      <4>2. QED
        BY <2>1, <3>1, <4>1, ServersStay DEF Going
    <3>4. UpstreamsKnown' /\ RoutesFit' /\ StagesFit'
      BY <2>1, <3>1, ReadingStays DEF Going, UpstreamsKnown, RoutesFit, StagesFit
    <3>5. QED
      BY <2>1, <2>2, <2>4, <3>1, <3>2, <3>3, <3>4 DEF IInv, Going
  <2>5. QED
    BY <2>3, <2>4
<1>14. QED
  BY <1>1, <1>2, <1>3, <1>4, <1>5, <1>6, <1>7, <1>8, <1>9, <1>10, <1>11, <1>12, <1>13 DEF Next, Over

-----------------------------------------------------------------------------
(* The theorems                                                            *)

\* At every step the maps hold what the part of the configuration read so far
\* gives, and no name got there twice.
THEOREM StartupInvariant == Spec => []IInv
  BY IInvInit, IInvNext, PTL DEF Spec

\* The error that ends startup is a fault of the configuration, and the panic
\* of RateLimiter::new means a limit of zero and nothing else.
THEOREM ErrorsAreReal == Spec => []ErrorIsReal
<1>1. IInv => ErrorIsReal
  BY DEF IInv
<1>2. QED
  BY <1>1, StartupInvariant, PTL

\* The proxy serves a configuration exactly when all of it is good: no fault
\* gets past the loops and calls of startup, and none is found that is not
\* there.
THEOREM ServesOnlyWellFormed == Spec => []ServesWellFormed
<1>1. ASSUME IInv, phase = "failed" PROVE ~WellFormed
  <2>1. error \in Errors /\ Fault(error)
    BY <1>1 DEF IInv, ErrorIsReal
  <2>2. CASE error \in TlsFiles
    BY <2>1, <2>2 DEF Fault, WellFormed, Sound, TlsUsable
  <2>3. CASE error \in {"config_file", "tls_settings"}
    BY <2>1, <2>3 DEF Fault, WellFormed, Sound, TlsUsable
  <2>4. CASE error \in {"upstream_not_found", "duplicate_server_name", "address"}
    BY <2>1, <2>4 DEF Fault, WellFormed, Sound
  <2>5. QED
    BY <2>1, <2>2, <2>3, <2>4 DEF Errors
<1>2. ASSUME IInv, phase = "panicked" PROVE ~WellFormed
  BY <1>2 DEF IInv, ErrorIsReal, WellFormed
<1>3. ASSUME IInv, phase = "serving" PROVE WellFormed
  BY <1>3 DEF IInv, StagesFit, WellFormed, LimitPositive
<1>4. IInv => ServesWellFormed
  BY <1>1, <1>2, <1>3 DEF ServesWellFormed, Ended
<1>5. QED
  BY <1>4, StartupInvariant, PTL

\* Every listed name, and no other, is routed to the backends of the last
\* upstream its server names, whatever the order in which the map of names is
\* gone through.
THEOREM RoutesAreConfigured == Spec => []RoutesAsConfigured
<1>1. IInv => RoutesAsConfigured
  <2> SUFFICES ASSUME IInv, phase = "serving", NEW s \in ServerNames
               PROVE  routes[s] = IF s \in Listed
                                  THEN [tls |-> ServerOf(s).tls,
                                        upstream |-> LastOf(ServerOf(s).upstream)]
                                  ELSE Unset
    BY DEF RoutesAsConfigured
  <2>1. TypeOK /\ Going
    BY GoingOn DEF IInv
  <2>2. routes[s] = servers[s]
    BY <2>1 DEF Going, RoutesFit, Ended
  <2>3. QED
    BY <2>1, <2>2, ResolvedIs
<1>2. QED
  BY <1>1, StartupInvariant, PTL

=============================================================================
