--------------------------- MODULE MC_SimpleProxy ---------------------------
(***************************************************************************)
(* Instances of SimpleProxy for TLC.                                       *)
(***************************************************************************)
EXTENDS SimpleProxy, TLC

CONSTANTS r1, r2, p1, p2, b1, b2

\* Two connections of one client: the same IP, two ports; requests on the same
\* one or one each.
OneClient == {p1, p2}
SameIp == [k \in OneClient |-> "ip"]
SameOf == (r1 :> p1) @@ (r2 :> p1)
TwoOf == (r1 :> p1) @@ (r2 :> p2)

\* Three servers that share a backend, one with an address for a name.
ThreeServers == {"acme", "beta", "[::1]"}
SharedBackends == ("acme" :> {b1, b2}) @@ ("beta" :> {b2}) @@ ("[::1]" :> {b2})

JustBeforeStart == -1
NoPort == NotANumber

RequestHead(path, header, uri) == [path |-> path, header |-> header, uri |-> uri]
Origin == [scheme |-> "none", host |-> "", port |-> NoPort]
Uri(scheme, host, p) == [scheme |-> scheme, host |-> host, port |-> p]
Absent == [kind |-> "absent"]
Opaque == [kind |-> "opaque"]
Host(name, rest) == [kind |-> "name", host |-> name, rest |-> rest]
Loopback(rest) ==
  [kind |-> "literal", host |-> "[::1]", groups |-> <<Word("["), EmptyPart, Word("1]")>>, rest |-> rest]

\* Every way to name a server, and names of none.
AllInputs ==
  { RequestHead("/", Host("acme", <<>>), Origin),
    RequestHead("/", Host("beta", <<Part("8080", 8080)>>), Origin),
    RequestHead("/", Host("acme", <<Part("70000", 70000)>>), Origin),
    RequestHead("/", Host("acme", <<Word("http"), Part("80", 80)>>), Origin),
    RequestHead("/", Host("acme", <<EmptyPart>>), Origin),
    RequestHead("/", Loopback(<<>>), Origin),
    RequestHead("/", Loopback(<<Part("80", 80)>>), Uri("http", "acme", NoPort)),
    RequestHead("/", Host("gamma", <<>>), Uri("http", "acme", NoPort)),
    RequestHead("/", Host("", <<>>), Origin),
    RequestHead("/", Opaque, Origin),
    RequestHead("/", Absent, Origin),
    RequestHead("/", Absent, Uri("http", "acme", 8080)),
    RequestHead("/", Absent, Uri("http", "[::1]", NoPort)),
    RequestHead("/", Absent, Uri("https", "beta", NoPort)) }

\* Requests to the server with one backend, one of them to the health path.
Plain == RequestHead("/", Host("beta", <<>>), Origin)
Health == [Plain EXCEPT !.path = "/health"]
Astray == RequestHead("/", Opaque, Origin)

HeadsInUse == AllInputs \cup {Plain, Health, Astray}

\* A plain request against a plain one and against one to the health path; and
\* every form of request together with one that is counted but goes nowhere.
PlainAndAll ==
  {(r1 :> a) @@ (r2 :> Plain) : a \in {Plain, Health}} \cup
  {(r1 :> a) @@ (r2 :> Astray) : a \in AllInputs}

\* One request of each connection, to the same server.
PlainOnly == [{r1, r2} -> {Plain}]

=============================================================================
