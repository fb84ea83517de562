----------------------------- MODULE MC_Startup -----------------------------
(***************************************************************************)
(* Instances of Startup for TLC.                                           *)
(***************************************************************************)
EXTENDS Startup

CONSTANTS x, y, up1, up2, good, other, bad, unset

UpTo(n, S) == UNION {[1 .. k -> S] : k \in 0 .. n}

Upstreams == [name : {up1, up2}, servers : {good, other, bad}]
Servers == [names : UpTo(2, {x, y}), upstream : {up1, up2}, tls : BOOLEAN]

\* Up to two upstreams and two servers, with any way to share, repeat or miss
\* names, over plain TCP with a limit.
Sharing ==
  [ file : {"ok"}, tls : {"none"}, missing : {{}}, limit : {"positive"}, upstreams : UpTo(2, Upstreams),
    servers : UpTo(2, [names : UpTo(2, {x, y}), upstream : {up1, up2}, tls : {TRUE}]) ]

\* Every fault of the global section together with faults of one server.
Faults ==
  [ file : {"ok", "unreadable"}, tls : {"none", "ok", "invalid"}, missing : SUBSET TlsFiles,
    limit : {"none", "zero", "positive"}, upstreams : UpTo(1, Upstreams), servers : UpTo(1, Servers) ]

SomeConfigs == Sharing \cup Faults

=============================================================================
