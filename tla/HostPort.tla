------------------------------ MODULE HostPort ------------------------------
(***************************************************************************)
(* get_host_port and split_host_port of src/src/utils.rs as operators.     *)
(*                                                                         *)
(* A Host header is given by what it says, and cut into parts as the code  *)
(* cuts it.  It carries a name, or an IPv6 literal, which has colons of    *)
(* its own; then what follows the host, a part for each further colon:     *)
(*                                                                         *)
(*   [kind |-> "name", host, rest]              acme, acme:80, acme:       *)
(*   [kind |-> "literal", host, groups, rest]   [::1], [::1]:80            *)
(*   [kind |-> "opaque"]                        not visible ASCII          *)
(*   [kind |-> "absent"]                        no header at all           *)
(*                                                                         *)
(* groups are the parts of the literal itself: "[", "", "1]".  A part has  *)
(* its text and its value when it is read as a decimal number, NotANumber  *)
(* when it cannot be.                                                      *)
(***************************************************************************)
EXTENDS Integers, Sequences

NotANumber == -1
Part(text, value) == [text |-> text, value |-> value]
Word(text) == Part(text, NotANumber)
EmptyPart == Word("")
AnyPart == [text : STRING, value : Int]

\* The values of a u16.
MaxU16 == 65535
U16 == 0 .. MaxU16

\* port.parse::<u16>()
IsU16(value) == value \in U16

\* The port that stands for the scheme of the URI; a request in origin form
\* has a URI without a scheme.
DefaultPort(uri) == IF uri.scheme = "https" THEN 433 ELSE 80

\* What to_str and split(':') make of a header.
Parts(header) ==
  CASE header.kind = "opaque"  -> <<EmptyPart>>
    [] header.kind = "name"    -> <<Word(header.host)>> \o header.rest
    [] header.kind = "literal" -> header.groups \o header.rest

\* Mutant: the whole header names the host.
UnsplitHost(parts) == IF Len(parts) = 1 THEN parts[1].text ELSE "unsplit"

\* What comes before the first colon.
HostPart(parts) == parts[1].text

\* What comes after the second colon is ignored.
SplitHostPort(parts, default) ==
  [ host |-> HostPart(parts),
    port |-> IF Len(parts) > 1 /\ IsU16(parts[2].value) THEN parts[2].value ELSE default ]

\* The header counts if there is one.  A URI without an authority has an empty
\* host.
GetHostPort(header, uri) ==
  IF header.kind = "absent"
  THEN [ host |-> uri.host,
         port |-> IF IsU16(uri.port) THEN uri.port ELSE DefaultPort(uri) ]
  ELSE SplitHostPort(Parts(header), DefaultPort(uri))

=============================================================================
