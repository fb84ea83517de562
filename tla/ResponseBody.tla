---------------------------- MODULE ResponseBody ----------------------------
(***************************************************************************)
(* What happens to one upstream response on its way through the proxy:     *)
(* upstream_response_filter and upstream_response_body_filter of           *)
(* src/src/proxy/simple_proxy.rs, and the fields resp_content_type and     *)
(* resp_body of the request's ProxyContext.                                *)
(*                                                                         *)
(* The body filter is called once per chunk.  It keeps every chunk back    *)
(* and, on the call that says end_of_stream, parses what it has kept and   *)
(* sends the annotated document instead of the last chunk.                 *)
(*                                                                         *)
(* A body is a text cut into pieces 1, 2, ...; the text is one of          *)
(* Documents or does not parse.  Upstream chooses the chunks, whether the  *)
(* end of stream comes with the last chunk, on a call of its own without   *)
(* data, or is never signalled to the filter (a response that ends with    *)
(* trailers), and may break off.                                           *)
(***************************************************************************)
EXTENDS Naturals, Sequences

CONSTANTS
  Documents,     \* the JSON values a body may hold
  MaxPieces      \* bound on the length of a body

ASSUME BodyAssumption == MaxPieces \in Nat

-----------------------------------------------------------------------------
(* JSON values, as far as the annotation tells them apart                  *)

\* An object, with what it has under the key "x-simple-proxy".
Object(mark) == [type |-> "object", mark |-> mark]
Array(items) == [type |-> "array", items |-> items]
Scalar == [type |-> "scalar"]

\* A document is a JSON value.
ASSUME DocumentsAssumption ==
  \A d \in Documents :
    \/ d.type = "object" /\ d = Object(d.mark)
    \/ d.type = "array" /\ d = Array(d.items) /\ Len(d.items) \in Nat
         /\ DOMAIN d.items = 1 .. Len(d.items)
    \/ d = Scalar

\* A text that does not parse.
Garbage == [type |-> "garbage"]

\* obj.insert: an existing value under the key is replaced.
Marked(value) == IF value.type = "object" THEN Object("v0.1") ELSE value

\* Mutant: the objects of an array are left alone.
AnnotateObject(value) == Marked(value)

\* An object is marked, an array has its own objects marked; nothing deeper.
Annotate(value) ==
  IF value.type = "array"
  THEN Array([i \in DOMAIN value.items |-> Marked(value.items[i])])
  ELSE Marked(value)

-----------------------------------------------------------------------------

\* Bodies as Option<Bytes>: none, raw pieces, or a serialised document.
NoBody == [kind |-> "none"]
Raw(pieces) == [kind |-> "raw", pieces |-> pieces]
Json(value) == [kind |-> "json", value |-> value]

\* What upstream may send: an empty body does not parse.
Responses ==
  {r \in [type : {"none", "json", "other"}, text : Documents \cup {Garbage},
          pieces : 0 .. MaxPieces] :
     r.pieces = 0 => r.text = Garbage}

VARIABLES
  response,        \* the response upstream sends
  phase,           \* "header", "body", "done", "trailed" or "broken"
  sent,            \* how many pieces upstream has sent
  respContentType, \* ctx.resp_content_type: "unset" before the first header
  respBody,        \* ctx.resp_body
  delivered        \* the bodies passed on downstream, in order

vars == <<response, phase, sent, respContentType, respBody, delivered>>

Init ==
  /\ response \in Responses
  /\ phase = "header"
  /\ sent = 0
  /\ respContentType = "unset"
  /\ respBody = NoBody
  /\ delivered = <<>>

-----------------------------------------------------------------------------
(* upstream_response_filter                                                *)

\* An interim response (1xx) goes through the same filter as the final one.
Interim ==
  /\ phase = "header"
  /\ respContentType' = "none"
  /\ UNCHANGED <<response, phase, sent, respBody, delivered>>

\* The final header.  Its Content-Length is removed, since the body may become
\* another; no other header that is set has a say in what follows.
Header ==
  /\ phase = "header"
  /\ respContentType' = response.type
  /\ phase' = "body"
  /\ UNCHANGED <<response, sent, respBody, delivered>>

-----------------------------------------------------------------------------
(* upstream_response_body_filter                                           *)

\* The first n pieces of the text, in order.
Prefix(n) == [i \in 1 .. n |-> i]

\* Mutant: a new chunk replaces what was kept.
HeldLast(body) == IF body = NoBody THEN respBody ELSE body

\* The buffer with the chunk of this call appended.
Held(body) ==
  IF body = NoBody THEN respBody
  ELSE IF respBody = NoBody THEN body
  ELSE Raw(respBody.pieces \o body.pieces)

\* The text upstream sent parses when it is all there, in order.
Parse(held) ==
  IF held.pieces = Prefix(response.pieces) THEN response.text ELSE Garbage

\* Mutant: a buffer of any content type is parsed and rewritten.
PassedAnyType(body) ==
  IF \/ Held(body) = NoBody
     \/ Parse(Held(body)) = Garbage
  THEN body
  ELSE Json(Annotate(Parse(Held(body))))

\* What the last call passes on.  Every early return of the filter leaves the
\* chunk of this call, and only that, in the body.
Passed(body) ==
  IF \/ Held(body) = NoBody
     \/ respContentType # "json"
     \/ Parse(Held(body)) = Garbage
  THEN body
  ELSE Json(Annotate(Parse(Held(body))))

\* Mutant: a chunk is passed on although it was also kept.
ThroughAtOnce(body) == Append(delivered, body)

\* *body = None: nothing goes downstream before the end of the stream.
Withheld(body) == delivered

FilterChunk(body) ==
  /\ respBody' = Held(body)
  /\ delivered' = Withheld(body)
  /\ UNCHANGED phase

FilterLast(body) ==
  /\ respBody' = NoBody
  /\ delivered' = IF Passed(body) = NoBody THEN delivered ELSE Append(delivered, Passed(body))
  /\ phase' = "done"

-----------------------------------------------------------------------------
(* Upstream                                                                *)

\* The next n pieces of the body; no data at all on a call of its own.
NextPieces(n) == Raw([i \in 1 .. n |-> sent + i])

Chunk(n) ==
  /\ phase = "body"
  /\ sent + n <= response.pieces
  /\ FilterChunk(NextPieces(n))
  /\ sent' = sent + n
  /\ UNCHANGED <<response, respContentType>>

\* end_of_stream comes with the last chunk.
LastChunk(n) ==
  /\ phase = "body"
  /\ sent + n = response.pieces
  /\ FilterLast(NextPieces(n))
  /\ sent' = sent + n
  /\ UNCHANGED <<response, respContentType>>

\* end_of_stream comes without data.
EndOfStream ==
  /\ phase = "body"
  /\ sent = response.pieces
  /\ FilterLast(NoBody)
  /\ UNCHANGED <<response, sent, respContentType>>

\* The response ends with trailers: the body filter is not called again.
Trailers ==
  /\ phase = "body"
  /\ sent = response.pieces
  /\ phase' = "trailed"
  /\ UNCHANGED <<response, sent, respContentType, respBody, delivered>>

\* Upstream breaks off.
Break ==
  /\ phase \in {"header", "body"}
  /\ phase' = "broken"
  /\ UNCHANGED <<response, sent, respContentType, respBody, delivered>>

Next ==
  \/ Interim
  \/ Header
  \/ \E n \in 0 .. MaxPieces : Chunk(n) \/ LastChunk(n)
  \/ EndOfStream
  \/ Trailers
  \/ Break

Spec == Init /\ [][Next]_vars

-----------------------------------------------------------------------------
(* Properties                                                              *)

TypeOK ==
  /\ response \in Responses
  /\ phase \in {"header", "body", "done", "trailed", "broken"}
  /\ sent \in 0 .. MaxPieces
  /\ respContentType \in {"unset", "none", "json", "other"}
  /\ respBody = NoBody \/ (respBody.kind = "raw" /\ respBody.pieces \in Seq(1 .. MaxPieces))
  /\ \A i \in 1 .. Len(delivered) : delivered[i].kind \in {"raw", "json"}

\* While a response is under way the buffer is all that upstream has sent, in
\* order, however it was cut into chunks; afterwards it is gone.
BufferIsPrefix ==
  /\ phase = "done" => respBody = NoBody
  /\ phase # "done" =>
       \/ respBody = Raw(Prefix(sent))
       \/ respBody = NoBody /\ sent = 0

\* A client gets a JSON document whole, annotated and once, or not at all:
\* never a part of it, nor before all of it was there.
JsonAllOrNothing ==
  response.type = "json" /\ response.text # Garbage =>
    IF phase = "done" THEN delivered = <<Json(Annotate(response.text))>> ELSE delivered = <<>>

\* Why it holds: nothing was passed on before the last call, and the content
\* type kept is that of the final header, whatever interim headers came first.
HeldBack ==
  /\ phase # "done" => delivered = <<>>
  /\ phase \in {"body", "done"} => respContentType = response.type

BodyInv == TypeOK /\ BufferIsPrefix /\ HeldBack /\ JsonAllOrNothing

\* Everything that goes downstream is what upstream sent or the annotation of
\* it, and only a JSON body is ever rewritten.
OnlyJsonRewritten ==
  \A i \in 1 .. Len(delivered) :
    delivered[i].kind = "json" =>
      response.type = "json" /\ delivered[i].value = Annotate(response.text)

\* A client that reads an object marked by the proxy can rely on it: no
\* object at the top, or directly in an array, goes unmarked, and no document
\* changes its shape.
Annotated ==
  \A i \in 1 .. Len(delivered) : delivered[i].kind = "json" =>
    LET v == delivered[i].value
        Given == response.text
    IN  /\ v.type = Given.type
        /\ v.type = "object" => v.mark = "v0.1"
        /\ v.type = "array" =>
             /\ Len(v.items) = Len(Given.items)
             /\ \A j \in 1 .. Len(v.items) :
                  IF Given.items[j].type = "object"
                  THEN v.items[j] = Object("v0.1")
                  ELSE v.items[j] = Given.items[j]

\* The pieces that went downstream as they came.
RawDelivered ==
  LET UpTo[i \in 0 .. Len(delivered)] ==
        IF i = 0 THEN <<>>
        ELSE UpTo[i - 1] \o (IF delivered[i].kind = "raw" THEN delivered[i].pieces ELSE <<>>)
  IN  UpTo[Len(delivered)]

\* A body that is not JSON is none of the filter's business and gets through
\* as it is: "if this is json (please check: content-type: application/json)"
\* (simple_proxy.rs).  Refuted by a body of several chunks, of which only
\* the last gets through.
OtherUntouched ==
  phase = "done" /\ response.type # "json" =>
    RawDelivered = Prefix(response.pieces)

=============================================================================
