------------------------- MODULE ResponseBodyProofs -------------------------
(***************************************************************************)
(* Proofs about ResponseBody for every set of documents, every length of   *)
(* body and every way to cut it into chunks.                               *)
(***************************************************************************)
EXTENDS ResponseBody, TLAPS

\* Appending the next pieces to a prefix of the text gives a longer prefix.
LEMMA PrefixGrows ==
  ASSUME NEW s \in Nat, NEW n \in Nat
  PROVE  Prefix(s) \o [i \in 1 .. n |-> s + i] = Prefix(s + n)
<1> DEFINE p == Prefix(s)
           q == [i \in 1 .. n |-> s + i]
<1>1. p \in Seq(Nat) /\ q \in Seq(Nat) /\ Len(p) = s /\ Len(q) = n
  BY DEF Prefix
<1>2. p \o q \in Seq(Nat) /\ Len(p \o q) = s + n
  BY <1>1
<1>3. ASSUME NEW i \in 1 .. s + n PROVE (p \o q)[i] = i
  <2>1. CASE i <= s
    BY <1>1, <2>1 DEF Prefix
  <2>2. CASE i > s
    <3>1. i - s \in 1 .. n /\ i \in Nat
      BY <2>2
    <3>2. (p \o q)[i] = q[i - s]
      BY <1>1, <2>2, <3>1
    <3>3. q[i - s] = s + (i - s)
      BY <3>1
    <3>4. s + (i - s) = i
      BY <3>1
    <3> HIDE DEF p, q
    <3>5. QED
      BY <3>2, <3>3, <3>4
  <2>3. i <= s \/ i > s
    OBVIOUS
  <2> HIDE DEF p, q
  <2>4. QED
    BY <2>1, <2>2, <2>3
<1>4. Prefix(s + n) \in Seq(Nat) /\ Len(Prefix(s + n)) = s + n
  BY DEF Prefix
<1>5. QED
  BY <1>2, <1>3, <1>4 DEF Prefix

\* After a chunk the buffer is again all that was sent.
LEMMA HeldPrefix ==
  ASSUME BodyInv, phase = "body", NEW n \in Nat
  PROVE  Held(NextPieces(n)) = Raw(Prefix(sent + n))
<1>1. sent \in Nat
  BY BodyAssumption DEF BodyInv, TypeOK
<1>2. CASE respBody = NoBody /\ sent = 0
  <2>1. NextPieces(n) = Raw(Prefix(sent + n))
    BY <1>2 DEF NextPieces, Prefix
  <2>2. QED
    BY <1>2, <2>1 DEF Held, NextPieces, Raw, NoBody
<1>3. CASE respBody = Raw(Prefix(sent))
  <2>1. Held(NextPieces(n)) = Raw(respBody.pieces \o NextPieces(n).pieces)
    BY <1>3 DEF Held, NextPieces, Raw, NoBody
  <2>2. respBody.pieces = Prefix(sent) /\ NextPieces(n).pieces = [i \in 1 .. n |-> sent + i]
    BY <1>3 DEF NextPieces, Raw
  <2>3. QED
    BY <1>1, <2>1, <2>2, PrefixGrows
<1>4. QED
  BY <1>2, <1>3 DEF BodyInv, BufferIsPrefix

LEMMA BodyInvInit == Init => BodyInv
<1> SUFFICES ASSUME Init PROVE BodyInv
  OBVIOUS
<1> USE BodyAssumption
<1>1. TypeOK
  <2>1. 0 \in 0 .. MaxPieces
    OBVIOUS
  <2>2. \A i \in 1 .. Len(delivered) : delivered[i].kind \in {"raw", "json"}
    BY DEF Init
  <2>3. QED
    BY <2>1, <2>2, Zenon DEF Init, TypeOK
<1>2. QED
  BY <1>1 DEF Init, BodyInv, BufferIsPrefix, HeldBack, JsonAllOrNothing

\* A chunk that is not the last one is kept.
LEMMA ChunkBodyInv ==
  ASSUME BodyInv, NEW n \in 0 .. MaxPieces, Chunk(n)
  PROVE  BodyInv'
<1> USE BodyAssumption
<1>1. /\ phase = "body" /\ phase' = "body"
      /\ sent' = sent + n /\ sent + n <= response.pieces
      /\ respBody' = Held(NextPieces(n))
      /\ UNCHANGED <<delivered, response, respContentType>>
  BY DEF Chunk, FilterChunk, Withheld
<1>2. /\ response \in Responses /\ sent \in 0 .. MaxPieces
      /\ response.pieces \in 0 .. MaxPieces
  BY DEF BodyInv, TypeOK, Responses
<1>3. respBody' = Raw(Prefix(sent'))
  BY <1>1, HeldPrefix
<1>4. sent' \in 0 .. MaxPieces
  BY <1>1, <1>2
<1>5. TypeOK'
  <2>1. respBody'.kind = "raw" /\ respBody'.pieces = Prefix(sent')
    BY <1>3 DEF Raw
  <2>2. Prefix(sent') \in Seq(1 .. MaxPieces)
    BY <1>4 DEF Prefix
  <2>3. QED
    BY <1>1, <1>4, <2>1, <2>2 DEF BodyInv, TypeOK
<1>6. BufferIsPrefix'
  BY <1>1, <1>3 DEF BufferIsPrefix
<1>7. HeldBack' /\ JsonAllOrNothing'
  BY <1>1 DEF BodyInv, HeldBack, JsonAllOrNothing
<1>8. QED
  BY <1>5, <1>6, <1>7 DEF BodyInv

\* What the last call finds in the buffer decides what goes downstream.
LEMMA LastBodyInv ==
  ASSUME BodyInv, NEW body, body = NoBody \/ body.kind = "raw",
         phase = "body", FilterLast(body),
         sent' \in 0 .. MaxPieces,
         UNCHANGED <<response, respContentType>>,
         Held(body) = Raw(Prefix(response.pieces))
           \/ (Held(body) = NoBody /\ body = NoBody /\ response.pieces = 0)
  PROVE  BodyInv'
<1>1. /\ phase' = "done" /\ respBody' = NoBody
      /\ delivered' = IF Passed(body) = NoBody THEN delivered ELSE Append(delivered, Passed(body))
      /\ delivered = <<>> /\ respContentType = response.type
      /\ response \in Responses
  BY DEF FilterLast, BodyInv, TypeOK, HeldBack
<1>2. \/ Passed(body) = body
      \/ Passed(body) = Json(Annotate(Parse(Held(body))))
  BY DEF Passed
<1>3. delivered' = <<>> \/ (delivered' = <<Passed(body)>> /\ Passed(body).kind \in {"raw", "json"})
  BY <1>1, <1>2 DEF Json
<1>4. TypeOK'
  BY <1>1, <1>3 DEF BodyInv, TypeOK
<1>5. BufferIsPrefix' /\ HeldBack'
  BY <1>1 DEF BufferIsPrefix, HeldBack
<1>6. JsonAllOrNothing'
  <2>1. SUFFICES ASSUME response.type = "json", response.text # Garbage
                 PROVE  delivered' = <<Json(Annotate(response.text))>>
    BY <1>1 DEF JsonAllOrNothing
  <2>2. response.pieces # 0
    BY <1>1, <2>1 DEF Responses
  <2>3. Held(body) = Raw(Prefix(response.pieces))
    BY <2>2
  <2>4. Parse(Held(body)) = response.text /\ Held(body) # NoBody
    BY <2>3 DEF Parse, Raw, NoBody
  <2>5. Passed(body) = Json(Annotate(response.text))
    BY <1>1, <2>1, <2>4 DEF Passed
  <2>6. Passed(body) # NoBody
    BY <2>5 DEF Json, NoBody
  <2>7. QED
    BY <1>1, <2>5, <2>6
<1>7. QED
  BY <1>4, <1>5, <1>6 DEF BodyInv

LEMMA BodyInvNext == BodyInv /\ [Next]_vars => BodyInv'
<1> SUFFICES ASSUME BodyInv, [Next]_vars PROVE BodyInv'
  OBVIOUS
<1> USE BodyAssumption
<1>a. response \in Responses /\ response.pieces \in 0 .. MaxPieces /\ sent \in 0 .. MaxPieces
  BY DEF BodyInv, TypeOK, Responses
<1>1. CASE Interim
  BY <1>1 DEF Interim, BodyInv, TypeOK, BufferIsPrefix, HeldBack, JsonAllOrNothing
<1>2. CASE Header
  <2>1. TypeOK'
    BY <1>2 DEF Header, BodyInv, TypeOK, Responses
  <2>2. QED
    BY <1>2, <2>1 DEF Header, BodyInv, BufferIsPrefix, HeldBack, JsonAllOrNothing
<1>3. ASSUME NEW n \in 0 .. MaxPieces, Chunk(n) PROVE BodyInv'
  BY <1>3, ChunkBodyInv
<1>4. ASSUME NEW n \in 0 .. MaxPieces, LastChunk(n) PROVE BodyInv'
  <2>1. /\ phase = "body" /\ FilterLast(NextPieces(n))
        /\ sent + n = response.pieces /\ sent' = sent + n
        /\ UNCHANGED <<response, respContentType>>
    BY <1>4 DEF LastChunk
  <2>2. Held(NextPieces(n)) = Raw(Prefix(response.pieces))
    BY <2>1, HeldPrefix
  <2>3. NextPieces(n).kind = "raw" /\ sent' \in 0 .. MaxPieces
    BY <1>a, <2>1 DEF NextPieces, Raw
  <2>4. QED
    BY <2>1, <2>2, <2>3, LastBodyInv
<1>5. CASE EndOfStream
  <2>1. /\ phase = "body" /\ FilterLast(NoBody) /\ sent = response.pieces
        /\ UNCHANGED <<response, sent, respContentType>>
    BY <1>5 DEF EndOfStream
  <2>2. \/ Held(NoBody) = Raw(Prefix(response.pieces))
        \/ Held(NoBody) = NoBody /\ response.pieces = 0
    BY <2>1 DEF Held, BodyInv, BufferIsPrefix
  <2>3. QED
    BY <1>a, <2>1, <2>2, LastBodyInv
<1>6. CASE Trailers
  BY <1>6 DEF Trailers, BodyInv, TypeOK, BufferIsPrefix, HeldBack, JsonAllOrNothing
<1>7. CASE Break
  BY <1>7 DEF Break, BodyInv, TypeOK, BufferIsPrefix, HeldBack, JsonAllOrNothing
<1>8. CASE UNCHANGED vars
  BY <1>8 DEF vars, BodyInv, TypeOK, BufferIsPrefix, HeldBack, JsonAllOrNothing
<1>9. QED
  BY <1>1, <1>2, <1>3, <1>4, <1>5, <1>6, <1>7, <1>8 DEF Next

\* The buffer is what upstream sent, nothing leaves before the end, and a JSON
\* document is delivered whole and annotated or not at all.
THEOREM BodyInvHolds == Spec => []BodyInv
  BY BodyInvInit, BodyInvNext, PTL DEF Spec

\* Types: the raw text that the filter keeps is made of the pieces of the
\* response, and it never passes on "no body" as if it were one.
THEOREM TypeCorrect == Spec => []TypeOK
<1>1. BodyInv => TypeOK
  BY DEF BodyInv
<1>2. QED
  BY <1>1, BodyInvHolds, PTL

\* However upstream cuts a JSON document into chunks, the client gets it
\* whole, annotated and once, or nothing of it.
THEOREM JsonDelivery == Spec => []JsonAllOrNothing
<1>1. BodyInv => JsonAllOrNothing
  BY DEF BodyInv
<1>2. QED
  BY <1>1, BodyInvHolds, PTL

-----------------------------------------------------------------------------
(* What is rewritten, and how                                              *)

\* What the last call passes on is its own chunk, or the annotated document
\* of a JSON response.
LEMMA LastOnlyJson ==
  ASSUME BodyInv, NEW body, body = NoBody \/ body.kind = "raw",
         phase = "body", FilterLast(body), UNCHANGED response,
         Held(body) = Raw(Prefix(response.pieces)) \/ Held(body) = NoBody
  PROVE  OnlyJsonRewritten'
<1>1. /\ delivered = <<>> /\ respContentType = response.type
      /\ delivered' = IF Passed(body) = NoBody THEN delivered ELSE Append(delivered, Passed(body))
  BY DEF FilterLast, BodyInv, HeldBack
<1>2. CASE Passed(body) = body
  <2>1. delivered' = <<>> \/ (delivered' = <<body>> /\ body.kind = "raw")
    BY <1>1, <1>2
  <2>2. QED
    BY <2>1 DEF OnlyJsonRewritten
<1>3. CASE Passed(body) # body
  <2>1. /\ Held(body) # NoBody /\ respContentType = "json"
        /\ Parse(Held(body)) # Garbage
        /\ Passed(body) = Json(Annotate(Parse(Held(body))))
    BY <1>3 DEF Passed
  <2>2. Parse(Held(body)) = response.text
    BY <2>1 DEF Parse
  <2>3. Passed(body).kind = "json" /\ Passed(body).value = Annotate(response.text)
    BY <2>1, <2>2 DEF Json
  <2>4. delivered' = <<Passed(body)>>
    BY <1>1, <2>3 DEF NoBody
  <2>5. QED
    BY <1>1, <2>1, <2>3, <2>4 DEF OnlyJsonRewritten
<1>4. QED
  BY <1>2, <1>3

LEMMA OnlyJsonNext == BodyInv /\ OnlyJsonRewritten /\ [Next]_vars => OnlyJsonRewritten'
<1> SUFFICES ASSUME BodyInv, OnlyJsonRewritten, [Next]_vars PROVE OnlyJsonRewritten'
  OBVIOUS
<1>1. ASSUME UNCHANGED <<delivered, response>> PROVE OnlyJsonRewritten'
  BY <1>1 DEF OnlyJsonRewritten
<1>2. ASSUME NEW n \in 0 .. MaxPieces, Chunk(n) PROVE OnlyJsonRewritten'
  BY <1>1, <1>2 DEF Chunk, FilterChunk, Withheld
<1>3. ASSUME NEW n \in 0 .. MaxPieces, LastChunk(n) PROVE OnlyJsonRewritten'
  <2>1. /\ phase = "body" /\ FilterLast(NextPieces(n)) /\ UNCHANGED response
        /\ sent + n = response.pieces
    BY <1>3 DEF LastChunk
  <2>2. n \in Nat
    BY BodyAssumption
  <2>3. Held(NextPieces(n)) = Raw(Prefix(response.pieces))
    BY <2>1, <2>2, HeldPrefix
  <2>4. NextPieces(n).kind = "raw"
    BY DEF NextPieces, Raw
  <2>5. QED
    BY <2>1, <2>3, <2>4, LastOnlyJson
<1>4. CASE EndOfStream
  <2>1. phase = "body" /\ FilterLast(NoBody) /\ UNCHANGED response /\ sent = response.pieces
    BY <1>4 DEF EndOfStream
  <2>2. Held(NoBody) = Raw(Prefix(response.pieces)) \/ Held(NoBody) = NoBody
    BY <2>1 DEF Held, BodyInv, BufferIsPrefix
  <2>3. QED
    BY <2>1, <2>2, LastOnlyJson
<1>5. QED
  BY <1>1, <1>2, <1>3, <1>4 DEF Next, Interim, Header, Trailers, Break, vars

\* Only the body of a JSON response is ever rewritten, into the annotation of
\* what upstream sent.
THEOREM RewritesOnlyJson == Spec => []OnlyJsonRewritten
<1>1. Init => OnlyJsonRewritten
  BY DEF Init, OnlyJsonRewritten
<1>2. QED
  BY <1>1, OnlyJsonNext, BodyInvHolds, PTL DEF Spec

\* The annotation keeps the shape of every document.
LEMMA AnnotateShape ==
  ASSUME NEW d \in Documents \cup {Garbage}, NEW v, v = Annotate(d)
  PROVE  /\ v.type = d.type
         /\ v.type = "object" => v.mark = "v0.1"
         /\ v.type = "array" =>
              /\ Len(v.items) = Len(d.items)
              /\ \A j \in 1 .. Len(v.items) :
                   IF d.items[j].type = "object"
                   THEN v.items[j] = Object("v0.1")
                   ELSE v.items[j] = d.items[j]
<1>1. CASE d.type = "array"
  <2>1. d \in Documents
    BY <1>1 DEF Garbage
  <2>2. Len(d.items) \in Nat /\ DOMAIN d.items = 1 .. Len(d.items)
    BY <1>1, <2>1, DocumentsAssumption DEF Object, Scalar
  <2>3. v.type = "array" /\ v.items = [j \in DOMAIN d.items |-> Marked(d.items[j])]
    BY <1>1 DEF Annotate, Array
  <2>4. Len(v.items) = Len(d.items)
    BY <2>2, <2>3
  <2>5. \A j \in 1 .. Len(v.items) : v.items[j] = Marked(d.items[j])
    BY <2>2, <2>3, <2>4
  <2>6. QED
    BY <1>1, <2>3, <2>4, <2>5 DEF Marked
<1>2. CASE d.type # "array"
  <2>1. v = Marked(d)
    BY <1>2 DEF Annotate
  <2>2. QED
    BY <1>2, <2>1 DEF Marked, Object
<1>3. QED
  BY <1>1, <1>2

\* No object at the top of a document or directly in an array is passed on
\* without its mark, and nothing else of a document changes.
THEOREM EveryObjectMarked == Spec => []Annotated
<1>1. BodyInv /\ OnlyJsonRewritten => Annotated
  <2> SUFFICES ASSUME BodyInv, OnlyJsonRewritten PROVE Annotated
    OBVIOUS
  <2>1. response.text \in Documents \cup {Garbage}
    BY DEF BodyInv, TypeOK, Responses
  <2>2. ASSUME NEW i \in 1 .. Len(delivered), delivered[i].kind = "json"
        PROVE  delivered[i].value = Annotate(response.text)
    BY <2>2 DEF OnlyJsonRewritten
  <2>3. QED
    BY <2>1, <2>2, AnnotateShape DEF Annotated
<1>2. QED
  BY <1>1, BodyInvHolds, RewritesOnlyJson, PTL

=============================================================================
