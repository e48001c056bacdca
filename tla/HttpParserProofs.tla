-------------------------- MODULE HttpParserProofs -------------------------
(***************************************************************************)
(* The parser and the buffer of a connection, for every sequence of        *)
(* requests, every way their bytes are cut into pieces and every block     *)
(* size.  The invariant says where in what the client has sent the parser  *)
(* is: the bytes in the buffer, followed by those still to arrive, are     *)
(* what is left of the request being parsed, followed by the requests      *)
(* after it; and the fields of the parser hold what has been read of it.   *)
(***************************************************************************)
EXTENDS HttpParser, SequenceTheorems, Induction

\* The lemmas about Buffer, for the buffer of the connection.
BP == INSTANCE BufferProofs WITH
    buf <- read_buf, op <- <<>>, Byte <- Octet, MaxChunk <- 0, MaxBlocks <- 1, MaxNeedle <- 0

USE BlockAssumption

-----------------------------------------------------------------------------
(* Where the parser is.                                                    *)

\* The requests after the first k; the chunks after the first i, and their
\* bytes alone.
After(rs, k) == FlattenSeq([i \in 1..(Len(rs) - k) |-> Encode(rs[k + i])])
Encoded(cs) == [i \in 1..Len(cs) |-> Chunk(cs[i])]
ChunksFrom(cs, i) == FlattenSeq(Rest(Encoded(cs), i)) \o Chunk(<<>>)
BytesFrom(cs, i) == FlattenSeq(Rest(cs, i))

\* What is left of a request behind its headers, before the empty line, before
\* the header that frames the body and behind the request line.
BodyPart(r, next) ==
    IF r.framing = "chunked" THEN ChunksFrom(r.chunks, 0) \o next ELSE r.body \o next
BlankPart(r, next) == <<CR, LF>> \o BodyPart(r, next)
FramePart(r, next) ==
    IF r.framing = "length" THEN Line("Content-Length", Len(r.body)) \o BlankPart(r, next)
    ELSE IF r.framing = "chunked"
         THEN Line("Transfer-Encoding: chunked", 0) \o BlankPart(r, next)
    ELSE BlankPart(r, next)
HeaderPart(r, next) ==
    IF r.close THEN Line("Connection: close", 0) \o FramePart(r, next) ELSE FramePart(r, next)

\* The parser in a request r: what its headers have said, and the rest.
InRequest(r, state, content_length, body_read, body, chunk_size, reading) ==
    [state_ |-> state,
     length |-> IF r.framing = "length" THEN Len(r.body) ELSE -1,
     chunked_ |-> r.framing = "chunked",
     content_length_ |-> content_length,
     body_read_ |-> body_read,
     temp_body_ |-> body,
     chunk_size_ |-> chunk_size,
     reading_chunk_size_ |-> reading]

States == {"START", "HEADERS", "BODY", "CHUNKED_BODY", "DONE", "ERROR"}
Parser ==
    [state_ : States, length : Int, chunked_ : BOOLEAN, content_length_ : Nat,
     body_read_ : Nat, temp_body_ : Seq(Octet), chunk_size_ : Nat,
     reading_chunk_size_ : BOOLEAN]

\* In the headers of r: before the header that frames the body, or behind it.
AtHeaders(p, r, todo, next) ==
    \/ /\ p = [NewParser EXCEPT !.state_ = "HEADERS"]
       /\ todo = HeaderPart(r, next) \/ todo = FramePart(r, next)
    \/ /\ p = InRequest(r, "HEADERS", 0, 0, <<>>, 0, TRUE)
       /\ todo = BlankPart(r, next)

\* In a body sent with its length.
AtBody(p, r, todo, next) ==
    /\ r.framing = "length"
    /\ \E n \in 0..Len(r.body) :
          /\ p = InRequest(r, "BODY", Len(r.body), n, SubSeq(r.body, 1, n), 0, TRUE)
          /\ todo = Rest(r.body, n) \o next
          /\ Len(r.body) > 0 => n < Len(r.body)

\* In a chunked body, with i chunks begun: before a size line, or in a chunk of
\* which the bytes ahead are left, perhaps none, and its CR LF.
AtSize(p, r, i, todo, next) ==
    /\ \E c \in Nat, read \in Seq(Octet) :
          /\ p = InRequest(r, "CHUNKED_BODY", 0, 0, read, c, TRUE)
          /\ read \o BytesFrom(r.chunks, i) = r.body
    /\ todo = ChunksFrom(r.chunks, i) \o next
AtChunk(p, r, i, todo, next) ==
    \E read, ahead \in Seq(Octet) :
       /\ p = InRequest(r, "CHUNKED_BODY", 0, 0, read, Len(ahead), FALSE)
       /\ read \o (ahead \o BytesFrom(r.chunks, i)) = r.body
       /\ todo = ahead \o (<<CR, LF>> \o (ChunksFrom(r.chunks, i) \o next))
AtChunks(p, r, todo, next) ==
    /\ r.framing = "chunked"
    /\ \E i \in 0..Len(r.chunks) : AtSize(p, r, i, todo, next) \/ AtChunk(p, r, i, todo, next)

\* Behind the body; the last CR LF of a chunked one is unread.
AfterBody(r, next) == IF r.framing = "chunked" THEN <<CR, LF>> \o next ELSE next
AtDone(p, r, todo, next) ==
    /\ p \in Parser /\ p.body_read_ <= p.content_length_
    /\ p.state_ = "DONE" /\ p.temp_body_ = r.body
    /\ todo = AfterBody(r, next)

\* Between two requests, k of them parsed.
AtStart(p, rs, k, todo) ==
    /\ p = NewParser
    /\ todo = IF k = 0 THEN After(rs, 0) ELSE AfterBody(rs[k], After(rs, k))

\* An error is due to a malformed request, or to the CR LF a chunked body left.
AtError(p, rs, k) ==
    /\ p \in Parser /\ p.body_read_ <= p.content_length_ /\ p.state_ = "ERROR"
    /\ \/ k < Len(rs) /\ ~rs[k + 1].ok
       \/ k > 0 /\ rs[k].framing = "chunked"

\* In the request r, with next behind it.
Inside(p, r, todo, next) ==
    \/ AtHeaders(p, r, todo, next) \/ AtBody(p, r, todo, next)
    \/ AtChunks(p, r, todo, next) \/ AtDone(p, r, todo, next)
AtRequest(p, rs, k, todo) ==
    k < Len(rs) /\ rs[k + 1].ok /\ Inside(p, rs[k + 1], todo, After(rs, k + 1))

At(p, rs, k, todo) ==
    AtStart(p, rs, k, todo) \/ AtError(p, rs, k) \/ AtRequest(p, rs, k, todo)

\* The parser can do nothing with the data it is shown.
Quiet(p, data) ==
    /\ p.state_ \in {"START", "HEADERS"} => FindCrlf(data) = 0
    /\ p.state_ = "BODY" => data = <<>>
    /\ p.state_ = "CHUNKED_BODY" =>
          IF p.reading_chunk_size_ THEN FindCrlf(data) = 0
          ELSE data = <<>> \/ (p.chunk_size_ = 0 /\ Len(data) < 2)

-----------------------------------------------------------------------------
(* The invariant.                                                          *)

Left == Buf!Content(read_buf) \o Rest(Stream(requests), sent)

HandledOK ==
    /\ handled \in Seq(Seq(Octet)) /\ Len(handled) <= Len(requests)
    /\ \A i \in 1..Len(handled) : requests[i].ok /\ handled[i] = requests[i].body

PhaseOK ==
    /\ phase \in {"wait", "parse", "returned", "closed"}
    /\ progress \in BOOLEAN /\ closed \in BOOLEAN
    /\ phase = "wait" => ~closed /\ parser.state_ \notin {"DONE", "ERROR"}
    /\ phase \in {"wait", "returned"} /\ parser.state_ \notin {"DONE", "ERROR"}
          => Quiet(parser, Buf!Peek(read_buf))

\* While everything that was sent fits into one block, there is one block.
OneBlock ==
    Len(Stream(requests)) <= kBlockSize =>
        /\ Len(read_buf.blocks) = 1
        /\ Len(read_buf.blocks[1].data) <= sent

ParserInv ==
    /\ requests \in Streams
    /\ sent \in 0..Len(Stream(requests))
    /\ read_buf \in BP!GoodBuffers
    /\ HandledOK
    /\ At(parser, requests, Len(handled), Left)
    /\ PhaseOK
    /\ OneBlock

-----------------------------------------------------------------------------
(* Sequences.                                                              *)

\* The symbols are bytes; the text of a line is not a CR.
LEMMA CharFacts == CR \in Octet /\ LF \in Octet
  BY DEF CR, LF, Char, Octet, Texts

IsText(c, t, v) == c \in Octet /\ c # CR /\ c.text = t /\ c.value = v

LEMMA TextFacts ==
    ASSUME NEW t \in Texts \ {"CR"}, NEW v \in Nat
    PROVE  IsText(Char(t, v), t, v)
<1> DEFINE c == Char(t, v)
<1>1. CR.text = "CR" /\ c.text = t /\ c.value = v
  BY DEF CR, Char
<1>2. c \in Octet
  BY DEF Char, Octet
<1> HIDE DEF c
<1>3. c # CR
  BY <1>1
<1> QED
  BY <1>1, <1>2, <1>3 DEF IsText, c

\* A sequence without its first n elements.
LEMMA RestFacts ==
    ASSUME NEW S, NEW s \in Seq(S), NEW n \in 0..Len(s)
    PROVE  /\ Rest(s, n) \in Seq(S)
           /\ Len(Rest(s, n)) = Len(s) - n
           /\ \A i \in 1..(Len(s) - n) : Rest(s, n)[i] = s[n + i]
  BY BP!DroppedFacts DEF BP!Dropped, Rest

\* The first n elements of a sequence.
LEMMA FirstFacts ==
    ASSUME NEW S, NEW s \in Seq(S), NEW n \in 0..Len(s)
    PROVE  /\ SubSeq(s, 1, n) \in Seq(S)
           /\ Len(SubSeq(s, 1, n)) = n
           /\ \A i \in 1..n : SubSeq(s, 1, n)[i] = s[i]
  BY SubSeqProperties

\* Two sequences are equal when their elements are.
LEMMA SameElements ==
    ASSUME NEW S, NEW s \in Seq(S), NEW t \in Seq(S), Len(s) = Len(t),
           \A i \in 1..Len(s) : s[i] = t[i]
    PROVE  s = t
  BY SeqEqual

\* Three sequences in a row, grouped to the right.
Three(x, y, z) == x \in Seq(Octet) /\ y \in Seq(Octet) /\ z \in Seq(Octet)

LEMMA Regroup ==
    ASSUME NEW x, NEW y, NEW z, Three(x, y, z)
    PROVE  (x \o y) \o z = x \o (y \o z)
  BY ConcatAssociative DEF Three

LEMMA Concat ==
    \A x, y \in Seq(Octet) : x \o y \in Seq(Octet) /\ Len(x \o y) = Len(x) + Len(y)
  BY ConcatProperties

LEMMA ConcatEmpty ==
    \A x \in Seq(Octet) : x \o <<>> = x /\ <<>> \o x = x
  BY ConcatEmptySeq

\* data and what comes later, together, are a and then x.
Splits(data, later, a, x) ==
    /\ data \in Seq(Octet) /\ later \in Seq(Octet) /\ a \in Seq(Octet) /\ x \in Seq(Octet)
    /\ data \o later = a \o x

\* What is left when a is taken from the front, when all of it has arrived.
LEMMA Eaten ==
    ASSUME NEW data, NEW later, NEW a, NEW x, Splits(data, later, a, x), Len(a) <= Len(data)
    PROVE  /\ \A i \in 1..Len(a) : data[i] = a[i]
           /\ SubSeq(data, 1, Len(a)) = a
           /\ Len(a) \in 0..Len(data) /\ Rest(data, Len(a)) \in Seq(Octet)
           /\ Rest(data, Len(a)) \o later = x
<1> USE DEF Splits
<1> DEFINE n == Len(a)
           r == Rest(data, n)
           y == r \o later
<1>1. n \in 0..Len(data) /\ n \in Nat /\ Len(data) \in Nat /\ Len(later) \in Nat /\ Len(x) \in Nat
  OBVIOUS
<1>2. /\ Len(data \o later) = Len(data) + Len(later) /\ Len(a \o x) = n + Len(x)
      /\ \A i \in 1..(Len(data) + Len(later)) :
            (data \o later)[i] = IF i <= Len(data) THEN data[i] ELSE later[i - Len(data)]
      /\ \A i \in 1..(n + Len(x)) : (a \o x)[i] = IF i <= n THEN a[i] ELSE x[i - n]
  BY ConcatProperties
<1>3. Len(data) + Len(later) = n + Len(x)
  BY <1>2
<1>4. \A i \in 1..n : data[i] = a[i]
  <2> TAKE i \in 1..n
  <2>1. i \in 1..(Len(data) + Len(later)) /\ i \in 1..(n + Len(x)) /\ i <= n /\ i <= Len(data)
    BY <1>1
  <2> QED
    BY <1>2, <2>1
<1>5. SubSeq(data, 1, n) = a
  <2>1. /\ SubSeq(data, 1, n) \in Seq(Octet) /\ Len(SubSeq(data, 1, n)) = n
        /\ \A i \in 1..n : SubSeq(data, 1, n)[i] = data[i]
    BY <1>1, FirstFacts
  <2> QED
    BY <1>4, <2>1, SameElements
<1>6. /\ r \in Seq(Octet) /\ Len(r) = Len(data) - n
      /\ \A i \in 1..(Len(data) - n) : r[i] = data[n + i]
  BY <1>1, RestFacts
<1> HIDE DEF n, r
<1>7. /\ y \in Seq(Octet) /\ Len(y) = Len(r) + Len(later)
      /\ \A i \in 1..(Len(r) + Len(later)) :
            y[i] = IF i <= Len(r) THEN r[i] ELSE later[i - Len(r)]
  BY <1>6, ConcatProperties
<1> HIDE DEF y
<1>8. Len(y) = Len(x)
  BY <1>1, <1>3, <1>6, <1>7
<1>9. \A i \in 1..Len(y) : y[i] = x[i]
  <2> TAKE i \in 1..Len(y)
  <2>1. /\ n + i \in 1..(n + Len(x)) /\ ~(n + i <= n) /\ (n + i) - n = i
        /\ n + i \in 1..(Len(data) + Len(later))
    BY <1>1, <1>3, <1>8
  <2>2. x[i] = (data \o later)[n + i]
    BY <1>2, <2>1
  <2>3. CASE i <= Len(r)
    <3>1. i \in 1..(Len(data) - n) /\ n + i <= Len(data) /\ i \in 1..(Len(r) + Len(later))
      BY <1>1, <1>6, <2>3
    <3> QED
      BY <1>2, <1>6, <1>7, <2>1, <2>2, <2>3, <3>1
  <2>4. CASE ~(i <= Len(r))
    <3>1. /\ ~(n + i <= Len(data)) /\ i \in 1..(Len(r) + Len(later))
          /\ (n + i) - Len(data) = i - Len(r)
      BY <1>1, <1>6, <1>7, <2>4
    <3> QED
      BY <1>2, <1>7, <2>1, <2>2, <2>4, <3>1, SMTT(30)
  <2> QED
    BY <2>3, <2>4
<1>10. y = x
  BY <1>7, <1>8, <1>9, SameElements
<1> QED
  BY <1>1, <1>4, <1>5, <1>6, <1>10 DEF y, r, n

\* The least element of a set of numbers is what it should be.
LEMMA MinIs ==
    ASSUME NEW T \in SUBSET Int, NEW x \in T, \A y \in T : x <= y
    PROVE  Min(T) = x
<1>1. Min(T) \in T /\ \A y \in T : Min(T) <= y
  BY DEF Min
<1>2. x \in Int /\ Min(T) \in Int /\ x <= Min(T) /\ Min(T) <= x
  BY <1>1
<1> QED
  BY <1>2

LEMMA MinOfTwo ==
    \A m, n \in Int : Min({m, n}) = IF m <= n THEN m ELSE n
<1> TAKE m, n \in Int
<1>1. CASE m <= n
  <2>1. {m, n} \in SUBSET Int /\ m \in {m, n} /\ \A y \in {m, n} : m <= y
    BY <1>1
  <2>2. Min({m, n}) = m
    BY <2>1, MinIs
  <2> QED
    BY <1>1, <2>2
<1>2. CASE ~(m <= n)
  <2>1. {m, n} \in SUBSET Int /\ n \in {m, n} /\ \A y \in {m, n} : n <= y
    BY <1>2
  <2>2. Min({m, n}) = n
    BY <2>1, MinIs
  <2> QED
    BY <1>2, <2>2
<1> QED
  BY <1>1, <1>2

\* Where a CR LF is, when no CR comes before it; and that there is none.
LEMMA FoundAt ==
    ASSUME NEW data \in Seq(Octet), NEW i \in 1..(Len(data) - 1),
           data[i] = CR, data[i + 1] = LF, \A j \in 1..(i - 1) : data[j] # CR
    PROVE  FindCrlf(data) = i
<1> DEFINE found == {j \in 1..(Len(data) - 1) : data[j] = CR /\ data[j + 1] = LF}
<1>1. found \in SUBSET Int /\ i \in found
  OBVIOUS
<1>2. \A y \in found : i <= y
  OBVIOUS
<1>3. FindCrlf(data) = IF found = {} THEN 0 ELSE Min(found)
  BY DEF FindCrlf
<1> HIDE DEF found
<1>4. Min(found) = i
  BY <1>1, <1>2, MinIs
<1> QED
  BY <1>1, <1>3, <1>4

LEMMA NotFound ==
    ASSUME NEW data \in Seq(Octet), \A i \in 1..(Len(data) - 1) : data[i] # CR
    PROVE  FindCrlf(data) = 0
  BY DEF FindCrlf

\* A CR LF that is found lies in the data.
LEMMA FoundInside ==
    ASSUME NEW data \in Seq(Octet)
    PROVE  /\ FindCrlf(data) \in 0..Len(data)
           /\ FindCrlf(data) # 0 => FindCrlf(data) + 1 \in 0..Len(data) /\ FindCrlf(data) \in Nat
<1> DEFINE found == {j \in 1..(Len(data) - 1) : data[j] = CR /\ data[j + 1] = LF}
<1>1. FindCrlf(data) = IF found = {} THEN 0 ELSE Min(found)
  BY DEF FindCrlf
<1>2. found \subseteq Nat /\ \A x \in found : x \in 1..(Len(data) - 1)
  OBVIOUS
<1> HIDE DEF found
<1>3. CASE found = {}
  BY <1>1, <1>3
<1>4. CASE found # {}
  <2>1. PICK x \in found : \A y \in found : ~(y < x)
    BY <1>2, <1>4, LeastElement
  <2>2. found \in SUBSET Int /\ \A y \in found : x <= y
    BY <1>2, <2>1
  <2>3. FindCrlf(data) = x
    BY <1>1, <1>4, <2>2, MinIs
  <2> QED
    BY <1>2, <2>3
<1> QED
  BY <1>3, <1>4

\* The first byte of what is split.
LEMMA FirstByte ==
    ASSUME NEW data, NEW later, NEW a, NEW x, Splits(data, later, a, x), Len(a) > 0, Len(data) > 0
    PROVE  data[1] = a[1]
<1>1. 1 \in 1..(Len(data) + Len(later)) /\ 1 <= Len(data) /\ 1 \in 1..(Len(a) + Len(x)) /\ 1 <= Len(a)
  BY DEF Splits
<1>2. (data \o later)[1] = data[1]
  BY <1>1, ConcatProperties DEF Splits
<1>3. (a \o x)[1] = a[1]
  BY <1>1, ConcatProperties DEF Splits
<1> QED
  BY <1>2, <1>3 DEF Splits

\* A line of text at the front: it is found once its three bytes have arrived.
LEMMA LineArrives ==
    ASSUME NEW t \in Texts \ {"CR"}, NEW v \in Nat, NEW data, NEW later, NEW x,
           Splits(data, later, Line(t, v), x)
    PROVE  IF Len(data) < 3 THEN FindCrlf(data) = 0
           ELSE /\ FindCrlf(data) = 2 /\ data[1] = Char(t, v)
                /\ SubSeq(data, 1, 1) = <<Char(t, v)>> /\ 3 \in 0..Len(data)
                /\ Rest(data, 3) \in Seq(Octet) /\ Rest(data, 3) \o later = x
<1> DEFINE a == Line(t, v)
<1>1. Char(t, v) \in Octet /\ Char(t, v) # CR /\ CR \in Octet /\ LF \in Octet
  BY CharFacts, TextFacts DEF IsText
<1>2. a \in Seq(Octet) /\ Len(a) = 3 /\ a[1] = Char(t, v) /\ a[2] = CR /\ a[3] = LF
  BY <1>1 DEF Line
<1>3. Splits(data, later, a, x) /\ data \in Seq(Octet)
  BY DEF Splits
<1> HIDE DEF a
<1>4. CASE Len(data) < 3
  <2>1. ASSUME NEW i \in 1..(Len(data) - 1) PROVE data[i] # CR
    <3>1. i = 1 /\ Len(data) > 0 /\ Len(a) > 0
      BY <1>2, <1>3, <1>4
    <3>2. data[1] = a[1]
      BY <1>3, <3>1, FirstByte
    <3> QED
      BY <1>1, <1>2, <3>1, <3>2
  <2>2. FindCrlf(data) = 0
    BY <1>3, <2>1, NotFound
  <2> QED
    BY <1>4, <2>2
<1>5. CASE ~(Len(data) < 3)
  <2>1. Len(a) <= Len(data) /\ Len(data) \in Nat
    BY <1>2, <1>3, <1>5
  <2>2. /\ \A i \in 1..Len(a) : data[i] = a[i]
        /\ Len(a) \in 0..Len(data) /\ Rest(data, Len(a)) \in Seq(Octet)
        /\ Rest(data, Len(a)) \o later = x
    BY <1>3, <2>1, Eaten
  <2>3. data[1] = Char(t, v) /\ data[1] # CR /\ data[2] = CR /\ data[2 + 1] = LF
    BY <1>1, <1>2, <2>2
  <2>4. FindCrlf(data) = 2
    <3>1. 2 \in 1..(Len(data) - 1) /\ \A j \in 1..(2 - 1) : data[j] # CR
      BY <1>2, <2>1, <2>3
    <3> QED
      BY <1>3, <2>3, <3>1, FoundAt
  <2>5. SubSeq(data, 1, 1) = <<Char(t, v)>>
    <3> DEFINE u == SubSeq(data, 1, 1)
    <3>1. 1 \in 0..Len(data)
      BY <1>2, <2>1
    <3>2. u \in Seq(Octet) /\ Len(u) = 1 /\ \A i \in 1..1 : u[i] = data[i]
      BY <1>3, <3>1, FirstFacts
    <3> HIDE DEF u
    <3>3. u = <<u[1]>>
      BY <3>2
    <3> QED
      BY <2>3, <3>2, <3>3 DEF u
  <2> QED
    BY <1>2, <1>5, <2>2, <2>3, <2>4, <2>5
<1> QED
  BY <1>4, <1>5

\* A CR LF at the front is found once its two bytes have arrived.
LEMMA BlankArrives ==
    ASSUME NEW data, NEW later, NEW x, Splits(data, later, <<CR, LF>>, x)
    PROVE  IF Len(data) < 2 THEN FindCrlf(data) = 0
           ELSE /\ FindCrlf(data) = 1 /\ 2 \in 0..Len(data)
                /\ Rest(data, 2) \in Seq(Octet) /\ Rest(data, 2) \o later = x
<1> DEFINE a == <<CR, LF>>
<1>1. a \in Seq(Octet) /\ Len(a) = 2 /\ a[1] = CR /\ a[2] = LF
  BY CharFacts
<1>2. Splits(data, later, a, x) /\ data \in Seq(Octet)
  BY DEF Splits
<1> HIDE DEF a
<1>3. CASE Len(data) < 2
  <2>1. \A i \in 1..(Len(data) - 1) : data[i] # CR
    BY <1>2, <1>3
  <2> QED
    BY <1>2, <1>3, <2>1, NotFound
<1>4. CASE ~(Len(data) < 2)
  <2>1. Len(a) <= Len(data) /\ Len(data) \in Nat
    BY <1>1, <1>2, <1>4
  <2>2. /\ \A i \in 1..Len(a) : data[i] = a[i]
        /\ Len(a) \in 0..Len(data) /\ Rest(data, Len(a)) \in Seq(Octet)
        /\ Rest(data, Len(a)) \o later = x
    BY <1>2, <2>1, Eaten
  <2>3. /\ data[1] = CR /\ data[1 + 1] = LF
        /\ 1 \in 1..(Len(data) - 1) /\ \A j \in 1..(1 - 1) : data[j] # CR
    BY <1>1, <2>1, <2>2
  <2>4. FindCrlf(data) = 1
    BY <1>2, <2>3, FoundAt
  <2> QED
    BY <1>1, <1>4, <2>2, <2>4
<1> QED
  BY <1>3, <1>4

-----------------------------------------------------------------------------
(* The bytes of requests and of chunks.                                    *)

\* FlattenSeq is the one of the lemmas about Buffer.
LEMMA SameFlatten == \A p : BP!FlattenSeq(p) = FlattenSeq(p)
  BY DEF BP!FlattenSeq, FlattenSeq

Parts == Seq(Seq(Octet))

LEMMA FlatTypes ==
    ASSUME NEW p \in Parts
    PROVE  FlattenSeq(p) \in Seq(Octet) /\ (Len(p) = 0 => FlattenSeq(p) = <<>>)
<1>1. CASE p = <<>>
  BY <1>1 DEF FlattenSeq
<1>2. CASE p # <<>>
  <2>1. p \in BP!Parts(Octet)
    BY DEF Parts, BP!Parts
  <2>2. BP!FlattenSeq(p) \in Seq(Octet)
    BY <1>2, <2>1, BP!FlatType
  <2>3. Len(p) # 0
    BY <1>2 DEF Parts
  <2> QED
    BY <2>2, <2>3, SameFlatten
<1> QED
  BY <1>1, <1>2

\* q is p without its first part.
Shorter(q, p) ==
    p \in Parts /\ q \in Parts /\ Len(p) = Len(q) + 1 /\ \A i \in 1..Len(q) : q[i] = p[i + 1]

\* The first part comes first.
LEMMA FlatCons ==
    ASSUME NEW p, NEW q, Shorter(q, p)
    PROVE  FlattenSeq(p) = p[1] \o FlattenSeq(q)
<1>1. /\ p \in BP!Parts(Octet) /\ q \in BP!Parts(Octet) /\ p # <<>>
      /\ Len(q) \in Nat /\ Len(p) = Len(q) + 1 /\ p[1] \in Seq(Octet)
      /\ \A i \in 1..Len(q) : q[i] = p[i + 1] /\ q[i] \in Seq(Octet)
  BY DEF Shorter, Parts, BP!Parts
<1>2. PICK c : BP!IsFlat(c, p, Octet) /\ BP!FlattenSeq(p) = c[Len(p)]
  BY <1>1, BP!FlatExists
<1>3. /\ c \in [0..Len(p) -> Seq(Octet)] /\ c[0] = <<>>
      /\ \A i \in 1..Len(p) : c[i] = c[i - 1] \o p[i]
  BY <1>2 DEF BP!IsFlat
<1>4. c[1] = p[1]
  <2>1. c[1] = c[1 - 1] \o p[1]
    BY <1>1, <1>3
  <2> QED
    BY <1>1, <1>3, <2>1, ConcatEmpty
<1>5. CASE q = <<>>
  <2>1. Len(p) = 1 /\ FlattenSeq(q) = <<>>
    BY <1>1, <1>5 DEF FlattenSeq
  <2>2. p[1] \o <<>> = p[1]
    BY <1>1, ConcatEmpty
  <2> QED
    BY <1>2, <1>4, <2>1, <2>2, SameFlatten
<1>6. CASE q # <<>>
  <2>1. PICK d : BP!IsFlat(d, q, Octet) /\ BP!FlattenSeq(q) = d[Len(q)]
    BY <1>1, <1>6, BP!FlatExists
  <2>2. /\ d \in [0..Len(q) -> Seq(Octet)] /\ d[0] = <<>>
        /\ \A i \in 1..Len(q) : d[i] = d[i - 1] \o q[i]
    BY <2>1 DEF BP!IsFlat
  <2> DEFINE Same(j) == c[j + 1] = p[1] \o d[j]
             T == {j \in Nat : j <= Len(q) => Same(j)}
  <2>3. Same(0)
    BY <1>1, <1>4, <2>2, ConcatEmpty
  <2>4. ASSUME NEW j \in Nat, j + 1 <= Len(q), Same(j) PROVE Same(j + 1)
    <3>1. SUFFICES c[(j + 1) + 1] = p[1] \o d[j + 1]
      OBVIOUS
    <3>2. /\ j + 1 \in 1..Len(q) /\ (j + 1) + 1 \in 1..Len(p) /\ (j + 1) - 1 = j
          /\ ((j + 1) + 1) - 1 = j + 1 /\ j \in 0..Len(q)
      BY <1>1, <2>4
    <3>3. c[j + 1] = p[1] \o d[j]
      BY <2>4
    <3>4. c[(j + 1) + 1] = c[j + 1] \o p[(j + 1) + 1]
      BY <1>3, <3>2
    <3>5. d[j + 1] = d[j] \o q[j + 1] /\ q[j + 1] = p[(j + 1) + 1]
      BY <1>1, <2>2, <3>2
    <3>6. d[j] \in Seq(Octet) /\ q[j + 1] \in Seq(Octet)
      BY <1>1, <2>2, <3>2
    <3> DEFINE u == p[1]
               v == d[j]
               w == q[j + 1]
    <3>7. Three(u, v, w)
      BY <1>1, <3>6 DEF Three
    <3> HIDE DEF u, v, w
    <3>8. (u \o v) \o w = u \o (v \o w)
      BY <3>7, Regroup
    <3> QED
      BY <3>3, <3>4, <3>5, <3>8 DEF u, v, w
  <2> HIDE DEF Same
  <2>5. 0 \in T /\ \A j \in Nat : j \in T => j + 1 \in T
    BY <1>1, <2>3, <2>4
  <2>6. Len(q) \in T
    <3> HIDE DEF T
    <3> QED
      BY <1>1, <2>5, SetInduction
  <2>7. Same(Len(q))
    BY <1>1, <2>6
  <2>8. c[Len(q) + 1] = p[1] \o d[Len(q)]
    BY <2>7 DEF Same
  <2> QED
    BY <1>1, <1>2, <2>1, <2>8, SameFlatten
<1> QED
  BY <1>5, <1>6

\* The types of lines.
LEMMA LineFacts ==
    /\ \A t \in Texts \ {"CR"}, v \in Nat : Line(t, v) \in Seq(Octet) /\ Len(Line(t, v)) = 3
    /\ <<CR, LF>> \in Seq(Octet) /\ Len(<<CR, LF>>) = 2 /\ <<>> \in Seq(Octet)
<1>1. ASSUME NEW t \in Texts \ {"CR"}, NEW v \in Nat
      PROVE  Line(t, v) \in Seq(Octet) /\ Len(Line(t, v)) = 3
  <2>1. Char(t, v) \in Octet /\ CR \in Octet /\ LF \in Octet
    BY CharFacts, TextFacts DEF IsText
  <2> QED
    BY <2>1 DEF Line
<1> QED
  BY <1>1, CharFacts

\* A chunk: its size line, its bytes and a CR LF; the last one has no bytes.
LEMMA ChunkFacts ==
    /\ \A b \in Seq(Octet) : /\ Line("size", Len(b)) \in Seq(Octet)
                             /\ Chunk(b) \in Seq(Octet)
                             /\ Chunk(b) = Line("size", Len(b)) \o (b \o <<CR, LF>>)
    /\ Line("size", 0) \in Seq(Octet)
    /\ Chunk(<<>>) = Line("size", 0) \o <<CR, LF>> /\ Chunk(<<>>) \in Seq(Octet)
<1>1. \A v \in Nat : Line("size", v) \in Seq(Octet)
  <2>1. "size" \in Texts \ {"CR"}
    BY DEF Texts
  <2> QED
    BY <2>1, LineFacts
<1>2. <<CR, LF>> \in Seq(Octet) /\ <<>> \in Seq(Octet) /\ Len(<<>>) = 0
  BY LineFacts
<1>3. ASSUME NEW b \in Seq(Octet)
      PROVE  /\ Line("size", Len(b)) \in Seq(Octet) /\ Chunk(b) \in Seq(Octet)
             /\ Chunk(b) = Line("size", Len(b)) \o (b \o <<CR, LF>>)
  <2> DEFINE a == Line("size", Len(b))
             end == <<CR, LF>>
  <2>1. Chunk(b) = (a \o b) \o end
    BY DEF Chunk
  <2>2. a \in Seq(Octet) /\ end \in Seq(Octet)
    BY <1>1, <1>2
  <2> HIDE DEF a, end
  <2>3. (a \o b) \o end = a \o (b \o end)
    BY <2>2, Regroup DEF Three
  <2>4. a \o (b \o end) \in Seq(Octet)
    BY <2>2, Concat
  <2> QED
    BY <2>1, <2>2, <2>3, <2>4 DEF a, end
<1>4. Chunk(<<>>) = Line("size", 0) \o <<CR, LF>> /\ Chunk(<<>>) \in Seq(Octet)
  <2>1. Chunk(<<>>) = (Line("size", Len(<<>>)) \o <<>>) \o <<CR, LF>>
    BY DEF Chunk
  <2>2. Line("size", 0) \in Seq(Octet) /\ Line("size", 0) \o <<>> = Line("size", 0)
    BY <1>1, ConcatEmpty
  <2> QED
    BY <1>2, <1>3, <2>1, <2>2
<1> QED
  BY <1>1, <1>3, <1>4

\* Some parts, after the first k of them: one part, and those after k + 1.
LEMMA PartsFrom ==
    ASSUME NEW q \in Parts, NEW k \in 0..Len(q)
    PROVE  /\ FlattenSeq(Rest(q, k)) \in Seq(Octet)
           /\ k < Len(q) =>
                /\ q[k + 1] \in Seq(Octet) /\ k + 1 \in 0..Len(q)
                /\ FlattenSeq(Rest(q, k)) = q[k + 1] \o FlattenSeq(Rest(q, k + 1))
           /\ k = Len(q) => FlattenSeq(Rest(q, k)) = <<>>
           /\ Rest(q, 0) = q
<1>1. q \in Seq(Seq(Octet)) /\ Len(q) \in Nat
  BY DEF Parts
<1>2. /\ Rest(q, k) \in Parts /\ Len(Rest(q, k)) = Len(q) - k
      /\ \A i \in 1..(Len(q) - k) : Rest(q, k)[i] = q[k + i]
  BY <1>1, RestFacts DEF Parts
<1>3. FlattenSeq(Rest(q, k)) \in Seq(Octet) /\ (k = Len(q) => FlattenSeq(Rest(q, k)) = <<>>)
  <2>1. k = Len(q) => Len(Rest(q, k)) = 0
    BY <1>1, <1>2
  <2> QED
    BY <1>2, <2>1, FlatTypes
<1>4. Rest(q, 0) = q
  <2>1. 0 \in 0..Len(q) /\ Len(q) - 0 = Len(q)
    BY <1>1
  <2>2. /\ Rest(q, 0) \in Seq(Seq(Octet)) /\ Len(Rest(q, 0)) = Len(q)
        /\ \A i \in 1..Len(q) : Rest(q, 0)[i] = q[0 + i]
    BY <1>1, <2>1, RestFacts
  <2>3. \A i \in 1..Len(q) : Rest(q, 0)[i] = q[i]
    BY <1>1, <2>2
  <2> QED
    BY <1>1, <2>2, <2>3, SameElements
<1>5. CASE k < Len(q)
  <2>1. k + 1 \in 0..Len(q) /\ k + 1 \in 1..Len(q) /\ 1 \in 1..(Len(q) - k)
    BY <1>1, <1>5
  <2>2. /\ Rest(q, k + 1) \in Parts /\ Len(Rest(q, k + 1)) = Len(q) - (k + 1)
        /\ \A i \in 1..(Len(q) - (k + 1)) : Rest(q, k + 1)[i] = q[(k + 1) + i]
    BY <1>1, <2>1, RestFacts DEF Parts
  <2>3. Shorter(Rest(q, k + 1), Rest(q, k))
    <3>1. \A i \in 1..(Len(q) - (k + 1)) :
             i + 1 \in 1..(Len(q) - k) /\ (k + 1) + i = k + (i + 1)
      BY <1>1
    <3>2. \A i \in 1..(Len(q) - (k + 1)) : Rest(q, k + 1)[i] = Rest(q, k)[i + 1]
      BY <1>2, <2>2, <3>1
    <3>3. Len(Rest(q, k)) = Len(Rest(q, k + 1)) + 1
      <4> DEFINE n == Len(q)
      <4>1. n \in Nat /\ k \in Nat
        BY <1>1
      <4>2. Len(Rest(q, k)) = n - k /\ Len(Rest(q, k + 1)) = n - (k + 1)
        BY <1>2, <2>2, Zenon
      <4> HIDE DEF n
      <4> QED
        BY <4>1, <4>2
    <3> QED
      BY <1>2, <2>2, <3>2, <3>3 DEF Shorter
  <2>4. FlattenSeq(Rest(q, k)) = Rest(q, k)[1] \o FlattenSeq(Rest(q, k + 1))
    BY <2>3, FlatCons
  <2>5. Rest(q, k)[1] = q[k + 1] /\ q[k + 1] \in Seq(Octet)
    BY <1>1, <1>2, <2>1
  <2> QED
    BY <1>3, <1>4, <1>5, <2>1, <2>4, <2>5
<1> QED
  BY <1>1, <1>3, <1>4, <1>5

\* The bytes of the chunks after the first i.
LEMMA BytesFromFacts ==
    ASSUME NEW cs \in Parts, NEW i \in 0..Len(cs)
    PROVE  /\ BytesFrom(cs, i) \in Seq(Octet)
           /\ i < Len(cs) => BytesFrom(cs, i) = cs[i + 1] \o BytesFrom(cs, i + 1)
           /\ i = Len(cs) => BytesFrom(cs, i) = <<>>
           /\ BytesFrom(cs, 0) = FlattenSeq(cs)
  BY PartsFrom DEF BytesFrom

LEMMA EncodedFacts ==
    ASSUME NEW cs \in Parts
    PROVE  /\ Encoded(cs) \in Parts /\ Len(Encoded(cs)) = Len(cs)
           /\ \A i \in 1..Len(cs) : Encoded(cs)[i] = Chunk(cs[i])
<1>1. Len(cs) \in Nat /\ \A i \in 1..Len(cs) : cs[i] \in Seq(Octet)
  BY DEF Parts
<1>2. \A i \in 1..Len(cs) : Chunk(cs[i]) \in Seq(Octet)
  BY <1>1, ChunkFacts
<1>3. Encoded(cs) \in [1..Len(cs) -> Seq(Octet)]
  BY <1>2 DEF Encoded
<1>4. \A m \in Nat : \A f \in [1..m -> Seq(Octet)] : f \in Parts /\ Len(f) = m
  BY DEF Parts
<1> QED
  BY <1>1, <1>3, <1>4 DEF Encoded

\* The chunks after the first i: one chunk, and those after i + 1; at the end the
\* last chunk, whose CR LF stays behind.
LEMMA ChunksFromFacts ==
    ASSUME NEW cs \in Parts, NEW i \in 0..Len(cs), NEW next \in Seq(Octet)
    PROVE  /\ ChunksFrom(cs, i) \in Seq(Octet)
           /\ i < Len(cs) =>
                /\ cs[i + 1] \in Seq(Octet) /\ i + 1 \in 0..Len(cs)
                /\ ChunksFrom(cs, i) \o next
                      = Line("size", Len(cs[i + 1]))
                           \o (cs[i + 1] \o (<<CR, LF>> \o (ChunksFrom(cs, i + 1) \o next)))
           /\ i = Len(cs) =>
                ChunksFrom(cs, i) \o next = Line("size", 0) \o (<<CR, LF>> \o next)
           /\ ChunksFrom(cs, 0) = FlattenSeq(Encoded(cs)) \o Chunk(<<>>)
<1> DEFINE q == Encoded(cs)
           flat(k) == FlattenSeq(Rest(q, k))
           last == Chunk(<<>>)
           end == <<CR, LF>>
<1>1. /\ q \in Parts /\ Len(q) = Len(cs) /\ Len(cs) \in Nat
      /\ \A j \in 1..Len(cs) : q[j] = Chunk(cs[j]) /\ cs[j] \in Seq(Octet)
  BY EncodedFacts DEF Parts
<1>2. \A k : ChunksFrom(cs, k) = flat(k) \o last
  BY DEF ChunksFrom
<1>3. \A k \in 0..Len(cs) :
         /\ flat(k) \in Seq(Octet)
         /\ k < Len(cs) => flat(k) = q[k + 1] \o flat(k + 1)
         /\ k = Len(cs) => flat(k) = <<>>
         /\ flat(0) = FlattenSeq(q)
  BY <1>1, PartsFrom
<1>4. /\ last \in Seq(Octet) /\ last = Line("size", 0) \o end /\ end \in Seq(Octet)
      /\ Line("size", 0) \in Seq(Octet)
  BY ChunkFacts, LineFacts
<1> HIDE DEF q, flat, last, end
<1>5. \A k \in 0..Len(cs) : ChunksFrom(cs, k) \in Seq(Octet)
  <2> TAKE k \in 0..Len(cs)
  <2> DEFINE u == flat(k)
  <2>1. u \in Seq(Octet) /\ ChunksFrom(cs, k) = u \o last
    BY <1>2, <1>3
  <2> HIDE DEF u
  <2> QED
    BY <1>4, <2>1, Concat
<1>8. ChunksFrom(cs, 0) = FlattenSeq(q) \o last
  <2>1. 0 \in 0..Len(cs)
    BY <1>1
  <2> QED
    BY <1>2, <1>3, <2>1, Zenon
<1>6. CASE i = Len(cs)
  <2>1. ChunksFrom(cs, i) = last
    <3>1. flat(i) = <<>>
      BY <1>3, <1>6
    <3>2. ChunksFrom(cs, i) = <<>> \o last
      BY <1>2, <3>1
    <3> QED
      BY <1>4, <3>2, ConcatEmpty
  <2>2. (Line("size", 0) \o end) \o next = Line("size", 0) \o (end \o next)
    BY <1>4, Regroup DEF Three
  <2>3. ChunksFrom(cs, i) \o next = Line("size", 0) \o (end \o next)
    BY <1>4, <2>1, <2>2
  <2>4. ~(i < Len(cs))
    BY <1>1, <1>6
  <2> QED
    BY <1>5, <1>8, <2>3, <2>4, Zenon DEF end, last, q
<1>7. CASE i < Len(cs)
  <2> DEFINE b == cs[i + 1]
             size == Line("size", Len(b))
             f == flat(i + 1)
             more == ChunksFrom(cs, i + 1)
             here == ChunksFrom(cs, i)
  <2>1. i + 1 \in 0..Len(cs) /\ i + 1 \in 1..Len(cs)
    BY <1>1, <1>7
  <2>2. b \in Seq(Octet) /\ q[i + 1] = Chunk(b)
    BY <1>1, <2>1
  <2>3. size \in Seq(Octet) /\ Chunk(b) = size \o (b \o end)
    BY <2>2, ChunkFacts DEF end
  <2>4. f \in Seq(Octet) /\ more \in Seq(Octet) /\ more = f \o last
    BY <1>2, <1>3, <1>5, <2>1
  <2>5. here = (Chunk(b) \o f) \o last
    BY <1>2, <1>3, <1>7, <2>2
  <2> HIDE DEF b, size, f, more, here
  <2>6. b \o end \in Seq(Octet) /\ more \o next \in Seq(Octet) /\ Chunk(b) \in Seq(Octet)
    BY <1>4, <2>2, <2>3, <2>4, Concat
  <2> DEFINE c == Chunk(b)
  <2>13. c \in Seq(Octet) /\ here = (c \o f) \o last
    BY <2>5, <2>6
  <2> HIDE DEF c
  <2>7. here = c \o more
    <3>1. Three(c, f, last)
      BY <1>4, <2>4, <2>13 DEF Three
    <3>2. (c \o f) \o last = c \o (f \o last)
      BY <3>1, Regroup
    <3> QED
      BY <2>4, <2>13, <3>2
  <2>8. here \o next = c \o (more \o next)
    <3>1. Three(c, more, next)
      BY <2>4, <2>13 DEF Three
    <3>2. (c \o more) \o next = c \o (more \o next)
      BY <3>1, Regroup
    <3> QED
      BY <2>7, <3>2
  <2> DEFINE tail == more \o next
             mid == b \o end
  <2>9. tail \in Seq(Octet) /\ mid \in Seq(Octet) /\ c = size \o mid
    BY <2>3, <2>6 DEF c
  <2>10. mid \o tail = b \o (end \o tail)
    <3> HIDE DEF tail
    <3>1. Three(b, end, tail)
      BY <1>4, <2>2, <2>9 DEF Three
    <3> QED
      BY <3>1, Regroup
  <2> HIDE DEF tail, mid
  <2>11. (size \o mid) \o tail = size \o (mid \o tail)
    BY <2>3, <2>9, Regroup, SMTT(30) DEF Three
  <2>12. here \o next = size \o (b \o (end \o tail))
    BY <2>8, <2>9, <2>10, <2>11 DEF tail
  <2>14. i # Len(cs)
    BY <1>1, <1>7
  <2> QED
    BY <1>5, <1>8, <2>1, <2>2, <2>12, <2>14, Zenon
    DEF b, size, more, here, tail, end, last, q
<1>9. i = Len(cs) \/ i < Len(cs)
  BY <1>1
<1> QED
  BY <1>6, <1>7, <1>9, Zenon

\* What clients send, from StreamAssumption.
IsRequest(r) ==
    /\ r \in Request
    /\ r.framing = "none" => r.body = <<>>
    /\ r.framing = "chunked" =>
          /\ r.body = FlattenSeq(r.chunks)
          /\ \A j \in 1..Len(r.chunks) : r.chunks[j] # <<>>
IsStream(rs) == rs \in Seq(Request) /\ \A i \in 1..Len(rs) : IsRequest(rs[i])

LEMMA StreamTypes == \A rs \in Streams : IsStream(rs)
<1> TAKE rs \in Streams
<1>1. /\ rs \in Seq(Request)
      /\ \A i \in DOMAIN rs :
            /\ rs[i].framing = "none" => rs[i].body = <<>>
            /\ rs[i].framing = "chunked" =>
                  /\ rs[i].body = FlattenSeq(rs[i].chunks)
                  /\ \A j \in DOMAIN rs[i].chunks : rs[i].chunks[j] # <<>>
  BY StreamAssumption
<1>2. \A i \in 1..Len(rs) : rs[i] \in Request /\ i \in DOMAIN rs
  BY <1>1
<1>3. \A i \in 1..Len(rs) : rs[i].chunks \in Seq(Seq(Octet))
  BY <1>2 DEF Request
<1>4. \A i \in 1..Len(rs) : DOMAIN rs[i].chunks = 1..Len(rs[i].chunks)
  BY <1>3
<1> QED
  BY <1>1, <1>2, <1>4, Zenon DEF IsStream, IsRequest

LEMMA RequestFacts ==
    ASSUME NEW r, IsRequest(r)
    PROVE  /\ r.ok \in BOOLEAN /\ r.close \in BOOLEAN /\ r.body \in Seq(Octet)
           /\ r.framing \in {"none", "length", "chunked"}
           /\ r.framing = "none" => r.body = <<>>
  BY DEF IsRequest, Request

\* The chunks of a chunked body.
LEMMA RequestChunks ==
    ASSUME NEW r, IsRequest(r)
    PROVE  /\ r.chunks \in Parts /\ Len(r.chunks) \in Nat /\ 0 \in 0..Len(r.chunks)
           /\ r.framing = "chunked" =>
                /\ r.body = FlattenSeq(r.chunks)
                /\ \A j \in 1..Len(r.chunks) : r.chunks[j] # <<>>
<1>1. r.chunks \in Parts
  BY DEF IsRequest, Request, Parts
<1>2. Len(r.chunks) \in Nat /\ 0 \in 0..Len(r.chunks)
  BY <1>1 DEF Parts
<1> QED
  BY <1>1, <1>2 DEF IsRequest

\* The first line of a request.
Opening(r) == Line(IF r.ok THEN "request" ELSE "junk", 0)

LEMMA LineTypes ==
    ASSUME NEW r, IsRequest(r)
    PROVE  /\ Opening(r) \in Seq(Octet)
           /\ Line("Connection: close", 0) \in Seq(Octet)
           /\ Line("Content-Length", Len(r.body)) \in Seq(Octet)
           /\ Line("Transfer-Encoding: chunked", 0) \in Seq(Octet)
<1>1. /\ "request" \in Texts \ {"CR"} /\ "junk" \in Texts \ {"CR"}
      /\ "Connection: close" \in Texts \ {"CR"} /\ "Content-Length" \in Texts \ {"CR"}
      /\ "Transfer-Encoding: chunked" \in Texts \ {"CR"}
  BY DEF Texts
<1>2. 0 \in Nat /\ Len(r.body) \in Nat
  BY RequestFacts
<1>3. Line("request", 0) \in Seq(Octet) /\ Line("junk", 0) \in Seq(Octet)
  BY <1>1, <1>2, LineFacts
<1> QED
  BY <1>1, <1>2, <1>3, LineFacts DEF Opening

\* The parts of a request are sequences of bytes.
LEMMA PartTypes ==
    ASSUME NEW r, IsRequest(r), NEW next \in Seq(Octet)
    PROVE  /\ BodyPart(r, next) \in Seq(Octet) /\ BlankPart(r, next) \in Seq(Octet)
           /\ FramePart(r, next) \in Seq(Octet) /\ HeaderPart(r, next) \in Seq(Octet)
           /\ AfterBody(r, next) \in Seq(Octet)
<1>1. r.body \in Seq(Octet) /\ <<CR, LF>> \in Seq(Octet) /\ 0 \in 0..Len(r.body)
  BY RequestFacts, LineFacts
<1>2. /\ Line("Connection: close", 0) \in Seq(Octet)
      /\ Line("Content-Length", Len(r.body)) \in Seq(Octet)
      /\ Line("Transfer-Encoding: chunked", 0) \in Seq(Octet)
  BY LineTypes
<1>3. ChunksFrom(r.chunks, 0) \in Seq(Octet)
  BY <1>1, RequestChunks, ChunksFromFacts
<1>4. BodyPart(r, next) \in Seq(Octet)
  BY <1>1, <1>3, Concat DEF BodyPart
<1>5. BlankPart(r, next) \in Seq(Octet)
  BY <1>1, <1>4, Concat DEF BlankPart
<1>6. FramePart(r, next) \in Seq(Octet)
  BY <1>2, <1>5, Concat DEF FramePart
<1>7. HeaderPart(r, next) \in Seq(Octet)
  BY <1>2, <1>6, Concat DEF HeaderPart
<1>8. AfterBody(r, next) \in Seq(Octet)
  BY <1>1, Concat DEF AfterBody
<1> QED
  BY <1>4, <1>5, <1>6, <1>7, <1>8

\* A header that frames the body, the empty line and the body.
Frame(r) ==
    CASE r.framing = "none" -> <<CR, LF>>
      [] r.framing = "length" ->
            Line("Content-Length", Len(r.body)) \o <<CR, LF>> \o r.body
      [] r.framing = "chunked" ->
            Line("Transfer-Encoding: chunked", 0) \o <<CR, LF>>
                \o FlattenSeq([i \in 1..Len(r.chunks) |-> Chunk(r.chunks[i])])
                \o Chunk(<<>>)

LEMMA FrameIs ==
    ASSUME NEW r, IsRequest(r), NEW next \in Seq(Octet)
    PROVE  Frame(r) \in Seq(Octet) /\ Frame(r) \o next = FramePart(r, next)
<1> DEFINE blank == <<CR, LF>>
           body == r.body
<1>1. body \in Seq(Octet) /\ r.framing \in {"none", "length", "chunked"} /\ blank \in Seq(Octet)
  BY RequestFacts, LineFacts
<1> HIDE DEF blank, body
<1>2. CASE r.framing = "none"
  <2>1. Frame(r) = blank
    BY <1>2 DEF Frame, blank
  <2>2. BodyPart(r, next) = next
    <3>1. r.body = <<>> /\ r.framing # "chunked"
      BY <1>2, RequestFacts
    <3> QED
      BY <3>1, ConcatEmpty DEF BodyPart
  <2>3. FramePart(r, next) = blank \o next
    BY <1>2, <2>2 DEF FramePart, BlankPart, blank
  <2> QED
    BY <1>1, <2>1, <2>3
<1>3. CASE r.framing = "length"
  <2> DEFINE line == Line("Content-Length", Len(r.body))
             u == line \o blank
             v == body \o next
  <2>1. Frame(r) = u \o body
    BY <1>3 DEF Frame, blank, body
  <2>2. FramePart(r, next) = line \o (blank \o v)
    BY <1>3 DEF FramePart, BlankPart, BodyPart, blank, body
  <2>3. line \in Seq(Octet)
    BY LineTypes
  <2> HIDE DEF line
  <2>4. u \in Seq(Octet) /\ v \in Seq(Octet)
    BY <1>1, <2>3, Concat
  <2>5. u \o v = line \o (blank \o v)
    <3>1. Three(line, blank, v)
      BY <1>1, <2>3, <2>4 DEF Three
    <3> QED
      BY <3>1, Regroup
  <2> HIDE DEF u
  <2>6. (u \o body) \o next = u \o v
    <3>1. Three(u, body, next)
      BY <1>1, <2>4 DEF Three
    <3> QED
      BY <3>1, Regroup
  <2>7. u \o body \in Seq(Octet)
    BY <1>1, <2>4, Concat
  <2> QED
    BY <2>1, <2>2, <2>5, <2>6, <2>7
<1>4. CASE r.framing = "chunked"
  <2> DEFINE line == Line("Transfer-Encoding: chunked", 0)
             flat == FlattenSeq(Encoded(r.chunks))
             last == Chunk(<<>>)
             u == line \o blank
             all == flat \o last
             v == all \o next
  <2>1. Frame(r) = (u \o flat) \o last
    BY <1>4 DEF Frame, Encoded, blank
  <2>2. ChunksFrom(r.chunks, 0) = all
    BY <1>1, RequestChunks, ChunksFromFacts
  <2>3. FramePart(r, next) = line \o (blank \o v)
    BY <1>4, <2>2 DEF FramePart, BlankPart, BodyPart, blank
  <2>4. line \in Seq(Octet) /\ last \in Seq(Octet)
    BY LineTypes, ChunkFacts
  <2>5. flat \in Seq(Octet)
    BY RequestChunks, EncodedFacts, FlatTypes
  <2> HIDE DEF line, flat, last
  <2>6. all \in Seq(Octet) /\ u \in Seq(Octet)
    BY <1>1, <2>4, <2>5, Concat
  <2>7. v \in Seq(Octet)
    BY <2>6, Concat
  <2>8. u \o v = line \o (blank \o v)
    <3>1. Three(line, blank, v)
      BY <1>1, <2>4, <2>7 DEF Three
    <3> QED
      BY <3>1, Regroup, SMTT(30)
  <2> HIDE DEF u
  <2>9. (u \o flat) \o last = u \o all
    <3>1. Three(u, flat, last)
      BY <2>4, <2>5, <2>6 DEF Three
    <3> QED
      BY <3>1, Regroup
  <2> HIDE DEF all
  <2>10. (u \o all) \o next = u \o v
    <3>1. Three(u, all, next)
      BY <2>6 DEF Three
    <3> QED
      BY <3>1, Regroup
  <2>11. u \o all \in Seq(Octet)
    BY <2>6, Concat
  <2> QED
    BY <2>1, <2>3, <2>8, <2>9, <2>10, <2>11
<1> QED
  BY <1>1, <1>2, <1>3, <1>4

\* The bytes of a request and what comes after it.
LEMMA EncodeIs ==
    ASSUME NEW r, IsRequest(r), NEW next \in Seq(Octet)
    PROVE  Encode(r) \in Seq(Octet) /\ Encode(r) \o next = Opening(r) \o HeaderPart(r, next)
<1> DEFINE o == Opening(r)
           c == IF r.close THEN Line("Connection: close", 0) ELSE <<>>
           f == Frame(r)
           g == FramePart(r, next)
           oc == o \o c
<1>1. Encode(r) = oc \o f
  BY DEF Encode, Opening, Frame
<1>2. o \in Seq(Octet) /\ c \in Seq(Octet)
  <2>1. <<>> \in Seq(Octet) /\ r.close \in BOOLEAN
    BY LineFacts, RequestFacts
  <2> QED
    BY <2>1, LineTypes
<1>3. f \in Seq(Octet) /\ f \o next = g /\ g \in Seq(Octet)
  BY FrameIs, PartTypes
<1>4. c \o g = HeaderPart(r, next)
  <2>1. CASE r.close
    BY <2>1 DEF HeaderPart
  <2>2. CASE ~r.close
    BY <1>3, <2>2, ConcatEmpty DEF HeaderPart
  <2> QED
    BY <2>1, <2>2
<1> HIDE DEF o, c, f, g
<1>5. oc \in Seq(Octet)
  BY <1>2, Concat
<1>6. oc \o g = o \o (c \o g)
  <2>1. Three(o, c, g)
    BY <1>2, <1>3 DEF Three
  <2> QED
    BY <2>1, Regroup
<1> HIDE DEF oc
<1>7. (oc \o f) \o next = oc \o (f \o next)
  <2>1. Three(oc, f, next)
    BY <1>3, <1>5 DEF Three
  <2> QED
    BY <2>1, Regroup
<1>8. oc \o f \in Seq(Octet)
  BY <1>3, <1>5, Concat
<1>9. Encode(r) \o next = o \o HeaderPart(r, next)
  BY <1>1, <1>3, <1>4, <1>6, <1>7
<1> QED
  BY <1>1, <1>8, <1>9 DEF o

\* What is left after k requests: the next one, and what is left after it.
LEMMA AfterFacts ==
    ASSUME NEW rs, IsStream(rs), NEW k \in 0..Len(rs)
    PROVE  /\ After(rs, k) \in Seq(Octet)
           /\ k < Len(rs) =>
                /\ IsRequest(rs[k + 1]) /\ k + 1 \in 0..Len(rs)
                /\ After(rs, k + 1) \in Seq(Octet)
                /\ After(rs, k) = Opening(rs[k + 1]) \o HeaderPart(rs[k + 1], After(rs, k + 1))
           /\ k = Len(rs) => After(rs, k) = <<>>
<1> DEFINE part(n) == [i \in 1..(Len(rs) - n) |-> Encode(rs[n + i])]
<1>1. Len(rs) \in Nat /\ \A i \in 1..Len(rs) : IsRequest(rs[i])
  BY DEF IsStream
<1>2. \A i \in 1..Len(rs) : Encode(rs[i]) \in Seq(Octet)
  <2>1. <<>> \in Seq(Octet)
    BY LineFacts
  <2> QED
    BY <1>1, <2>1, EncodeIs
<1>3. ASSUME NEW n \in 0..Len(rs)
      PROVE  /\ part(n) \in Parts /\ Len(part(n)) = Len(rs) - n
             /\ \A i \in 1..(Len(rs) - n) : part(n)[i] = Encode(rs[n + i])
             /\ After(rs, n) = FlattenSeq(part(n))
  <2>1. \A i \in 1..(Len(rs) - n) : Encode(rs[n + i]) \in Seq(Octet)
    <3> TAKE i \in 1..(Len(rs) - n)
    <3>1. n + i \in 1..Len(rs)
      BY <1>1
    <3> QED
      BY <1>2, <3>1
  <2>2. Len(rs) - n \in Nat
    BY <1>1
  <2> QED
    BY <2>1, <2>2 DEF Parts, After
<1> HIDE DEF part
<1>4. \A n \in 0..Len(rs) : After(rs, n) \in Seq(Octet) /\ (n = Len(rs) => After(rs, n) = <<>>)
  <2> TAKE n \in 0..Len(rs)
  <2>1. part(n) \in Parts /\ Len(part(n)) = Len(rs) - n /\ After(rs, n) = FlattenSeq(part(n))
    BY <1>3
  <2>2. FlattenSeq(part(n)) \in Seq(Octet) /\ (Len(part(n)) = 0 => FlattenSeq(part(n)) = <<>>)
    BY <2>1, FlatTypes
  <2> QED
    BY <1>1, <2>1, <2>2
<1>5. CASE k = Len(rs)
  BY <1>1, <1>4, <1>5
<1>6. CASE k < Len(rs)
  <2> DEFINE r == rs[k + 1]
             next == After(rs, k + 1)
  <2>1. k + 1 \in 0..Len(rs) /\ k + 1 \in 1..Len(rs) /\ 1 \in 1..(Len(rs) - k)
    BY <1>1, <1>6
  <2>2. IsRequest(r) /\ next \in Seq(Octet)
    BY <1>1, <1>4, <2>1
  <2>3. part(k)[1] = Encode(r) /\ After(rs, k) = FlattenSeq(part(k))
    BY <1>3, <2>1
  <2>4. Shorter(part(k + 1), part(k)) /\ next = FlattenSeq(part(k + 1))
    <3>1. /\ part(k + 1) \in Parts /\ Len(part(k + 1)) = Len(rs) - (k + 1)
          /\ next = FlattenSeq(part(k + 1))
      BY <1>3, <2>1
    <3>2. part(k) \in Parts /\ Len(part(k)) = Len(rs) - k
      BY <1>3
    <3>3. ASSUME NEW i \in 1..(Len(rs) - (k + 1)) PROVE part(k + 1)[i] = part(k)[i + 1]
      <4>1. i + 1 \in 1..(Len(rs) - k) /\ (k + 1) + i = k + (i + 1)
        BY <1>1
      <4>2. part(k)[i + 1] = Encode(rs[k + (i + 1)])
        BY <1>3, <4>1
      <4>3. part(k + 1)[i] = Encode(rs[(k + 1) + i])
        BY <1>3, <2>1
      <4> QED
        BY <4>1, <4>2, <4>3
    <3>4. Len(part(k)) = Len(part(k + 1)) + 1
      BY <1>1, <3>1, <3>2
    <3> QED
      BY <3>1, <3>2, <3>3, <3>4 DEF Shorter
  <2>5. After(rs, k) = Encode(r) \o next
    BY <2>3, <2>4, FlatCons
  <2> HIDE DEF r, next
  <2>6. Encode(r) \o next = Opening(r) \o HeaderPart(r, next)
    BY <2>2, EncodeIs
  <2> QED
    BY <1>4, <1>6, <2>1, <2>2, <2>5, <2>6 DEF r, next
<1>7. k = Len(rs) \/ k < Len(rs)
  BY <1>1
<1> QED
  BY <1>5, <1>6, <1>7, Zenon

LEMMA AllAhead ==
    ASSUME NEW rs, IsStream(rs)
    PROVE  After(rs, 0) = Stream(rs) /\ Stream(rs) \in Seq(Octet)
<1> DEFINE p == [i \in 1..Len(rs) |-> Encode(rs[i])]
           q == [i \in 1..(Len(rs) - 0) |-> Encode(rs[0 + i])]
<1>1. Len(rs) \in Nat
  BY DEF IsStream
<1>2. 1..Len(rs) = 1..(Len(rs) - 0) /\ \A i \in 1..Len(rs) : 0 + i = i
  BY <1>1
<1>3. p = q
  BY <1>2
<1>4. After(rs, 0) = Stream(rs)
  BY <1>3 DEF After, Stream
<1>5. 0 \in 0..Len(rs)
  BY <1>1
<1> QED
  BY <1>4, <1>5, AfterFacts

-----------------------------------------------------------------------------
(* The parser's functions keep it where it should be.                      *)

\* The fields of the parser in a request.
LEMMA InRequestFields ==
    ASSUME NEW r, IsRequest(r), NEW state \in States, NEW cl \in Nat, NEW br \in Nat,
           NEW body \in Seq(Octet), NEW cs \in Nat, NEW rd \in BOOLEAN
    PROVE  LET p == InRequest(r, state, cl, br, body, cs, rd)
           IN  /\ p \in Parser /\ p.state_ = state /\ p.content_length_ = cl
               /\ p.body_read_ = br /\ p.temp_body_ = body /\ p.chunk_size_ = cs
               /\ p.reading_chunk_size_ = rd /\ p.chunked_ = (r.framing = "chunked")
               /\ p.length = IF r.framing = "length" THEN Len(r.body) ELSE -1
<1>1. (r.framing = "chunked") \in BOOLEAN
  OBVIOUS
<1>2. (IF r.framing = "length" THEN Len(r.body) ELSE -1) \in Int
  <2>1. Len(r.body) \in Int
    BY RequestFacts
  <2> QED
    BY <2>1
<1> QED
  BY <1>1, <1>2 DEF InRequest, Parser

\* The fields the turns of the parser change, with their values.
Holds(p, state, cl, br, body, cs) ==
    /\ p \in Parser /\ p.state_ = state /\ p.content_length_ = cl
    /\ p.body_read_ = br /\ p.temp_body_ = body /\ p.chunk_size_ = cs

LEMMA InRequestHolds ==
    ASSUME NEW r, IsRequest(r)
    PROVE  \A state \in States, cl \in Nat, br \in Nat, body \in Seq(Octet), cs \in Nat :
             /\ Holds(InRequest(r, state, cl, br, body, cs, TRUE), state, cl, br, body, cs)
             /\ Holds(InRequest(r, state, cl, br, body, cs, FALSE), state, cl, br, body, cs)
             /\ InRequest(r, state, cl, br, body, cs, TRUE).reading_chunk_size_
             /\ ~InRequest(r, state, cl, br, body, cs, FALSE).reading_chunk_size_
<1> TAKE state \in States, cl \in Nat, br \in Nat, body \in Seq(Octet), cs \in Nat
<1>1. \A rd \in BOOLEAN :
         /\ Holds(InRequest(r, state, cl, br, body, cs, rd), state, cl, br, body, cs)
         /\ InRequest(r, state, cl, br, body, cs, rd).reading_chunk_size_ = rd
  <2> TAKE rd \in BOOLEAN
  <2> DEFINE p == InRequest(r, state, cl, br, body, cs, rd)
  <2>1. /\ p \in Parser /\ p.state_ = state /\ p.content_length_ = cl
        /\ p.body_read_ = br /\ p.temp_body_ = body /\ p.chunk_size_ = cs
        /\ p.reading_chunk_size_ = rd
    BY InRequestFields
  <2> HIDE DEF p
  <2> QED
    BY <2>1 DEF Holds, p
<1> QED
  BY <1>1

\* A parser is its fields.
LEMMA SameParser ==
    ASSUME NEW p \in Parser, NEW q \in Parser,
           p.state_ = q.state_, p.length = q.length, p.chunked_ <=> q.chunked_,
           p.content_length_ = q.content_length_, p.body_read_ = q.body_read_,
           p.temp_body_ = q.temp_body_, p.chunk_size_ = q.chunk_size_,
           p.reading_chunk_size_ <=> q.reading_chunk_size_
    PROVE  p = q
<1>1. /\ p.chunked_ \in BOOLEAN /\ q.chunked_ \in BOOLEAN
      /\ p.reading_chunk_size_ \in BOOLEAN /\ q.reading_chunk_size_ \in BOOLEAN
  BY DEF Parser
<1>2. p.chunked_ = q.chunked_ /\ p.reading_chunk_size_ = q.reading_chunk_size_
  BY <1>1
<1> QED
  BY <1>2 DEF Parser

\* The same parser in another state.
LEMMA SetState ==
    ASSUME NEW p \in Parser, NEW s \in States
    PROVE  LET q == [p EXCEPT !.state_ = s]
           IN  /\ q \in Parser /\ q.state_ = s /\ q.length = p.length /\ q.chunked_ = p.chunked_
               /\ q.content_length_ = p.content_length_ /\ q.body_read_ = p.body_read_
               /\ q.temp_body_ = p.temp_body_ /\ q.chunk_size_ = p.chunk_size_
               /\ q.reading_chunk_size_ = p.reading_chunk_size_
  BY DEF Parser

Fresh == [NewParser EXCEPT !.state_ = "HEADERS"]

LEMMA NewFields ==
    /\ NewParser \in Parser /\ NewParser.state_ = "START" /\ NewParser.length = -1
    /\ NewParser.chunked_ = FALSE /\ NewParser.content_length_ = 0 /\ NewParser.body_read_ = 0
    /\ NewParser.temp_body_ = <<>> /\ NewParser.chunk_size_ = 0
    /\ NewParser.reading_chunk_size_ = TRUE
<1>1. "START" \in States /\ <<>> \in Seq(Octet) /\ -1 \in Int
  BY DEF States
<1> QED
  BY <1>1 DEF NewParser, Parser

LEMMA FreshFields ==
    /\ Fresh \in Parser /\ Fresh.state_ = "HEADERS" /\ Fresh.length = -1
    /\ Fresh.chunked_ = FALSE /\ Fresh.content_length_ = 0 /\ Fresh.body_read_ = 0
    /\ Fresh.temp_body_ = <<>> /\ Fresh.chunk_size_ = 0 /\ Fresh.reading_chunk_size_ = TRUE
<1>1. "HEADERS" \in States
  BY DEF States
<1> QED
  BY <1>1, NewFields, SetState DEF Fresh

\* The parser after a header line.
LEMMA AddHeaderFields ==
    ASSUME NEW p \in Parser, NEW c \in Octet
    PROVE  LET q == AddHeader(p, <<c>>)
           IN  /\ q \in Parser /\ q.state_ = p.state_
               /\ q.length = IF c.text = "Content-Length" THEN c.value ELSE p.length
               /\ q.chunked_ <=> (p.chunked_ \/ c.text = "Transfer-Encoding: chunked")
               /\ q.content_length_ = p.content_length_ /\ q.body_read_ = p.body_read_
               /\ q.temp_body_ = p.temp_body_ /\ q.chunk_size_ = p.chunk_size_
               /\ q.reading_chunk_size_ = p.reading_chunk_size_
<1> DEFINE n == IF c.text = "Content-Length" THEN c.value ELSE p.length
           b == p.chunked_ \/ c.text = "Transfer-Encoding: chunked"
           q == [p EXCEPT !.length = n, !.chunked_ = b]
<1>1. AddHeader(p, <<c>>) = q
  <2>1. <<c>> # <<>> /\ <<c>>[1] = c
    OBVIOUS
  <2> QED
    BY <2>1 DEF AddHeader
<1>2. n \in Int /\ b \in BOOLEAN
  BY DEF Parser, Octet
<1> HIDE DEF n, b
<1>3. /\ q \in Parser /\ q.state_ = p.state_ /\ q.length = n /\ q.chunked_ = b
      /\ q.content_length_ = p.content_length_ /\ q.body_read_ = p.body_read_
      /\ q.temp_body_ = p.temp_body_ /\ q.chunk_size_ = p.chunk_size_
      /\ q.reading_chunk_size_ = p.reading_chunk_size_
  BY <1>2 DEF Parser
<1> HIDE DEF q
<1> QED
  BY <1>1, <1>3 DEF n, b

\* The parser at the empty line of r's headers.
Headed(r) == InRequest(r, "HEADERS", 0, 0, <<>>, 0, TRUE)

LEMMA HeadedFields ==
    ASSUME NEW r, IsRequest(r)
    PROVE  LET h == Headed(r)
           IN  /\ h \in Parser /\ h.state_ = "HEADERS" /\ h.content_length_ = 0
               /\ h.body_read_ = 0 /\ h.temp_body_ = <<>> /\ h.chunk_size_ = 0
               /\ h.reading_chunk_size_ = TRUE /\ h.chunked_ = (r.framing = "chunked")
               /\ h.length = IF r.framing = "length" THEN Len(r.body) ELSE -1
<1>1. "HEADERS" \in States /\ 0 \in Nat /\ TRUE \in BOOLEAN
  BY DEF States
<1>2. <<>> \in Seq(Octet)
  BY LineFacts
<1> QED
  BY <1>1, <1>2, InRequestFields DEF Headed

\* What the headers add to the parser.
LEMMA HeadersAdd ==
    ASSUME NEW r, IsRequest(r)
    PROVE  /\ AddHeader(Fresh, <<Char("Connection: close", 0)>>) = Fresh
           /\ r.framing = "length" =>
                 AddHeader(Fresh, <<Char("Content-Length", Len(r.body))>>) = Headed(r)
           /\ r.framing = "chunked" =>
                 AddHeader(Fresh, <<Char("Transfer-Encoding: chunked", 0)>>) = Headed(r)
           /\ r.framing = "none" => Fresh = Headed(r)
<1> DEFINE h == Headed(r)
           n == Len(r.body)
           a == Char("Connection: close", 0)
           b == Char("Content-Length", n)
           c == Char("Transfer-Encoding: chunked", 0)
<1>1. /\ h \in Parser /\ h.state_ = "HEADERS" /\ h.content_length_ = 0
      /\ h.body_read_ = 0 /\ h.temp_body_ = <<>> /\ h.chunk_size_ = 0
      /\ h.reading_chunk_size_ = TRUE /\ h.chunked_ = (r.framing = "chunked")
      /\ h.length = IF r.framing = "length" THEN n ELSE -1
  BY HeadedFields
<1>2. n \in Nat
  BY RequestFacts
<1>3. /\ "Connection: close" \in Texts \ {"CR"} /\ "Content-Length" \in Texts \ {"CR"}
      /\ "Transfer-Encoding: chunked" \in Texts \ {"CR"} /\ 0 \in Nat
  BY DEF Texts
<1>4. /\ a \in Octet /\ a.text = "Connection: close"
      /\ b \in Octet /\ b.text = "Content-Length" /\ b.value = n
      /\ c \in Octet /\ c.text = "Transfer-Encoding: chunked"
  BY <1>2, <1>3, TextFacts DEF IsText
<1> HIDE DEF a, b, c, h, n
<1>5. AddHeader(Fresh, <<a>>) = Fresh
  <2> DEFINE q == AddHeader(Fresh, <<a>>)
  <2>1. /\ q \in Parser /\ q.state_ = Fresh.state_ /\ q.length = Fresh.length
        /\ q.chunked_ <=> Fresh.chunked_
        /\ q.content_length_ = Fresh.content_length_ /\ q.body_read_ = Fresh.body_read_
        /\ q.temp_body_ = Fresh.temp_body_ /\ q.chunk_size_ = Fresh.chunk_size_
        /\ q.reading_chunk_size_ = Fresh.reading_chunk_size_
    BY <1>4, FreshFields, AddHeaderFields
  <2> HIDE DEF q
  <2>2. q = Fresh
    BY <2>1, FreshFields, SameParser
  <2> QED
    BY <2>2 DEF q
<1>6. ASSUME r.framing = "length" PROVE AddHeader(Fresh, <<b>>) = h
  <2> DEFINE q == AddHeader(Fresh, <<b>>)
  <2>1. /\ q \in Parser /\ q.state_ = Fresh.state_ /\ q.length = n
        /\ q.chunked_ <=> Fresh.chunked_
        /\ q.content_length_ = Fresh.content_length_ /\ q.body_read_ = Fresh.body_read_
        /\ q.temp_body_ = Fresh.temp_body_ /\ q.chunk_size_ = Fresh.chunk_size_
        /\ q.reading_chunk_size_ = Fresh.reading_chunk_size_
    BY <1>4, FreshFields, AddHeaderFields
  <2> HIDE DEF q
  <2>2. ~h.chunked_ /\ h.length = n
    BY <1>1, <1>6
  <2>3. q = h
    BY <1>1, <2>1, <2>2, FreshFields, SameParser
  <2> QED
    BY <2>3 DEF q
<1>7. ASSUME r.framing = "chunked" PROVE AddHeader(Fresh, <<c>>) = h
  <2> DEFINE q == AddHeader(Fresh, <<c>>)
  <2>1. /\ q \in Parser /\ q.state_ = Fresh.state_ /\ q.length = Fresh.length
        /\ q.chunked_
        /\ q.content_length_ = Fresh.content_length_ /\ q.body_read_ = Fresh.body_read_
        /\ q.temp_body_ = Fresh.temp_body_ /\ q.chunk_size_ = Fresh.chunk_size_
        /\ q.reading_chunk_size_ = Fresh.reading_chunk_size_
    <3>1. /\ q \in Parser /\ q.state_ = Fresh.state_
          /\ q.length = IF c.text = "Content-Length" THEN c.value ELSE Fresh.length
          /\ q.chunked_ <=> (Fresh.chunked_ \/ c.text = "Transfer-Encoding: chunked")
          /\ q.content_length_ = Fresh.content_length_ /\ q.body_read_ = Fresh.body_read_
          /\ q.temp_body_ = Fresh.temp_body_ /\ q.chunk_size_ = Fresh.chunk_size_
          /\ q.reading_chunk_size_ = Fresh.reading_chunk_size_
      <4>1. c \in Octet /\ Fresh \in Parser
        BY <1>4, FreshFields
      <4> QED
        BY <4>1, AddHeaderFields
    <3> HIDE DEF q
    <3>2. c.text = "Transfer-Encoding: chunked" /\ c.text # "Content-Length"
      BY <1>4
    <3> QED
      BY <3>1, <3>2
  <2> HIDE DEF q
  <2>2. h.chunked_ /\ h.length = -1
    BY <1>1, <1>7
  <2>3. q = h
    BY <1>1, <2>1, <2>2, FreshFields, SameParser
  <2> QED
    BY <2>3 DEF q
<1>8. ASSUME r.framing = "none" PROVE Fresh = h
  <2>1. ~h.chunked_ /\ h.length = -1
    BY <1>1, <1>8
  <2> QED
    BY <1>1, <2>1, FreshFields, SameParser
<1> QED
  BY <1>5, <1>6, <1>7, <1>8 DEF a, b, c, h, n

\* The empty line.
LEMMA HeadersEnd ==
    ASSUME NEW r, IsRequest(r)
    PROVE  EndHeaders(Headed(r)) =
              IF r.framing = "chunked" THEN InRequest(r, "CHUNKED_BODY", 0, 0, <<>>, 0, TRUE)
              ELSE IF r.framing = "length"
                   THEN InRequest(r, "BODY", Len(r.body), 0, <<>>, 0, TRUE)
              ELSE InRequest(r, "DONE", 0, 0, <<>>, 0, TRUE)
<1> DEFINE h == Headed(r)
           n == Len(r.body)
<1>1. /\ h \in Parser /\ h.state_ = "HEADERS" /\ h.content_length_ = 0
      /\ h.body_read_ = 0 /\ h.temp_body_ = <<>> /\ h.chunk_size_ = 0
      /\ h.reading_chunk_size_ = TRUE /\ h.chunked_ = (r.framing = "chunked")
      /\ h.length = IF r.framing = "length" THEN n ELSE -1
  BY HeadedFields
<1>2. n \in Nat /\ r.framing \in {"none", "length", "chunked"}
  BY RequestFacts
<1>3. /\ "CHUNKED_BODY" \in States /\ "BODY" \in States /\ "DONE" \in States
      /\ 0 \in Nat /\ <<>> \in Seq(Octet) /\ TRUE \in BOOLEAN
  BY LineFacts DEF States
<1>4. ASSUME NEW s \in States, NEW m \in Nat
      PROVE  LET q == InRequest(r, s, m, 0, <<>>, 0, TRUE)
             IN  /\ q \in Parser /\ q.state_ = s /\ q.content_length_ = m
                 /\ q.body_read_ = 0 /\ q.temp_body_ = <<>> /\ q.chunk_size_ = 0
                 /\ q.reading_chunk_size_ = TRUE /\ q.chunked_ = (r.framing = "chunked")
                 /\ q.length = IF r.framing = "length" THEN n ELSE -1
  BY <1>3, InRequestFields
<1> HIDE DEF h, n
<1>5. ASSUME NEW s \in States
      PROVE  [h EXCEPT !.state_ = s] = InRequest(r, s, 0, 0, <<>>, 0, TRUE)
  <2> DEFINE q == [h EXCEPT !.state_ = s]
             z == InRequest(r, s, 0, 0, <<>>, 0, TRUE)
  <2>1. /\ q \in Parser /\ q.state_ = s /\ q.length = h.length /\ q.chunked_ = h.chunked_
        /\ q.content_length_ = 0 /\ q.body_read_ = 0
        /\ q.temp_body_ = <<>> /\ q.chunk_size_ = 0
        /\ q.reading_chunk_size_ = TRUE
    BY <1>1, SetState
  <2>4. /\ z \in Parser /\ z.state_ = s /\ z.content_length_ = 0
        /\ z.body_read_ = 0 /\ z.temp_body_ = <<>> /\ z.chunk_size_ = 0
        /\ z.reading_chunk_size_ = TRUE /\ z.chunked_ = (r.framing = "chunked")
        /\ z.length = IF r.framing = "length" THEN n ELSE -1
    BY <1>3, <1>4, ZenonT(30)
  <2>2. /\ z \in Parser /\ z.state_ = s /\ z.content_length_ = 0
        /\ z.body_read_ = 0 /\ z.temp_body_ = <<>> /\ z.chunk_size_ = 0
        /\ z.reading_chunk_size_ = TRUE /\ z.chunked_ = h.chunked_ /\ z.length = h.length
    <3> HIDE DEF z
    <3> QED
      BY <1>1, <2>4
  <2> HIDE DEF q, z
  <2>3. q = z
    BY <2>1, <2>2, SameParser
  <2> QED
    BY <2>3 DEF q, z
<1>6. CASE r.framing = "chunked"
  <2>1. EndHeaders(h) = [h EXCEPT !.state_ = "CHUNKED_BODY"]
    BY <1>1, <1>6 DEF EndHeaders
  <2> QED
    BY <1>3, <1>5, <1>6, <2>1 DEF h
<1>7. CASE r.framing = "length"
  <2> DEFINE q == [h EXCEPT !.state_ = "BODY", !.content_length_ = h.length]
             z == InRequest(r, "BODY", n, 0, <<>>, 0, TRUE)
  <2>1. h.length = n /\ ~h.chunked_
    BY <1>1, <1>7
  <2>2. EndHeaders(h) = q
    BY <1>2, <2>1 DEF EndHeaders
  <2>3. /\ q \in Parser /\ q.state_ = "BODY" /\ q.length = h.length /\ q.chunked_ = h.chunked_
        /\ q.content_length_ = n /\ q.body_read_ = 0
        /\ q.temp_body_ = <<>> /\ q.chunk_size_ = 0
        /\ q.reading_chunk_size_ = TRUE
    BY <1>1, <1>2, <1>3, <2>1 DEF Parser
  <2>6. /\ z \in Parser /\ z.state_ = "BODY" /\ z.content_length_ = n
        /\ z.body_read_ = 0 /\ z.temp_body_ = <<>> /\ z.chunk_size_ = 0
        /\ z.reading_chunk_size_ = TRUE /\ z.chunked_ = (r.framing = "chunked")
        /\ z.length = IF r.framing = "length" THEN n ELSE -1
    BY <1>2, <1>3, <1>4
  <2>4. /\ z \in Parser /\ z.state_ = "BODY" /\ z.content_length_ = n
        /\ z.body_read_ = 0 /\ z.temp_body_ = <<>> /\ z.chunk_size_ = 0
        /\ z.reading_chunk_size_ = TRUE /\ z.chunked_ = h.chunked_ /\ z.length = h.length
    <3> HIDE DEF z
    <3> QED
      BY <1>1, <2>6
  <2> HIDE DEF q, z
  <2>5. q = z
    BY <2>3, <2>4, SameParser
  <2> QED
    BY <1>7, <2>2, <2>5 DEF h, n, z
<1>8. CASE r.framing = "none"
  <2>1. h.length = -1 /\ ~h.chunked_
    BY <1>1, <1>8
  <2>2. EndHeaders(h) = [h EXCEPT !.state_ = "DONE"]
    BY <2>1 DEF EndHeaders
  <2> QED
    BY <1>3, <1>5, <1>8, <2>2 DEF h
<1> QED
  BY <1>2, <1>6, <1>7, <1>8

\* A turn of parse_headers() on a line of text, and on the empty line.
LEMMA TextTurn ==
    ASSUME NEW t \in Texts \ {"CR"}, NEW v \in Nat, NEW data, NEW later, NEW x,
           Splits(data, later, Line(t, v), x), NEW p, p.state_ = "HEADERS"
    PROVE  LET q == HeaderTurn([p |-> p, data |-> data])
               d == Rest(data, 3)
           IN  IF Len(data) < 3 THEN FindCrlf(data) = 0 /\ q = [p |-> p, data |-> data]
               ELSE /\ FindCrlf(data) # 0 /\ 3 \in 1..Len(data) /\ d \in Seq(Octet) /\ d \o later = x
                    /\ q = [p |-> AddHeader(p, <<Char(t, v)>>), data |-> d]
<1> DEFINE st == [p |-> p, data |-> data]
<1>1. st.p = p /\ st.data = data /\ data \in Seq(Octet)
  BY DEF Splits
<1>2. CASE Len(data) < 3
  <2>1. FindCrlf(data) = 0
    BY <1>2, LineArrives
  <2>2. HeaderTurn(st) = st
    BY <1>1, <2>1 DEF HeaderTurn
  <2> QED
    BY <1>2, <2>1, <2>2
<1>3. CASE ~(Len(data) < 3)
  <2> DEFINE u == SubSeq(data, 1, 1)
             d == Rest(data, 3)
  <2>1. /\ FindCrlf(data) = 2 /\ u = <<Char(t, v)>> /\ 3 \in 0..Len(data)
        /\ d \in Seq(Octet) /\ d \o later = x
    BY <1>3, LineArrives
  <2>2. HeaderTurn(st) = [p |-> AddHeader(p, u), data |-> d]
    <3>1. 2 - 1 = 1 /\ 2 + 1 = 3 /\ 2 # 0 /\ 2 # 1
      OBVIOUS
    <3> QED
      BY <1>1, <2>1, <3>1 DEF HeaderTurn
  <2>3. 3 \in 1..Len(data)
    BY <2>1
  <2> HIDE DEF u, d
  <2>4. FindCrlf(data) # 0
    BY <2>1
  <2> QED
    BY <1>3, <2>1, <2>2, <2>3, <2>4 DEF d
<1> QED
  BY <1>2, <1>3

LEMMA BlankTurn ==
    ASSUME NEW data, NEW later, NEW x, Splits(data, later, <<CR, LF>>, x),
           NEW p, p.state_ = "HEADERS"
    PROVE  LET q == HeaderTurn([p |-> p, data |-> data])
               d == Rest(data, 2)
           IN  IF Len(data) < 2 THEN FindCrlf(data) = 0 /\ q = [p |-> p, data |-> data]
               ELSE /\ FindCrlf(data) # 0 /\ 2 \in 1..Len(data) /\ d \in Seq(Octet) /\ d \o later = x
                    /\ q = [p |-> EndHeaders(p), data |-> d]
<1> DEFINE st == [p |-> p, data |-> data]
<1>1. st.p = p /\ st.data = data /\ data \in Seq(Octet)
  BY DEF Splits
<1>2. CASE Len(data) < 2
  <2>1. FindCrlf(data) = 0
    BY <1>2, BlankArrives
  <2>2. HeaderTurn(st) = st
    BY <1>1, <2>1 DEF HeaderTurn
  <2> QED
    BY <1>2, <2>1, <2>2
<1>3. CASE ~(Len(data) < 2)
  <2> DEFINE d == Rest(data, 2)
  <2>1. /\ FindCrlf(data) = 1 /\ 2 \in 0..Len(data)
        /\ d \in Seq(Octet) /\ d \o later = x
    BY <1>3, BlankArrives
  <2>2. HeaderTurn(st) = [p |-> EndHeaders(p), data |-> d]
    <3>1. 1 + 1 = 2 /\ 1 # 0
      OBVIOUS
    <3> QED
      BY <1>1, <2>1, <3>1 DEF HeaderTurn
  <2>3. 2 \in 1..Len(data)
    BY <2>1
  <2> HIDE DEF d
  <2>4. FindCrlf(data) # 0
    BY <2>1
  <2> QED
    BY <1>3, <2>1, <2>2, <2>3, <2>4 DEF d
<1> QED
  BY <1>2, <1>3

\* q and d are what comes of a turn on data that consumes something.
Moves(q, d, data, later, r, next) ==
    /\ d \in Seq(Octet) /\ \E j \in 1..Len(data) : d = Rest(data, j)
    /\ Inside(q, r, d \o later, next)

\* A turn of parse_headers() without a line in the data, and with one.
HeaderTurnGood(p, data, later, r, next) ==
    LET u == HeaderTurn([p |-> p, data |-> data])
    IN  IF FindCrlf(data) = 0 THEN u = [p |-> p, data |-> data]
        ELSE \E q, d : u = [p |-> q, data |-> d] /\ Moves(q, d, data, later, r, next)

\* A turn at the empty line.
LEMMA HeadersLeave ==
    ASSUME NEW r, IsRequest(r), NEW next \in Seq(Octet), NEW data \in Seq(Octet),
           NEW later \in Seq(Octet), data \o later = BlankPart(r, next)
    PROVE  HeaderTurnGood(Headed(r), data, later, r, next)
<1> DEFINE h == Headed(r)
           x == BodyPart(r, next)
           d == Rest(data, 2)
           q == EndHeaders(h)
<1>1. Splits(data, later, <<CR, LF>>, x)
  BY LineFacts, PartTypes DEF Splits, BlankPart
<1>2. h.state_ = "HEADERS"
  BY HeadedFields
<1>3. r.body \in Seq(Octet) /\ Len(r.body) \in Nat /\ r.framing \in {"none", "length", "chunked"}
      /\ (r.framing = "none" => r.body = <<>>)
  BY RequestFacts
<1>9. /\ SubSeq(r.body, 1, 0) = <<>> /\ Rest(r.body, 0) = r.body
  BY <1>3 DEF Rest
<1>4. q = IF r.framing = "chunked" THEN InRequest(r, "CHUNKED_BODY", 0, 0, <<>>, 0, TRUE)
          ELSE IF r.framing = "length" THEN InRequest(r, "BODY", Len(r.body), 0, <<>>, 0, TRUE)
          ELSE InRequest(r, "DONE", 0, 0, <<>>, 0, TRUE)
  BY HeadersEnd
<1> HIDE DEF h, x, q
<1>5. CASE Len(data) < 2
  BY <1>1, <1>2, <1>5, BlankTurn DEF h, HeaderTurnGood
<1>6. CASE ~(Len(data) < 2)
  <2>1. /\ FindCrlf(data) # 0 /\ 2 \in 1..Len(data) /\ d \in Seq(Octet) /\ d \o later = x
        /\ HeaderTurn([p |-> h, data |-> data]) = [p |-> q, data |-> d]
    BY <1>1, <1>2, <1>6, BlankTurn DEF q
  <2> HIDE DEF d
  <2>2. Inside(q, r, x, next)
    <3>1. CASE r.framing = "chunked"
      <4>1. q = InRequest(r, "CHUNKED_BODY", 0, 0, <<>>, 0, TRUE) /\ <<>> \in Seq(Octet)
        BY <1>4, <3>1, LineFacts
      <4>2. x = ChunksFrom(r.chunks, 0) \o next
        BY <3>1 DEF x, BodyPart
      <4>5. BytesFrom(r.chunks, 0) = r.body /\ 0 \in 0..Len(r.chunks)
        BY <3>1, RequestChunks, BytesFromFacts
      <4>6. <<>> \o BytesFrom(r.chunks, 0) = r.body
        BY <1>3, <4>5, ConcatEmpty
      <4>3. AtSize(q, r, 0, x, next)
        BY <4>1, <4>2, <4>6 DEF AtSize
      <4>4. AtChunks(q, r, x, next)
        BY <3>1, <4>3, <4>5 DEF AtChunks
      <4> QED
        BY <4>4 DEF Inside
    <3>2. CASE r.framing = "length"
      <4>1. q = InRequest(r, "BODY", Len(r.body), 0, SubSeq(r.body, 1, 0), 0, TRUE)
        BY <1>4, <1>9, <3>2
      <4>2. x = Rest(r.body, 0) \o next
        BY <1>9, <3>2 DEF x, BodyPart
      <4>4. 0 \in 0..Len(r.body) /\ (Len(r.body) > 0 => 0 < Len(r.body))
        BY <1>3
      <4>3. AtBody(q, r, x, next)
        BY <3>2, <4>1, <4>2, <4>4, Zenon DEF AtBody
      <4> QED
        BY <4>3 DEF Inside
    <3>3. CASE r.framing = "none"
      <4>1. q = InRequest(r, "DONE", 0, 0, <<>>, 0, TRUE)
        BY <1>4, <3>3
      <4>2. "DONE" \in States /\ 0 \in Nat /\ <<>> \in Seq(Octet) /\ TRUE \in BOOLEAN
        BY LineFacts DEF States
      <4>3. /\ q \in Parser /\ q.state_ = "DONE" /\ q.content_length_ = 0
            /\ q.body_read_ = 0 /\ q.temp_body_ = <<>>
        <5>1. Holds(q, "DONE", 0, 0, <<>>, 0)
          BY <4>1, <4>2, InRequestHolds
        <5> QED
          BY <5>1 DEF Holds
      <4>4. x = next
        BY <1>3, <3>3, ConcatEmpty DEF x, BodyPart
      <4>5. AfterBody(r, next) = next
        BY <3>3 DEF AfterBody
      <4>6. AtDone(q, r, x, next)
        BY <1>3, <3>3, <4>3, <4>4, <4>5 DEF AtDone
      <4> QED
        BY <4>6 DEF Inside
    <3> QED
      BY <1>3, <3>1, <3>2, <3>3
  <2>3. Moves(q, d, data, later, r, next)
    BY <2>1, <2>2 DEF Moves, d
  <2> QED
    BY <2>1, <2>3 DEF h, HeaderTurnGood
<1> QED
  BY <1>5, <1>6

\* A turn on a header line: the parser stays in the headers.
HeaderAhead(t, v, p, data, later, r, next, x) ==
    /\ t \in Texts \ {"CR"} /\ v \in Nat /\ Splits(data, later, Line(t, v), x)
    /\ p.state_ = "HEADERS" /\ AtHeaders(AddHeader(p, <<Char(t, v)>>), r, x, next)

LEMMA HeaderLine ==
    ASSUME NEW t, NEW v, NEW p, NEW data, NEW later, NEW r, NEW next, NEW x,
           HeaderAhead(t, v, p, data, later, r, next, x)
    PROVE  HeaderTurnGood(p, data, later, r, next)
<1> DEFINE q == AddHeader(p, <<Char(t, v)>>)
           d == Rest(data, 3)
           u == HeaderTurn([p |-> p, data |-> data])
<1>1. IF Len(data) < 3 THEN FindCrlf(data) = 0 /\ u = [p |-> p, data |-> data]
      ELSE /\ FindCrlf(data) # 0 /\ 3 \in 1..Len(data) /\ d \in Seq(Octet) /\ d \o later = x
           /\ u = [p |-> q, data |-> d]
  BY TextTurn DEF HeaderAhead
<1>2. Inside(q, r, x, next)
  BY DEF Inside, HeaderAhead
<1> HIDE DEF q, u
<1>3. CASE Len(data) < 3
  BY <1>1, <1>3 DEF u, HeaderTurnGood
<1>4. CASE ~(Len(data) < 3)
  <2>1. /\ FindCrlf(data) # 0 /\ 3 \in 1..Len(data) /\ d \in Seq(Octet) /\ d \o later = x
        /\ u = [p |-> q, data |-> d]
    BY <1>1, <1>4
  <2>2. \E j \in 1..Len(data) : d = Rest(data, j)
    BY <2>1
  <2> HIDE DEF d
  <2>3. Moves(q, d, data, later, r, next)
    BY <1>2, <2>1, <2>2, Zenon DEF Moves
  <2> QED
    BY <2>1, <2>3 DEF u, HeaderTurnGood
<1> QED
  BY <1>3, <1>4

\* A turn of parse_headers(), wherever in the headers.
LEMMA HeaderTurnKeeps ==
    ASSUME NEW r, IsRequest(r), NEW next \in Seq(Octet), NEW data \in Seq(Octet),
           NEW later \in Seq(Octet), NEW p, AtHeaders(p, r, data \o later, next)
    PROVE  HeaderTurnGood(p, data, later, r, next)
<1> DEFINE todo == data \o later
           n == Len(r.body)
           frame == FramePart(r, next)
           blank == BlankPart(r, next)
<1>1. /\ \/ p = Fresh /\ (todo = HeaderPart(r, next) \/ todo = frame)
         \/ p = Headed(r) /\ todo = blank
  BY DEF AtHeaders, Fresh, Headed
<1>2. frame \in Seq(Octet) /\ blank \in Seq(Octet)
  BY PartTypes
<1>3. /\ "Connection: close" \in Texts \ {"CR"} /\ "Content-Length" \in Texts \ {"CR"}
      /\ "Transfer-Encoding: chunked" \in Texts \ {"CR"} /\ 0 \in Nat
  BY DEF Texts
<1>4. /\ n \in Nat /\ r.framing \in {"none", "length", "chunked"} /\ r.close \in BOOLEAN
  BY RequestFacts
<1>5. /\ Line("Connection: close", 0) \in Seq(Octet) /\ Line("Content-Length", n) \in Seq(Octet)
      /\ Line("Transfer-Encoding: chunked", 0) \in Seq(Octet)
  BY LineTypes
<1>6. Fresh.state_ = "HEADERS" /\ Headed(r).state_ = "HEADERS"
  BY FreshFields, HeadedFields
<1>7. /\ AddHeader(Fresh, <<Char("Connection: close", 0)>>) = Fresh
      /\ r.framing = "length" => AddHeader(Fresh, <<Char("Content-Length", n)>>) = Headed(r)
      /\ r.framing = "chunked" =>
            AddHeader(Fresh, <<Char("Transfer-Encoding: chunked", 0)>>) = Headed(r)
      /\ r.framing = "none" => Fresh = Headed(r)
  BY HeadersAdd
<1>8. AtHeaders(Fresh, r, frame, next) /\ AtHeaders(Headed(r), r, blank, next)
  BY DEF AtHeaders, Fresh, Headed
<1>9. CASE p = Headed(r) /\ todo = blank
  BY <1>9, HeadersLeave
<1>10. CASE p = Fresh /\ todo = frame
  <2>1. CASE r.framing = "none"
    <3>1. p = Headed(r) /\ todo = blank
      BY <1>7, <1>10, <2>1 DEF FramePart
    <3> QED
      BY <1>9, <3>1
  <2>2. CASE r.framing = "length"
    <3>1. frame = Line("Content-Length", n) \o blank
      BY <2>2 DEF FramePart
    <3>2. Splits(data, later, Line("Content-Length", n), blank)
      BY <1>2, <1>5, <1>10, <3>1 DEF Splits
    <3>3. AtHeaders(AddHeader(p, <<Char("Content-Length", n)>>), r, blank, next)
      BY <1>7, <1>8, <1>10, <2>2
    <3>4. p.state_ = "HEADERS"
      BY <1>6, <1>10
    <3>5. HeaderAhead("Content-Length", n, p, data, later, r, next, blank)
      BY <1>3, <1>4, <3>2, <3>3, <3>4 DEF HeaderAhead
    <3> QED
      BY <3>5, HeaderLine
  <2>3. CASE r.framing = "chunked"
    <3>1. frame = Line("Transfer-Encoding: chunked", 0) \o blank
      BY <2>3 DEF FramePart
    <3>2. Splits(data, later, Line("Transfer-Encoding: chunked", 0), blank)
      BY <1>2, <1>5, <1>10, <3>1 DEF Splits
    <3>3. AtHeaders(AddHeader(p, <<Char("Transfer-Encoding: chunked", 0)>>), r, blank, next)
      BY <1>7, <1>8, <1>10, <2>3
    <3>4. p.state_ = "HEADERS"
      BY <1>6, <1>10
    <3>5. HeaderAhead("Transfer-Encoding: chunked", 0, p, data, later, r, next, blank)
      BY <1>3, <1>4, <3>2, <3>3, <3>4 DEF HeaderAhead
    <3> QED
      BY <3>5, HeaderLine
  <2> QED
    BY <1>4, <2>1, <2>2, <2>3
<1>11. CASE p = Fresh /\ todo = HeaderPart(r, next)
  <2>1. CASE r.close
    <3>1. HeaderPart(r, next) = Line("Connection: close", 0) \o frame
      BY <2>1 DEF HeaderPart
    <3>2. Splits(data, later, Line("Connection: close", 0), frame)
      BY <1>2, <1>5, <1>11, <3>1 DEF Splits
    <3>3. AtHeaders(AddHeader(p, <<Char("Connection: close", 0)>>), r, frame, next)
      BY <1>7, <1>8, <1>11
    <3>4. p.state_ = "HEADERS"
      BY <1>6, <1>11
    <3>5. HeaderAhead("Connection: close", 0, p, data, later, r, next, frame)
      BY <1>3, <1>4, <3>2, <3>3, <3>4 DEF HeaderAhead
    <3> QED
      BY <3>5, HeaderLine
  <2>2. CASE ~r.close
    <3>1. todo = frame
      BY <1>11, <2>2 DEF HeaderPart
    <3> QED
      BY <1>10, <1>11, <3>1
  <2> QED
    BY <2>1, <2>2
<1> QED
  BY <1>1, <1>9, <1>10, <1>11

\* q and d are what a call of the function of the parser's state makes of data:
\* the parser is where it should be, and when nothing was consumed it had to be so.
Parsed(q, d, data, later, rs, k) ==
    /\ d \in Seq(Octet) /\ \E j \in 0..Len(data) : d = Rest(data, j)
    /\ At(q, rs, k, d \o later)
    /\ Len(d) = Len(data) => q.state_ \in {"DONE", "ERROR"} \/ Quiet(q, data)

LEMMA RestZero == \A s \in Seq(Octet) : Rest(s, 0) = s /\ 0 \in 0..Len(s)
<1> TAKE s \in Seq(Octet)
<1>1. 0 \in 0..Len(s)
  OBVIOUS
<1>2. /\ Rest(s, 0) \in Seq(Octet) /\ Len(Rest(s, 0)) = Len(s) - 0
      /\ \A i \in 1..(Len(s) - 0) : Rest(s, 0)[i] = s[0 + i]
  BY <1>1, RestFacts
<1>3. Len(s) - 0 = Len(s) /\ \A i \in 1..Len(s) : 0 + i = i
  OBVIOUS
<1>4. Rest(s, 0) = s
  BY <1>2, <1>3, SameElements
<1> QED
  BY <1>1, <1>4

\* Nothing was consumed, and rightly.
LEMMA StaysPut ==
    ASSUME NEW data \in Seq(Octet), NEW later, NEW rs, NEW k, NEW p,
           At(p, rs, k, data \o later), Quiet(p, data)
    PROVE  Parsed(p, data, data, later, rs, k)
<1>1. \E j \in 0..Len(data) : data = Rest(data, j)
  BY RestZero
<1> QED
  BY <1>1, Zenon DEF Parsed

\* A parser in the error state, for a reason.
LEMMA GivesUp ==
    ASSUME NEW data \in Seq(Octet), NEW later, NEW rs, NEW k,
           \/ k < Len(rs) /\ ~rs[k + 1].ok
           \/ k > 0 /\ rs[k].framing = "chunked"
    PROVE  Parsed([NewParser EXCEPT !.state_ = "ERROR"], data, data, later, rs, k)
<1> DEFINE q == [NewParser EXCEPT !.state_ = "ERROR"]
<1>1. "ERROR" \in States
  BY DEF States
<1>2. q \in Parser /\ q.state_ = "ERROR" /\ q.content_length_ = 0 /\ q.body_read_ = 0
  BY <1>1, NewFields, SetState
<1> HIDE DEF q
<1>3. AtError(q, rs, k)
  BY <1>2 DEF AtError
<1>4. \E j \in 0..Len(data) : data = Rest(data, j)
  BY RestZero
<1>5. Parsed(q, data, data, later, rs, k)
  BY <1>2, <1>3, <1>4, Zenon DEF Parsed, At
<1> QED
  BY <1>5 DEF q

\* parse_request_line() at a CR LF, and at the first line of a request.
LEMMA StrayLine ==
    ASSUME NEW data, NEW later, NEW x, Splits(data, later, <<CR, LF>>, x), NEW p
    PROVE  IF Len(data) < 2
           THEN FindCrlf(data) = 0 /\ ParseRequestLine(p, data) = [p |-> p, data |-> data]
           ELSE ParseRequestLine(p, data) = [p |-> [p EXCEPT !.state_ = "ERROR"], data |-> data]
<1>1. IF Len(data) < 2 THEN FindCrlf(data) = 0 ELSE FindCrlf(data) = 1
  BY BlankArrives
<1>2. CASE Len(data) < 2
  BY <1>1, <1>2 DEF ParseRequestLine
<1>3. CASE ~(Len(data) < 2)
  <2> DEFINE line == SubSeq(data, 1, 1 - 1)
  <2>1. line = <<>>
    BY DEF Splits
  <2>2. ~ \E i \in DOMAIN line : line[i].text = "request"
    BY <2>1
  <2>3. FindCrlf(data) = 1 /\ 1 # 0
    BY <1>1, <1>3
  <2> QED
    BY <1>3, <2>2, <2>3 DEF ParseRequestLine
<1> QED
  BY <1>2, <1>3

LEMMA OpeningLine ==
    ASSUME NEW t \in {"request", "junk"}, NEW data, NEW later, NEW x,
           Splits(data, later, Line(t, 0), x), NEW p
    PROVE  LET d == Rest(data, 3)
           IN  IF Len(data) < 3
               THEN FindCrlf(data) = 0 /\ ParseRequestLine(p, data) = [p |-> p, data |-> data]
               ELSE /\ 3 \in 1..Len(data) /\ d \in Seq(Octet) /\ d \o later = x
                    /\ ParseRequestLine(p, data) =
                         IF t = "request" THEN [p |-> [p EXCEPT !.state_ = "HEADERS"], data |-> d]
                         ELSE [p |-> [p EXCEPT !.state_ = "ERROR"], data |-> data]
<1> DEFINE c == Char(t, 0)
           d == Rest(data, 3)
<1>1. t \in Texts \ {"CR"} /\ 0 \in Nat
  BY DEF Texts
<1>2. c.text = t
  BY <1>1, TextFacts DEF IsText
<1>3. IF Len(data) < 3 THEN FindCrlf(data) = 0
      ELSE /\ FindCrlf(data) = 2 /\ SubSeq(data, 1, 1) = <<c>> /\ 3 \in 0..Len(data)
           /\ d \in Seq(Octet) /\ d \o later = x
  BY <1>1, LineArrives
<1> HIDE DEF c
<1>4. CASE Len(data) < 3
  BY <1>3, <1>4 DEF ParseRequestLine
<1>5. CASE ~(Len(data) < 3)
  <2> DEFINE line == SubSeq(data, 1, 2 - 1)
  <2>1. /\ FindCrlf(data) = 2 /\ line = <<c>> /\ 3 \in 0..Len(data)
        /\ d \in Seq(Octet) /\ d \o later = x
    BY <1>3, <1>5
  <2>2. (\E i \in DOMAIN line : line[i].text = "request") <=> t = "request"
    <3>1. DOMAIN <<c>> = {1} /\ <<c>>[1] = c
      OBVIOUS
    <3> QED
      BY <1>2, <2>1, <3>1
  <2>3. Rest(data, 2 + 1) = d /\ 2 # 0 /\ 3 \in 1..Len(data)
    BY <2>1
  <2> HIDE DEF d
  <2>4. ParseRequestLine(p, data) =
           IF \E i \in DOMAIN line : line[i].text = "request"
           THEN [p |-> [p EXCEPT !.state_ = "HEADERS"], data |-> d]
           ELSE [p |-> [p EXCEPT !.state_ = "ERROR"], data |-> data]
    BY <2>1, <2>3 DEF ParseRequestLine
  <2> HIDE DEF line
  <2> QED
    BY <1>5, <2>1, <2>2, <2>3, <2>4 DEF d
<1> QED
  BY <1>4, <1>5

\* Two sequences that make an empty one are empty.
LEMMA BothEmpty ==
    ASSUME NEW data \in Seq(Octet), NEW later \in Seq(Octet), data \o later = <<>>
    PROVE  data = <<>> /\ later = <<>>
<1>1. Len(data \o later) = Len(data) + Len(later) /\ Len(data) \in Nat /\ Len(later) \in Nat
  BY Concat
<1>2. Len(data) = 0 /\ Len(later) = 0
  BY <1>1
<1> QED
  BY <1>2

LEMMA NothingFound == FindCrlf(<<>>) = 0
<1>1. <<>> \in Seq(Octet) /\ \A i \in 1..(Len(<<>>) - 1) : <<>>[i] # CR
  OBVIOUS
<1> QED
  BY <1>1, NotFound

\* Where a CR LF counts, the parser is quiet without one.
LEMMA QuietWithout ==
    ASSUME NEW p, NEW data, FindCrlf(data) = 0, p.state_ \in {"START", "HEADERS"}
    PROVE  Quiet(p, data)
<1>1. p.state_ # "BODY" /\ p.state_ # "CHUNKED_BODY"
  OBVIOUS
<1> QED
  BY <1>1, Zenon DEF Quiet

\* parse_request_line()
LEMMA RequestLineKeeps ==
    ASSUME NEW rs, IsStream(rs), NEW k \in 0..Len(rs), NEW data \in Seq(Octet),
           NEW later \in Seq(Octet), NEW p, AtStart(p, rs, k, data \o later)
    PROVE  \E q, d : /\ ParseRequestLine(p, data) = [p |-> q, data |-> d]
                     /\ Parsed(q, d, data, later, rs, k)
<1> DEFINE todo == data \o later
           after == After(rs, k)
           r == rs[k + 1]
           next == After(rs, k + 1)
           x == HeaderPart(r, next)
<1>1. p = NewParser /\ todo = IF k = 0 THEN After(rs, 0) ELSE AfterBody(rs[k], after)
  BY DEF AtStart
<1>2. p.state_ = "START"
  BY <1>1, NewFields
<1>3. Len(rs) \in Nat /\ after \in Seq(Octet)
  BY AfterFacts DEF IsStream
<1>4. ASSUME FindCrlf(data) = 0 PROVE Parsed(p, data, data, later, rs, k)
  <2>1. Quiet(p, data)
    BY <1>2, <1>4, QuietWithout
  <2>2. At(p, rs, k, data \o later)
    BY DEF At
  <2> QED
    BY <2>1, <2>2, StaysPut
<1>5. CASE k > 0 /\ rs[k].framing = "chunked"
  <2>1. todo = <<CR, LF>> \o after
    BY <1>1, <1>5 DEF AfterBody
  <2>2. Splits(data, later, <<CR, LF>>, after)
    BY <1>3, <2>1, LineFacts DEF Splits
  <2> HIDE DEF after
  <2>3. CASE Len(data) < 2
    BY <1>4, <2>2, <2>3, StrayLine
  <2>4. CASE ~(Len(data) < 2)
    <3>1. ParseRequestLine(p, data) = [p |-> [NewParser EXCEPT !.state_ = "ERROR"], data |-> data]
      BY <1>1, <2>2, <2>4, StrayLine
    <3>2. Parsed([NewParser EXCEPT !.state_ = "ERROR"], data, data, later, rs, k)
      BY <1>5, GivesUp
    <3> QED
      BY <3>1, <3>2
  <2> QED
    BY <2>3, <2>4
<1>6. CASE ~(k > 0 /\ rs[k].framing = "chunked")
  <2>1. todo = after
    BY <1>1, <1>6 DEF AfterBody
  <2>2. CASE k = Len(rs)
    <3>1. todo = <<>>
      BY <2>1, <2>2, AfterFacts
    <3>2. data = <<>>
      BY <3>1, BothEmpty
    <3>3. FindCrlf(data) = 0
      BY <3>2, NothingFound
    <3>4. ParseRequestLine(p, data) = [p |-> p, data |-> data]
      BY <3>3 DEF ParseRequestLine
    <3> QED
      BY <1>4, <3>3, <3>4
  <2>3. CASE k < Len(rs)
    <3> DEFINE t == IF r.ok THEN "request" ELSE "junk"
    <3>1. /\ IsRequest(r) /\ next \in Seq(Octet) /\ todo = Opening(r) \o x
      BY <2>1, <2>3, AfterFacts
    <3>2. x \in Seq(Octet) /\ Opening(r) \in Seq(Octet)
      BY <3>1, PartTypes, LineTypes
    <3>3. Splits(data, later, Line(t, 0), x)
      <4>1. Opening(r) = Line(t, 0)
        BY DEF Opening
      <4> QED
        BY <3>1, <3>2, <4>1 DEF Splits
    <3>4. t \in {"request", "junk"} /\ (t = "request" <=> r.ok) /\ r.ok \in BOOLEAN
      BY <3>1, RequestFacts
    <3> DEFINE d == Rest(data, 3)
    <3> HIDE DEF t
    <3>5. IF Len(data) < 3
          THEN FindCrlf(data) = 0 /\ ParseRequestLine(p, data) = [p |-> p, data |-> data]
          ELSE /\ 3 \in 1..Len(data) /\ d \in Seq(Octet) /\ d \o later = x
               /\ ParseRequestLine(p, data) =
                    IF t = "request" THEN [p |-> [p EXCEPT !.state_ = "HEADERS"], data |-> d]
                    ELSE [p |-> [p EXCEPT !.state_ = "ERROR"], data |-> data]
      BY <3>3, <3>4, OpeningLine
    <3>6. CASE Len(data) < 3
      BY <1>4, <3>5, <3>6
    <3>7. CASE ~(Len(data) < 3) /\ r.ok
      <4>1. /\ 3 \in 1..Len(data) /\ d \in Seq(Octet) /\ d \o later = x
            /\ ParseRequestLine(p, data) = [p |-> Fresh, data |-> d]
        BY <1>1, <3>4, <3>5, <3>7 DEF Fresh
      <4>2. AtHeaders(Fresh, r, x, next)
        BY DEF AtHeaders, Fresh
      <4> HIDE DEF x
      <4>3. At(Fresh, rs, k, d \o later)
        BY <2>3, <3>7, <4>1, <4>2 DEF At, AtRequest, Inside
      <4>4. 3 \in 0..Len(data) /\ Len(d) = Len(data) - 3 /\ Len(data) \in Nat
        BY <4>1, RestFacts
      <4>5. Len(d) # Len(data) /\ \E j \in 0..Len(data) : d = Rest(data, j)
        BY <4>4
      <4> HIDE DEF d
      <4>6. Parsed(Fresh, d, data, later, rs, k)
        BY <4>1, <4>3, <4>5, Zenon DEF Parsed
      <4> QED
        BY <4>1, <4>6
    <3>8. CASE ~(Len(data) < 3) /\ ~r.ok
      <4>1. ParseRequestLine(p, data)
               = [p |-> [NewParser EXCEPT !.state_ = "ERROR"], data |-> data]
        BY <1>1, <3>4, <3>5, <3>8
      <4>2. Parsed([NewParser EXCEPT !.state_ = "ERROR"], data, data, later, rs, k)
        BY <2>3, <3>8, GivesUp
      <4> QED
        BY <4>1, <4>2
    <3> QED
      BY <3>6, <3>7, <3>8
  <2>4. k = Len(rs) \/ k < Len(rs)
    BY <1>3
  <2> QED
    BY <2>2, <2>3, <2>4, Zenon
<1> QED
  BY <1>5, <1>6

\* Assignments to the fields, and what they make of the parser in a request.
PutState(p, x) == [p EXCEPT !.state_ = x]
PutRead(p, x) == [p EXCEPT !.body_read_ = x]
PutBody(p, x) == [p EXCEPT !.temp_body_ = x]
PutSize(p, x) == [p EXCEPT !.chunk_size_ = x]
PutReading(p, x) == [p EXCEPT !.reading_chunk_size_ = x]

LEMMA Assigned ==
    ASSUME NEW r, NEW s, NEW cl, NEW br, NEW body, NEW cs, NEW rd, NEW x
    PROVE  LET p == InRequest(r, s, cl, br, body, cs, rd)
           IN  /\ PutState(p, x) = InRequest(r, x, cl, br, body, cs, rd)
               /\ PutRead(p, x) = InRequest(r, s, cl, x, body, cs, rd)
               /\ PutBody(p, x) = InRequest(r, s, cl, br, x, cs, rd)
               /\ PutSize(p, x) = InRequest(r, s, cl, br, body, x, rd)
               /\ PutReading(p, x) = InRequest(r, s, cl, br, body, cs, x)
<1> DEFINE l == IF r.framing = "length" THEN Len(r.body) ELSE -1
           c == r.framing = "chunked"
           R(s1, cl1, br1, b1, cs1, rd1) ==
              [state_ |-> s1, length |-> l, chunked_ |-> c, content_length_ |-> cl1,
               body_read_ |-> br1, temp_body_ |-> b1, chunk_size_ |-> cs1,
               reading_chunk_size_ |-> rd1]
           p == InRequest(r, s, cl, br, body, cs, rd)
<1>1. \A s1, cl1, br1, b1, cs1, rd1 :
         InRequest(r, s1, cl1, br1, b1, cs1, rd1) = R(s1, cl1, br1, b1, cs1, rd1)
  BY DEF InRequest
<1>2. p = R(s, cl, br, body, cs, rd)
  BY <1>1
<1> HIDE DEF l, c, p
<1>3. PutRead(p, x) = R(s, cl, x, body, cs, rd)
  BY <1>2 DEF PutRead
<1>4. PutBody(p, x) = R(s, cl, br, x, cs, rd)
  BY <1>2 DEF PutBody
<1>5. PutState(p, x) = R(x, cl, br, body, cs, rd)
  BY <1>2 DEF PutState
<1>6. PutSize(p, x) = R(s, cl, br, body, x, rd)
  BY <1>2 DEF PutSize
<1>7. PutReading(p, x) = R(s, cl, br, body, cs, x)
  BY <1>2 DEF PutReading
<1> HIDE DEF R
<1> QED
  BY <1>1, <1>3, <1>4, <1>5, <1>6, <1>7 DEF p

\* The fields of the parser in a request, of whatever type.
LEMMA FieldsOf ==
    ASSUME NEW r, NEW s, NEW cl, NEW br, NEW body, NEW cs, NEW rd
    PROVE  LET p == InRequest(r, s, cl, br, body, cs, rd)
           IN  /\ p.state_ = s /\ p.content_length_ = cl /\ p.body_read_ = br
               /\ p.temp_body_ = body /\ p.chunk_size_ = cs
  BY DEF InRequest

\* A prefix of a sequence and what comes after it.
LEMMA PrefixGrows ==
    ASSUME NEW s \in Seq(Octet), NEW n \in 0..Len(s), NEW m \in 0..(Len(s) - n)
    PROVE  /\ n + m \in 0..Len(s) /\ m \in 0..Len(Rest(s, n))
           /\ Rest(Rest(s, n), m) = Rest(s, n + m)
           /\ SubSeq(s, 1, n) \o SubSeq(Rest(s, n), 1, m) = SubSeq(s, 1, n + m)
<1> DEFINE b == Rest(s, n)
           u == SubSeq(s, 1, n)
           v == SubSeq(b, 1, m)
           w == u \o v
           z == SubSeq(s, 1, n + m)
<1>1. n \in Nat /\ m \in Nat /\ n + m \in 0..Len(s) /\ Len(s) \in Nat
  OBVIOUS
<1>2. /\ b \in Seq(Octet) /\ Len(b) = Len(s) - n
      /\ \A i \in 1..(Len(s) - n) : b[i] = s[n + i]
  BY RestFacts
<1>3. m \in 0..Len(b)
  BY <1>2
<1>4. Rest(b, m) = Rest(s, n + m)
  <2>1. n + m <= Len(s)
    BY <1>1
  <2> QED
    BY <1>1, <2>1, BP!DroppedTwice DEF Rest, BP!Dropped
<1> HIDE DEF b
<1>5. u \in Seq(Octet) /\ Len(u) = n /\ \A i \in 1..n : u[i] = s[i]
  BY FirstFacts
<1>6. v \in Seq(Octet) /\ Len(v) = m /\ \A i \in 1..m : v[i] = b[i]
  BY <1>2, <1>3, FirstFacts
<1>7. z \in Seq(Octet) /\ Len(z) = n + m /\ \A i \in 1..(n + m) : z[i] = s[i]
  BY <1>1, FirstFacts
<1> HIDE DEF u, v, z
<1>8. /\ w \in Seq(Octet) /\ Len(w) = n + m
      /\ \A i \in 1..(n + m) : w[i] = IF i <= n THEN u[i] ELSE v[i - n]
  BY <1>5, <1>6, ConcatProperties, ZenonT(30)
<1> HIDE DEF w
<1>9. \A i \in 1..(n + m) : w[i] = z[i]
  <2> TAKE i \in 1..(n + m)
  <2>1. CASE i <= n
    <3>1. i \in 1..n
      BY <1>1, <2>1
    <3> QED
      BY <1>5, <1>7, <1>8, <2>1, <3>1
  <2>2. CASE ~(i <= n)
    <3>1. i - n \in 1..m /\ i - n \in 1..(Len(s) - n) /\ n + (i - n) = i
      BY <1>1, <2>2
    <3>2. v[i - n] = s[i]
      BY <1>2, <1>6, <3>1
    <3> QED
      BY <1>7, <1>8, <2>2, <3>2
  <2> QED
    BY <2>1, <2>2
<1>10. w = z
  BY <1>7, <1>8, <1>9, SameElements
<1> QED
  BY <1>1, <1>3, <1>4, <1>10 DEF b, u, v, w, z

LEMMA WholeSeq == \A s \in Seq(Octet) : SubSeq(s, 1, Len(s)) = s /\ Rest(s, Len(s)) = <<>>
<1> TAKE s \in Seq(Octet)
<1>1. Len(s) \in 0..Len(s)
  OBVIOUS
<1>2. /\ SubSeq(s, 1, Len(s)) \in Seq(Octet) /\ Len(SubSeq(s, 1, Len(s))) = Len(s)
      /\ \A i \in 1..Len(s) : SubSeq(s, 1, Len(s))[i] = s[i]
  BY <1>1, FirstFacts
<1>3. SubSeq(s, 1, Len(s)) = s
  BY <1>2, SameElements
<1>4. Rest(s, Len(s)) \in Seq(Octet) /\ Len(Rest(s, Len(s))) = Len(s) - Len(s)
  BY <1>1, RestFacts
<1>5. Rest(s, Len(s)) = <<>>
  BY <1>4
<1> QED
  BY <1>3, <1>5

\* What is left when less than a has arrived.
LEMMA PartlyEaten ==
    ASSUME NEW data, NEW later, NEW a, NEW x, Splits(data, later, a, x), Len(data) <= Len(a)
    PROVE  SubSeq(a, 1, Len(data)) = data /\ Rest(a, Len(data)) \o x = later
<1>1. Splits(a, x, data, later)
  BY DEF Splits
<1> QED
  BY <1>1, Eaten

\* q and d are what a call of a function on data makes of a parser in r.
Reads(q, d, data, later, r, next) ==
    /\ d \in Seq(Octet) /\ \E j \in 0..Len(data) : d = Rest(data, j)
    /\ Inside(q, r, d \o later, next)
    /\ Len(d) = Len(data) => q.state_ = "DONE" \/ Quiet(q, data)

\* parse_body() takes m bytes, of which there may be none.
InBody(r, cl, n, body) == InRequest(r, "BODY", cl, n, body, 0, TRUE)
BodyEnds(r, cl, n, body) ==
    IF n >= cl THEN InRequest(r, "DONE", cl, n, body, 0, TRUE) ELSE InBody(r, cl, n, body)

LEMMA BodyTakes ==
    ASSUME NEW r, NEW n, NEW m, NEW body, NEW data, NEW cl, m = Min({cl - n, Len(data)})
    PROVE  ParseBody(InBody(r, cl, n, body), data)
              = [p |-> BodyEnds(r, cl, n + m, body \o SubSeq(data, 1, m)), data |-> Rest(data, m)]
<1> DEFINE yes == TRUE
           p == InRequest(r, "BODY", cl, n, body, 0, yes)
           x == body \o SubSeq(data, 1, m)
           y == n + m
           z == InRequest(r, "BODY", cl, y, x, 0, yes)
           e == InRequest(r, "DONE", cl, y, x, 0, yes)
<1> HIDE DEF yes, x, y
<1>1. p.temp_body_ = body /\ p.body_read_ = n /\ p.content_length_ = cl
  BY FieldsOf
<1>2. PutRead(PutBody(p, x), y) = z /\ PutState(z, "DONE") = e
  <2>1. PutBody(p, x) = InRequest(r, "BODY", cl, n, x, 0, yes)
    BY Assigned
  <2>2. PutRead(InRequest(r, "BODY", cl, n, x, 0, yes), y) = z
    BY Assigned
  <2>3. PutState(z, "DONE") = e
    BY Assigned
  <2> QED
    BY <2>1, <2>2, <2>3, Zenon
<1>3. z.body_read_ = y /\ z.content_length_ = cl
  BY FieldsOf
<1> HIDE DEF p, z, e
<1> DEFINE read == PutRead(PutBody(p, x), y)
<1>5. ParseBody(p, data) =
         [p |-> IF read.body_read_ >= read.content_length_ THEN PutState(read, "DONE") ELSE read,
          data |-> Rest(data, m)]
  BY <1>1 DEF ParseBody, PutRead, PutBody, PutState, x, y
<1>6. read = z
  BY <1>2
<1> HIDE DEF read
<1>7. ParseBody(p, data) = [p |-> IF y >= cl THEN e ELSE z, data |-> Rest(data, m)]
  BY <1>2, <1>3, <1>5, <1>6
<1>8. CASE y >= cl
  <2>1. ParseBody(p, data) = [p |-> e, data |-> Rest(data, m)]
    BY <1>7, <1>8
  <2> QED
    BY <1>8, <2>1 DEF InBody, BodyEnds, p, e, x, y, yes
<1>9. CASE ~(y >= cl)
  <2>1. ParseBody(p, data) = [p |-> z, data |-> Rest(data, m)]
    BY <1>7, <1>9
  <2> QED
    BY <1>9, <2>1 DEF InBody, BodyEnds, p, z, x, y, yes
<1> QED
  BY <1>8, <1>9

LEMMA BodyKeeps ==
    ASSUME NEW r, IsRequest(r), NEW next \in Seq(Octet), NEW data \in Seq(Octet),
           NEW later \in Seq(Octet), NEW p, AtBody(p, r, data \o later, next)
    PROVE  \E q, d : /\ ParseBody(p, data) = [p |-> q, data |-> d]
                     /\ Reads(q, d, data, later, r, next)
<1> DEFINE body == r.body
           cl == Len(body)
<1>1. body \in Seq(Octet) /\ cl \in Nat
  BY RequestFacts
<1>2. PICK n \in 0..cl :
         /\ p = InBody(r, cl, n, SubSeq(body, 1, n))
         /\ data \o later = Rest(body, n) \o next
  BY DEF AtBody, InBody
<1>3. r.framing = "length"
  BY DEF AtBody
<1> DEFINE a == Rest(body, n)
           read == SubSeq(body, 1, n)
           m == Min({cl - n, Len(data)})
           d == Rest(data, m)
           x == read \o SubSeq(data, 1, m)
           q == BodyEnds(r, cl, n + m, x)
<1>4. a \in Seq(Octet) /\ Len(a) = cl - n /\ read \in Seq(Octet)
  BY <1>1, RestFacts, FirstFacts
<1>5. m = IF cl - n <= Len(data) THEN cl - n ELSE Len(data)
  <2>1. cl - n \in Int /\ Len(data) \in Int
    BY <1>1
  <2> QED
    BY <2>1, MinOfTwo
<1>6. m \in Nat /\ m \in 0..Len(data) /\ m \in 0..(cl - n) /\ n \in Nat /\ Len(data) \in Nat
  BY <1>1, <1>5
<1>7. Splits(data, later, a, next)
  BY <1>2, <1>4 DEF Splits
<1> HIDE DEF body, a, m, read
<1>8. ParseBody(p, data) = [p |-> q, data |-> d]
  BY <1>2, BodyTakes DEF m, read
<1>9. d \in Seq(Octet) /\ Len(d) = Len(data) - m /\ \E j \in 0..Len(data) : d = Rest(data, j)
  BY <1>6, RestFacts
<1>10. /\ n + m \in 0..cl /\ Rest(a, m) = Rest(body, n + m)
       /\ read \o SubSeq(a, 1, m) = SubSeq(body, 1, n + m)
  BY <1>1, <1>6, PrefixGrows DEF a, read
<1>11. CASE cl - n <= Len(data)
  <2>1. m = cl - n /\ m = Len(a) /\ n + m = cl
    BY <1>1, <1>4, <1>5, <1>6, <1>11
  <2>2. SubSeq(data, 1, m) = a /\ d \o later = next
    <3>1. Len(a) <= Len(data)
      BY <1>6, <2>1
    <3> QED
      BY <1>7, <2>1, <3>1, Eaten
  <2>3. SubSeq(a, 1, m) = a
    BY <1>4, <2>1, WholeSeq
  <2>4. x = body
    BY <1>1, <1>10, <2>1, <2>2, <2>3, WholeSeq
  <2>5. q = InRequest(r, "DONE", cl, cl, body, 0, TRUE)
    <3>1. n + m >= cl
      BY <1>1, <2>1
    <3> HIDE DEF x
    <3> QED
      BY <2>1, <2>4, <3>1 DEF BodyEnds
  <2>6. "DONE" \in States /\ 0 \in Nat
    BY DEF States
  <2>7. Holds(q, "DONE", cl, cl, body, 0)
    <3> HIDE DEF cl, q
    <3> QED
      BY <1>1, <2>5, <2>6, InRequestHolds
  <2> HIDE DEF q, d
  <2>8. AfterBody(r, next) = next
    BY <1>3 DEF AfterBody
  <2>9. cl <= cl
    BY <1>1
  <2>10. AtDone(q, r, d \o later, next)
    BY <2>2, <2>7, <2>8, <2>9 DEF AtDone, Holds, body
  <2>11. q.state_ = "DONE"
    BY <2>7 DEF Holds
  <2>12. Reads(q, d, data, later, r, next)
    BY <1>9, <2>10, <2>11, Zenon DEF Reads, Inside
  <2> QED
    BY <1>8, <2>12
<1>12. CASE ~(cl - n <= Len(data))
  <2>1. m = Len(data) /\ Len(data) <= Len(a) /\ n + m < cl /\ ~(n + m >= cl)
    BY <1>1, <1>4, <1>5, <1>6, <1>12
  <2>2. SubSeq(a, 1, m) = data /\ Rest(a, m) \o next = later
    BY <1>7, <2>1, PartlyEaten
  <2>3. SubSeq(data, 1, m) = data /\ d = <<>>
    BY <2>1, WholeSeq
  <2>4. x = SubSeq(body, 1, n + m) /\ d \o later = Rest(body, n + m) \o next
    BY <1>10, <2>2, <2>3, ConcatEmpty
  <2>5. q = InRequest(r, "BODY", cl, n + m, SubSeq(body, 1, n + m), 0, TRUE)
    BY <2>1, <2>4 DEF BodyEnds, InBody
  <2> HIDE DEF d
  <2>6. AtBody(q, r, d \o later, next)
    <3> HIDE DEF q, cl
    <3> QED
      BY <1>3, <1>10, <2>1, <2>4, <2>5, Zenon DEF AtBody, body, cl
  <2>7. "BODY" \in States /\ 0 \in Nat /\ n + m \in Nat /\ SubSeq(body, 1, n + m) \in Seq(Octet)
    BY <1>1, <1>6, <1>10, FirstFacts DEF States
  <2>8. Holds(q, "BODY", cl, n + m, SubSeq(body, 1, n + m), 0)
    BY <1>1, <2>5, <2>7, InRequestHolds
  <2> HIDE DEF q
  <2>9. q.state_ = "BODY"
    BY <2>8 DEF Holds
  <2>10. Len(d) = Len(data) => data = <<>>
    BY <2>3
  <2>11. Len(d) = Len(data) => Quiet(q, data)
    BY <2>9, <2>10 DEF Quiet
  <2>12. Reads(q, d, data, later, r, next)
    BY <1>9, <2>6, <2>11, Zenon DEF Reads, Inside
  <2> QED
    BY <1>8, <2>12
<1> QED
  BY <1>11, <1>12

\* The parser in a chunked body: before a size line, in a chunk, and at the end.
InSizes(r, body, c) == InRequest(r, "CHUNKED_BODY", 0, 0, body, c, TRUE)
InChunk(r, body, c) == InRequest(r, "CHUNKED_BODY", 0, 0, body, c, FALSE)
BehindChunks(r, body) == InRequest(r, "DONE", 0, 0, body, 0, TRUE)

\* The parser after a size line, as the turn writes it.
AfterSize(p, size) ==
    [p EXCEPT !.chunk_size_ = size, !.state_ = IF size = 0 THEN "DONE" ELSE @,
              !.reading_chunk_size_ = size = 0]

LEMMA SizeIsSet ==
    ASSUME NEW r, NEW body, NEW c, NEW v \in Nat \ {0}
    PROVE  /\ AfterSize(InSizes(r, body, c), 0) = BehindChunks(r, body)
           /\ AfterSize(InSizes(r, body, c), v) = InChunk(r, body, v)
<1> DEFINE yes == TRUE
           no == FALSE
           ch == "CHUNKED_BODY"
           p == InRequest(r, ch, 0, 0, body, c, yes)
<1>1. (0 = 0) = yes /\ (v = 0) = no /\ v # 0
  OBVIOUS
<1> HIDE DEF yes, no
<1>2. p.state_ = "CHUNKED_BODY"
  BY FieldsOf
<1>3. PutReading(PutState(PutSize(p, 0), "DONE"), yes) = InRequest(r, "DONE", 0, 0, body, 0, yes)
  <2>1. PutSize(p, 0) = InRequest(r, ch, 0, 0, body, 0, yes)
    BY Assigned
  <2>2. PutState(InRequest(r, ch, 0, 0, body, 0, yes), "DONE")
           = InRequest(r, "DONE", 0, 0, body, 0, yes)
    BY Assigned
  <2>3. PutReading(InRequest(r, "DONE", 0, 0, body, 0, yes), yes)
           = InRequest(r, "DONE", 0, 0, body, 0, yes)
    BY Assigned
  <2> QED
    BY <2>1, <2>2, <2>3, Zenon
<1>4. PutReading(PutState(PutSize(p, v), ch), no) = InRequest(r, ch, 0, 0, body, v, no)
  <2>1. PutSize(p, v) = InRequest(r, ch, 0, 0, body, v, yes)
    BY Assigned
  <2>2. PutState(InRequest(r, ch, 0, 0, body, v, yes), ch) = InRequest(r, ch, 0, 0, body, v, yes)
    BY Assigned
  <2>3. PutReading(InRequest(r, ch, 0, 0, body, v, yes), no) = InRequest(r, ch, 0, 0, body, v, no)
    BY Assigned
  <2> QED
    BY <2>1, <2>2, <2>3, Zenon
<1> HIDE DEF p
<1>5. AfterSize(p, 0) = PutReading(PutState(PutSize(p, 0), "DONE"), 0 = 0)
  BY DEF AfterSize, PutReading, PutState, PutSize
<1>6. AfterSize(p, v) = PutReading(PutState(PutSize(p, v), ch), v = 0)
  BY <1>1, <1>2 DEF AfterSize, PutReading, PutState, PutSize
<1>7. AfterSize(p, 0) = InRequest(r, "DONE", 0, 0, body, 0, yes)
  BY <1>1, <1>3, <1>5
<1>8. AfterSize(p, v) = InRequest(r, ch, 0, 0, body, v, no)
  BY <1>1, <1>4, <1>6
<1> QED
  BY <1>7, <1>8, Zenon DEF InSizes, BehindChunks, InChunk, p, yes, no

\* The parser after it has taken bytes of a chunk.
LEMMA ChunkFields ==
    \A r, body, c : InChunk(r, body, c).chunk_size_ = c /\ InChunk(r, body, c).temp_body_ = body
  BY DEF InChunk, InRequest

LEMMA TakenBody == \A r, body, c, x : PutBody(InChunk(r, body, c), x) = InChunk(r, x, c)
<1> TAKE r, body, c, x
<1> DEFINE no == FALSE
           ch == "CHUNKED_BODY"
<1> HIDE DEF no
<1>1. PutBody(InRequest(r, ch, 0, 0, body, c, no), x) = InRequest(r, ch, 0, 0, x, c, no)
  BY Assigned
<1> QED
  BY <1>1, Zenon DEF InChunk, no

LEMMA TakenSize == \A r, body, c, d : PutSize(InChunk(r, body, c), d) = InChunk(r, body, d)
<1> TAKE r, body, c, d
<1> DEFINE no == FALSE
           ch == "CHUNKED_BODY"
<1> HIDE DEF no
<1>1. PutSize(InRequest(r, ch, 0, 0, body, c, no), d) = InRequest(r, ch, 0, 0, body, d, no)
  BY Assigned
<1> QED
  BY <1>1, Zenon DEF InChunk, no

LEMMA TakenAll == \A r, body, c : PutReading(InChunk(r, body, c), TRUE) = InSizes(r, body, c)
<1> TAKE r, body, c
<1> DEFINE yes == TRUE
           no == FALSE
           ch == "CHUNKED_BODY"
<1> HIDE DEF yes, no
<1>1. PutReading(InRequest(r, ch, 0, 0, body, c, no), yes) = InRequest(r, ch, 0, 0, body, c, yes)
  BY Assigned
<1> QED
  BY <1>1, Zenon DEF InChunk, InSizes, yes, no

\* A state of the loop of parse_chunked_body().
Looping(p, data, stop) == [p |-> p, data |-> data, stop |-> stop]

\* A turn on a size line.
LEMMA SizeTurn ==
    ASSUME NEW v \in Nat, NEW data, NEW later, NEW x, Splits(data, later, Line("size", v), x),
           NEW p
    PROVE  LET u == ChunkSizeTurn(Looping(p, data, FALSE))
               d == Rest(data, 3)
           IN  IF Len(data) < 3 THEN FindCrlf(data) = 0 /\ u = Looping(p, data, TRUE)
               ELSE /\ 3 \in 1..Len(data) /\ d \in Seq(Octet) /\ d \o later = x
                    /\ u = Looping(AfterSize(p, v), d, v = 0)
<1> DEFINE st == Looping(p, data, FALSE)
           d == Rest(data, 3)
<1>1. "size" \in Texts \ {"CR"} /\ v \in Nat
  BY DEF Texts
<1>2. Char("size", v).text = "size" /\ Char("size", v).value = v
  BY <1>1, TextFacts DEF IsText
<1>3. IF Len(data) < 3 THEN FindCrlf(data) = 0
      ELSE /\ FindCrlf(data) = 2 /\ data[1] = Char("size", v) /\ 3 \in 0..Len(data)
           /\ d \in Seq(Octet) /\ d \o later = x
  BY <1>1, LineArrives
<1>7. st.p = p /\ st.data = data
  BY DEF Looping
<1>8. \A yes : [st EXCEPT !.stop = yes] = Looping(p, data, yes)
  <2> DEFINE no == FALSE
  <2> HIDE DEF no
  <2>1. \A yes : [[p |-> p, data |-> data, stop |-> no] EXCEPT !.stop = yes]
                    = [p |-> p, data |-> data, stop |-> yes]
    OBVIOUS
  <2> QED
    BY <2>1 DEF Looping, no
<1>4. st.p = p /\ st.data = data /\ [st EXCEPT !.stop = TRUE] = Looping(p, data, TRUE)
  BY <1>7, <1>8
<1> HIDE DEF st
<1>5. CASE Len(data) < 3
  <2>1. FindCrlf(data) = 0
    BY <1>3, <1>5
  <2>2. ChunkSizeTurn(st) = [st EXCEPT !.stop = TRUE]
    BY <1>4, <2>1 DEF ChunkSizeTurn
  <2> QED
    BY <1>4, <1>5, <2>1, <2>2 DEF st
<1>6. CASE ~(Len(data) < 3)
  <2>1. /\ FindCrlf(data) = 2 /\ data[1].text = "size" /\ data[1].value = v /\ 3 \in 1..Len(data)
        /\ d \in Seq(Octet) /\ d \o later = x
    BY <1>2, <1>3, <1>6
  <2>2. Rest(data, 2 + 1) = d /\ 2 > 1 /\ 2 # 0
    OBVIOUS
  <2> HIDE DEF d
  <2>3. ChunkSizeTurn(st) = [p |-> AfterSize(p, v), data |-> d, stop |-> v = 0]
    BY <1>4, <2>1, <2>2 DEF ChunkSizeTurn, AfterSize
  <2> QED
    BY <1>6, <2>1, <2>3 DEF st, d, Looping
<1> QED
  BY <1>5, <1>6

\* A turn on the bytes of a chunk.
LEMMA DataTurn ==
    ASSUME NEW r, NEW body, NEW c \in Nat, NEW data \in Seq(Octet)
    PROVE  LET u == ChunkDataTurn(Looping(InChunk(r, body, c), data, FALSE))
               m == IF Len(data) <= c THEN Len(data) ELSE c
               x == body \o SubSeq(data, 1, m)
           IN  u = IF Len(data) < c + 2 THEN Looping(InChunk(r, x, c - m), Rest(data, m), TRUE)
                   ELSE Looping(InSizes(r, x, c), Rest(data, c + 2), FALSE)
<1> DEFINE p == InChunk(r, body, c)
           st == Looping(p, data, FALSE)
           m == IF Len(data) <= c THEN Len(data) ELSE c
           x == body \o SubSeq(data, 1, m)
           z == InChunk(r, x, c)
<1>1. st.p = p /\ st.data = data
  BY DEF Looping
<1>2. Min({Len(data), c}) = m
  <2>1. Len(data) \in Int /\ c \in Int
    OBVIOUS
  <2> QED
    BY <2>1, MinOfTwo
<1> HIDE DEF st, m
<1>3. p.chunk_size_ = c /\ p.temp_body_ = body
  BY ChunkFields
<1>4. PutBody(p, x) = z /\ z.chunk_size_ = c
  <2>1. PutBody(p, x) = z
    BY TakenBody, Zenon
  <2>2. z.chunk_size_ = c
    BY ChunkFields
  <2> QED
    BY <2>1, <2>2
<1>5. PutSize(z, c - m) = InChunk(r, x, c - m) /\ PutReading(z, TRUE) = InSizes(r, x, c)
  BY TakenSize, TakenAll, Zenon
<1> HIDE DEF p, z
<1> DEFINE read == [p EXCEPT !.temp_body_ = @ \o SubSeq(data, 1, m)]
<1>6. read = z
  BY <1>3, <1>4 DEF PutBody
<1> HIDE DEF read, x
<1>7. ChunkDataTurn(st) =
         IF Len(data) < c + 2
         THEN [p |-> [read EXCEPT !.chunk_size_ = @ - m], data |-> Rest(data, m), stop |-> TRUE]
         ELSE [p |-> [read EXCEPT !.reading_chunk_size_ = TRUE],
               data |-> Rest(data, c + 2), stop |-> FALSE]
  BY <1>1, <1>2, <1>3 DEF ChunkDataTurn, read
<1>8. /\ [read EXCEPT !.chunk_size_ = @ - m] = InChunk(r, x, c - m)
      /\ [read EXCEPT !.reading_chunk_size_ = TRUE] = InSizes(r, x, c)
  BY <1>4, <1>5, <1>6 DEF PutSize, PutReading
<1>9. ChunkDataTurn(st) = IF Len(data) < c + 2
                          THEN Looping(InChunk(r, x, c - m), Rest(data, m), TRUE)
                          ELSE Looping(InSizes(r, x, c), Rest(data, c + 2), FALSE)
  BY <1>7, <1>8 DEF Looping
<1> QED
  BY <1>9 DEF st, p, x, m

LEMMA ReadingFields ==
    \A r, body, c : InSizes(r, body, c).reading_chunk_size_ /\ ~InChunk(r, body, c).reading_chunk_size_
  BY DEF InSizes, InChunk, InRequest

\* Which turn it is.
LEMMA WhichTurn ==
    ASSUME NEW r, NEW body, NEW c, NEW data, data # <<>>
    PROVE  LET sizes == Looping(InSizes(r, body, c), data, FALSE)
               chunk == Looping(InChunk(r, body, c), data, FALSE)
           IN  ChunkTurn(sizes) = ChunkSizeTurn(sizes) /\ ChunkTurn(chunk) = ChunkDataTurn(chunk)
<1> DEFINE p == InSizes(r, body, c)
           q == InChunk(r, body, c)
           sizes == Looping(p, data, FALSE)
           chunk == Looping(q, data, FALSE)
<1>1. p.reading_chunk_size_ /\ ~q.reading_chunk_size_
  BY ReadingFields
<1> HIDE DEF p, q
<1>2. /\ sizes.p = p /\ sizes.data = data /\ ~sizes.stop
      /\ chunk.p = q /\ chunk.data = data /\ ~chunk.stop
  BY DEF Looping
<1> HIDE DEF sizes, chunk
<1>3. ChunkTurn(sizes) = ChunkSizeTurn(sizes)
  BY <1>1, <1>2 DEF ChunkTurn
<1>4. ChunkTurn(chunk) = ChunkDataTurn(chunk)
  BY <1>1, <1>2 DEF ChunkTurn
<1> QED
  BY <1>3, <1>4 DEF sizes, chunk, p, q

\* q, d and stop are what comes of a turn on data.
ChunkMoves(q, d, stop, data, later, r, next) ==
    /\ stop \in BOOLEAN /\ d \in Seq(Octet) /\ \E j \in 0..Len(data) : d = Rest(data, j)
    /\ AtChunks(q, r, d \o later, next) \/ (stop /\ AtDone(q, r, d \o later, next))
    /\ Len(d) = Len(data) => stop /\ Quiet(q, data)
ChunkTurnGood(p, data, later, r, next) ==
    \E q, d, stop : /\ ChunkTurn(Looping(p, data, FALSE)) = Looping(q, d, stop)
                    /\ ChunkMoves(q, d, stop, data, later, r, next)

LEMMA CutLength ==
    ASSUME NEW data \in Seq(Octet), NEW j \in 1..Len(data)
    PROVE  /\ Rest(data, j) \in Seq(Octet) /\ Len(Rest(data, j)) # Len(data)
           /\ Len(Rest(data, j)) < Len(data)
           /\ \E i \in 0..Len(data) : Rest(data, j) = Rest(data, i)
<1>1. j \in 0..Len(data)
  OBVIOUS
<1>2. Rest(data, j) \in Seq(Octet) /\ Len(Rest(data, j)) = Len(data) - j
  BY <1>1, RestFacts
<1>3. Len(Rest(data, j)) # Len(data) /\ Len(Rest(data, j)) < Len(data)
  BY <1>2
<1> QED
  BY <1>1, <1>2, <1>3

\* A turn that consumes something and leaves the parser in the chunks.
LEMMA ChunkAdvances ==
    ASSUME NEW q, NEW r, NEW next, NEW data \in Seq(Octet), NEW later, NEW j \in 1..Len(data),
           NEW stop \in BOOLEAN,
           \/ AtChunks(q, r, Rest(data, j) \o later, next)
           \/ stop /\ AtDone(q, r, Rest(data, j) \o later, next)
    PROVE  ChunkMoves(q, Rest(data, j), stop, data, later, r, next)
<1>1. /\ Rest(data, j) \in Seq(Octet) /\ Len(Rest(data, j)) # Len(data)
      /\ \E i \in 0..Len(data) : Rest(data, j) = Rest(data, i)
  BY CutLength
<1> QED
  BY <1>1, Zenon DEF ChunkMoves

\* Before a size line.
LEMMA SizeKeeps ==
    ASSUME NEW r, IsRequest(r), r.framing = "chunked", NEW next \in Seq(Octet),
           NEW data \in Seq(Octet), data # <<>>, NEW later \in Seq(Octet), NEW p,
           NEW i \in 0..Len(r.chunks), AtSize(p, r, i, data \o later, next)
    PROVE  ChunkTurnGood(p, data, later, r, next)
<1> DEFINE cs == r.chunks
           d == Rest(data, 3)
<1>1. cs \in Parts /\ Len(cs) \in Nat /\ i \in 0..Len(cs) /\ \A j \in 1..Len(cs) : cs[j] # <<>>
  BY RequestChunks
<1>2. PICK c \in Nat, read \in Seq(Octet) :
         p = InSizes(r, read, c) /\ read \o BytesFrom(cs, i) = r.body
  BY DEF AtSize, InSizes
<1>3. data \o later = ChunksFrom(cs, i) \o next
  BY DEF AtSize
<1>4. ChunkTurn(Looping(p, data, FALSE)) = ChunkSizeTurn(Looping(p, data, FALSE))
  BY <1>2, WhichTurn
<1>6. ASSUME FindCrlf(data) = 0 PROVE ChunkMoves(p, data, TRUE, data, later, r, next)
  <2>1. p.reading_chunk_size_ /\ p.state_ = "CHUNKED_BODY"
    BY <1>2 DEF InSizes, InRequest
  <2>2. Quiet(p, data)
    BY <1>6, <2>1 DEF Quiet
  <2>3. AtChunks(p, r, data \o later, next)
    BY DEF AtChunks
  <2>4. \E j \in 0..Len(data) : data = Rest(data, j)
    BY RestZero
  <2> QED
    BY <2>2, <2>3, <2>4, Zenon DEF ChunkMoves
<1> HIDE DEF cs
<1>7. CASE i < Len(cs)
  <2> DEFINE b == cs[i + 1]
             v == Len(b)
             more == ChunksFrom(cs, i + 1) \o next
             s == <<CR, LF>> \o more
             x == b \o s
  <2>1. /\ b \in Seq(Octet) /\ i + 1 \in 0..Len(cs) /\ i + 1 \in 1..Len(cs)
        /\ data \o later = Line("size", v) \o x
    <3>1. i + 1 \in 1..Len(cs)
      BY <1>1, <1>7
    <3> QED
      BY <1>1, <1>3, <1>7, <3>1, ChunksFromFacts
  <2>2. b # <<>>
    BY <1>1, <2>1
  <2>3. more \in Seq(Octet)
    BY <1>1, <2>1, ChunksFromFacts, Concat
  <2>11. BytesFrom(cs, i) = b \o BytesFrom(cs, i + 1)
    BY <1>1, <1>7, BytesFromFacts
  <2> HIDE DEF more, b
  <2>4. s \in Seq(Octet)
    BY <2>3, LineFacts, Concat
  <2> HIDE DEF s
  <2>5. x \in Seq(Octet)
    BY <2>1, <2>4, Concat
  <2>6. Line("size", v) \in Seq(Octet) /\ v \in Nat \ {0}
    BY <2>1, <2>2, ChunkFacts
  <2> HIDE DEF x, v
  <2>7. Splits(data, later, Line("size", v), x)
    BY <2>1, <2>5, <2>6 DEF Splits
  <2>8. CASE Len(data) < 3
    <3>1. FindCrlf(data) = 0 /\ ChunkSizeTurn(Looping(p, data, FALSE)) = Looping(p, data, TRUE)
      BY <2>6, <2>7, <2>8, SizeTurn, ZenonT(30)
    <3> QED
      BY <1>4, <1>6, <3>1 DEF ChunkTurnGood
  <2>9. CASE ~(Len(data) < 3)
    <3> DEFINE q == InChunk(r, read, v)
    <3>1. /\ 3 \in 1..Len(data) /\ d \in Seq(Octet) /\ d \o later = x
          /\ ChunkSizeTurn(Looping(p, data, FALSE)) = Looping(AfterSize(p, v), d, v = 0)
      BY <2>6, <2>7, <2>9, SizeTurn
    <3>2. AfterSize(p, v) = q
      BY <1>2, <2>6, SizeIsSet
    <3>3. (v = 0) = FALSE
      BY <2>6
    <3>4. ChunkTurn(Looping(p, data, FALSE)) = Looping(q, d, FALSE)
      BY <1>4, <3>1, <3>2, <3>3
    <3>5. AtChunk(q, r, i + 1, x, next)
      <4>1. read \o (b \o BytesFrom(cs, i + 1)) = r.body
        BY <1>2, <2>11
      <4> QED
        BY <1>2, <2>1, <4>1, Zenon DEF AtChunk, InChunk, cs, x, v, s, more
    <3> HIDE DEF q
    <3>6. AtChunks(q, r, d \o later, next)
      BY <2>1, <3>1, <3>5 DEF AtChunks, cs
    <3>7. ChunkMoves(q, d, FALSE, data, later, r, next)
      BY <3>1, <3>6, ChunkAdvances
    <3> QED
      BY <3>4, <3>7 DEF ChunkTurnGood
  <2> QED
    BY <2>8, <2>9
<1>8. CASE i = Len(cs)
  <2> DEFINE x == <<CR, LF>> \o next
  <2>1. data \o later = Line("size", 0) \o x
    BY <1>1, <1>3, <1>8, ChunksFromFacts
  <2>2. x \in Seq(Octet)
    BY LineFacts, Concat
  <2>3. Line("size", 0) \in Seq(Octet) /\ 0 \in Nat /\ 1 \in Nat \ {0}
    BY ChunkFacts
  <2> HIDE DEF x
  <2>4. Splits(data, later, Line("size", 0), x)
    BY <2>1, <2>2, <2>3 DEF Splits
  <2>5. CASE Len(data) < 3
    <3>1. FindCrlf(data) = 0 /\ ChunkSizeTurn(Looping(p, data, FALSE)) = Looping(p, data, TRUE)
      BY <2>3, <2>4, <2>5, SizeTurn, ZenonT(30)
    <3> QED
      BY <1>4, <1>6, <3>1 DEF ChunkTurnGood
  <2>6. CASE ~(Len(data) < 3)
    <3> DEFINE q == BehindChunks(r, read)
    <3>1. /\ 3 \in 1..Len(data) /\ d \in Seq(Octet) /\ d \o later = x
          /\ ChunkSizeTurn(Looping(p, data, FALSE)) = Looping(AfterSize(p, 0), d, 0 = 0)
      BY <2>3, <2>4, <2>6, SizeTurn, ZenonT(30)
    <3>2. AfterSize(p, 0) = q
      BY <1>2, <2>3, SizeIsSet
    <3>3. (0 = 0) = TRUE
      OBVIOUS
    <3>4. ChunkTurn(Looping(p, data, FALSE)) = Looping(q, d, TRUE)
      BY <1>4, <3>1, <3>2, <3>3
    <3>5. read = r.body
      <4>1. BytesFrom(cs, i) = <<>>
        BY <1>1, <1>8, BytesFromFacts
      <4> QED
        BY <1>2, <4>1, ConcatEmpty
    <3>6. "DONE" \in States /\ 0 \in Nat
      BY DEF States
    <3>7. Holds(q, "DONE", 0, 0, read, 0)
      BY <1>2, <3>6, InRequestHolds DEF BehindChunks
    <3> HIDE DEF q
    <3>8. x = AfterBody(r, next)
      BY DEF AfterBody, x
    <3>9. AtDone(q, r, x, next)
      BY <3>5, <3>7, <3>8 DEF AtDone, Holds
    <3>10. ChunkMoves(q, d, TRUE, data, later, r, next)
      BY <3>1, <3>9, ChunkAdvances
    <3> QED
      BY <3>4, <3>10 DEF ChunkTurnGood
  <2> QED
    BY <2>5, <2>6
<1>9. i < Len(cs) \/ i = Len(cs)
  BY <1>1
<1> QED
  BY <1>7, <1>8, <1>9, Zenon

\* A prefix and what comes after it are the whole.
LEMMA Glued ==
    ASSUME NEW s \in Seq(Octet), NEW n \in 0..Len(s)
    PROVE  SubSeq(s, 1, n) \o Rest(s, n) = s
<1> DEFINE m == Len(s) - n
<1>1. m \in 0..(Len(s) - n) /\ n + m = Len(s) /\ Len(s) \in Nat
  OBVIOUS
<1>2. Rest(s, n) \in Seq(Octet) /\ Len(Rest(s, n)) = m
  BY RestFacts
<1> HIDE DEF m
<1>3. SubSeq(s, 1, n) \o SubSeq(Rest(s, n), 1, m) = SubSeq(s, 1, n + m)
  BY <1>1, PrefixGrows
<1>4. SubSeq(Rest(s, n), 1, m) = Rest(s, n) /\ SubSeq(s, 1, Len(s)) = s
  BY <1>2, WholeSeq
<1> QED
  BY <1>1, <1>3, <1>4

\* In a chunk: p has read what comes before the bytes ahead, and after them, a CR
\* LF and what follows.
Chunking(p, r, read, ahead, i, todo, next) ==
    /\ read \in Seq(Octet) /\ ahead \in Seq(Octet)
    /\ p = InChunk(r, read, Len(ahead))
    /\ read \o (ahead \o BytesFrom(r.chunks, i)) = r.body
    /\ todo = ahead \o (<<CR, LF>> \o (ChunksFrom(r.chunks, i) \o next))

LEMMA ChunkingIs ==
    ASSUME NEW r, NEW next, NEW p, NEW i, NEW todo
    PROVE  AtChunk(p, r, i, todo, next)
              <=> \E read, ahead : Chunking(p, r, read, ahead, i, todo, next)
  BY Zenon DEF AtChunk, Chunking, InChunk

\* All of the data is of the chunk.
LEMMA ChunkPart ==
    ASSUME NEW r, IsRequest(r), r.framing = "chunked", NEW next \in Seq(Octet),
           NEW data \in Seq(Octet), data # <<>>, NEW later \in Seq(Octet), NEW p,
           NEW i \in 0..Len(r.chunks), NEW read, NEW ahead,
           Chunking(p, r, read, ahead, i, data \o later, next), Len(data) <= Len(ahead)
    PROVE  ChunkTurnGood(p, data, later, r, next)
<1> DEFINE more == ChunksFrom(r.chunks, i) \o next
           x == <<CR, LF>> \o more
           bytes == BytesFrom(r.chunks, i)
           n == Len(ahead)
           k == Len(data)
           left == Rest(ahead, k)
           d == Rest(data, k)
           y == read \o data
           q == InChunk(r, y, n - k)
           st == Looping(p, data, FALSE)
<1>1. /\ read \in Seq(Octet) /\ ahead \in Seq(Octet) /\ p = InChunk(r, read, n)
      /\ read \o (ahead \o bytes) = r.body /\ data \o later = ahead \o x
  BY DEF Chunking
<1>2. more \in Seq(Octet) /\ bytes \in Seq(Octet)
  BY RequestChunks, ChunksFromFacts, BytesFromFacts, Concat
<1>3. n \in Nat /\ k \in Nat /\ k >= 1 /\ k <= n /\ k \in 1..Len(data) /\ k \in 0..Len(ahead)
  BY <1>1
<1> HIDE DEF more, bytes
<1>4. x \in Seq(Octet)
  BY <1>2, LineFacts, Concat
<1> HIDE DEF x
<1>5. Splits(data, later, ahead, x)
  BY <1>1, <1>4 DEF Splits
<1>6. SubSeq(ahead, 1, k) = data /\ left \o x = later
  BY <1>5, PartlyEaten
<1>7. left \in Seq(Octet) /\ Len(left) = n - k /\ data \o left = ahead
  BY <1>1, <1>3, <1>6, RestFacts, Glued
<1>8. SubSeq(data, 1, k) = data /\ d = <<>>
  BY WholeSeq
<1>9. ChunkTurn(st) = Looping(q, d, TRUE)
  <2>1. ChunkTurn(st) = ChunkDataTurn(st)
    BY <1>1, WhichTurn
  <2>2. (IF k <= n THEN k ELSE n) = k /\ k < n + 2
    BY <1>3
  <2>3. ChunkDataTurn(st) = Looping(InChunk(r, read \o SubSeq(data, 1, k), n - k), Rest(data, k), TRUE)
    BY <1>1, <1>3, <2>2, DataTurn
  <2> QED
    BY <1>8, <2>1, <2>3
<1>10. y \in Seq(Octet) /\ y \o (left \o bytes) = r.body
  <2> HIDE DEF left
  <2>1. left \o bytes \in Seq(Octet) /\ y \in Seq(Octet)
    BY <1>1, <1>2, <1>7, Concat
  <2>2. y \o (left \o bytes) = read \o (data \o (left \o bytes))
    <3> DEFINE z == left \o bytes
    <3>1. Three(read, data, z)
      BY <1>1, <2>1 DEF Three
    <3> HIDE DEF z
    <3>2. (read \o data) \o z = read \o (data \o z)
      BY <3>1, Regroup, SMTT(30)
    <3> QED
      BY <3>2 DEF z
  <2>3. data \o (left \o bytes) = (data \o left) \o bytes
    <3>1. Three(data, left, bytes)
      BY <1>2, <1>7 DEF Three
    <3> QED
      BY <3>1, Regroup
  <2> QED
    BY <1>1, <1>7, <2>1, <2>2, <2>3
<1>11. d \o later = left \o x
  BY <1>6, <1>8, ConcatEmpty
<1> HIDE DEF left, d, y, k
<1>12. Chunking(q, r, y, left, i, d \o later, next)
  BY <1>7, <1>10, <1>11 DEF Chunking, x, more, bytes
<1> HIDE DEF q
<1>13. AtChunks(q, r, d \o later, next)
  BY <1>12, ChunkingIs DEF AtChunks
<1>14. ChunkMoves(q, d, TRUE, data, later, r, next)
  BY <1>3, <1>13, ChunkAdvances DEF d
<1> QED
  BY <1>9, <1>14 DEF ChunkTurnGood

\* The bytes of the chunk are all there.
LEMMA ChunkWhole ==
    ASSUME NEW r, IsRequest(r), r.framing = "chunked", NEW next \in Seq(Octet),
           NEW data \in Seq(Octet), data # <<>>, NEW later \in Seq(Octet), NEW p,
           NEW i \in 0..Len(r.chunks), NEW read, NEW ahead,
           Chunking(p, r, read, ahead, i, data \o later, next), ~(Len(data) <= Len(ahead))
    PROVE  ChunkTurnGood(p, data, later, r, next)
<1> DEFINE more == ChunksFrom(r.chunks, i) \o next
           end == <<CR, LF>>
           x == end \o more
           bytes == BytesFrom(r.chunks, i)
           n == Len(ahead)
           y == read \o ahead
           st == Looping(p, data, FALSE)
<1>1. /\ read \in Seq(Octet) /\ ahead \in Seq(Octet) /\ p = InChunk(r, read, n)
      /\ read \o (ahead \o bytes) = r.body /\ data \o later = ahead \o x
  BY DEF Chunking
<1>2. more \in Seq(Octet) /\ bytes \in Seq(Octet)
  BY RequestChunks, ChunksFromFacts, BytesFromFacts, Concat
<1>3. n \in Nat /\ Len(data) \in Nat /\ n < Len(data) /\ n \in 0..Len(data)
  BY <1>1
<1>4. end \in Seq(Octet) /\ Len(end) = 2 /\ <<>> \in Seq(Octet)
  BY LineFacts
<1> HIDE DEF more, bytes, end
<1>5. x \in Seq(Octet)
  BY <1>2, <1>4, Concat
<1>6. SubSeq(data, 1, n) = ahead /\ Rest(data, n) \in Seq(Octet) /\ Rest(data, n) \o later = x
  <2> HIDE DEF x
  <2>1. Splits(data, later, ahead, x)
    BY <1>1, <1>5 DEF Splits
  <2> QED
    BY <1>3, <2>1, Eaten
<1>7. y \in Seq(Octet) /\ y \o bytes = r.body
  <2>1. Three(read, ahead, bytes)
    BY <1>1, <1>2 DEF Three
  <2>2. (read \o ahead) \o bytes = read \o (ahead \o bytes)
    BY <2>1, Regroup
  <2> QED
    BY <1>1, <2>2, Concat
<1>8. ChunkTurn(st) = IF Len(data) < n + 2 THEN Looping(InChunk(r, y, 0), Rest(data, n), TRUE)
                      ELSE Looping(InSizes(r, y, n), Rest(data, n + 2), FALSE)
  <2>1. ChunkTurn(st) = ChunkDataTurn(st)
    BY <1>1, WhichTurn
  <2>2. (IF Len(data) <= n THEN Len(data) ELSE n) = n /\ n - n = 0
    BY <1>3
  <2>3. ChunkDataTurn(st) =
           IF Len(data) < n + 2
           THEN Looping(InChunk(r, read \o SubSeq(data, 1, n), n - n), Rest(data, n), TRUE)
           ELSE Looping(InSizes(r, read \o SubSeq(data, 1, n), n), Rest(data, n + 2), FALSE)
    <3> DEFINE m == IF Len(data) <= n THEN Len(data) ELSE n
               z == read \o SubSeq(data, 1, m)
    <3>1. ChunkDataTurn(st) =
             IF Len(data) < n + 2 THEN Looping(InChunk(r, z, n - m), Rest(data, m), TRUE)
             ELSE Looping(InSizes(r, z, n), Rest(data, n + 2), FALSE)
      <4>1. p = InChunk(r, read, n) /\ n \in Nat
        BY <1>1, <1>3
      <4> HIDE DEF n
      <4> QED
        BY <4>1, DataTurn, ZenonT(30)
    <3>2. m = n
      BY <2>2
    <3> HIDE DEF m, st
    <3> QED
      BY <3>1, <3>2
  <2> HIDE DEF st
  <2> QED
    BY <1>6, <2>1, <2>2, <2>3
<1>9. CASE Len(data) < n + 2
  <2> DEFINE q == InChunk(r, y, 0)
             d == Rest(data, n)
             none == <<>>
  <2>1. ChunkTurn(st) = Looping(q, d, TRUE)
    BY <1>8, <1>9
  <2>2. Chunking(q, r, y, none, i, d \o later, next)
    <3>1. none \in Seq(Octet) /\ Len(none) = 0 /\ none \o bytes = bytes /\ none \o x = x
      BY <1>2, <1>4, <1>5, ConcatEmpty
    <3> HIDE DEF none, y, d
    <3> QED
      BY <1>6, <1>7, <3>1 DEF Chunking, x, end, more, bytes, d
  <2>3. AtChunks(q, r, d \o later, next)
    <3> HIDE DEF q, none, y, d
    <3> QED
      BY <2>2, ChunkingIs DEF AtChunks
  <2>4. Len(d) = Len(data) - n /\ d \in Seq(Octet)
    BY <1>3, RestFacts
  <2>5. Len(d) = Len(data) => Quiet(q, data)
    <3>1. ~q.reading_chunk_size_ /\ q.state_ = "CHUNKED_BODY" /\ q.chunk_size_ = 0
      BY DEF InChunk, InRequest
    <3>2. Len(d) = Len(data) => Len(data) < 2
      BY <1>3, <1>9, <2>4
    <3> HIDE DEF q, d
    <3> QED
      BY <3>1, <3>2 DEF Quiet
  <2>6. ChunkMoves(q, d, TRUE, data, later, r, next)
    BY <1>3, <2>3, <2>4, <2>5, Zenon DEF ChunkMoves
  <2> QED
    BY <2>1, <2>6 DEF ChunkTurnGood
<1>10. CASE ~(Len(data) < n + 2)
  <2> DEFINE q == InSizes(r, y, n)
             d == Rest(data, n + 2)
             a == ahead \o end
  <2>1. ChunkTurn(st) = Looping(q, d, FALSE)
    BY <1>8, <1>10
  <2>2. a \in Seq(Octet) /\ Len(a) = n + 2 /\ data \o later = a \o more
    <3>1. Three(ahead, end, more)
      BY <1>1, <1>2, <1>4 DEF Three
    <3>2. (ahead \o end) \o more = ahead \o (end \o more)
      BY <3>1, Regroup, SMTT(30)
    <3>3. a \in Seq(Octet) /\ Len(a) = Len(ahead) + Len(end)
      BY <1>1, <1>4, Concat
    <3> QED
      BY <1>1, <1>4, <3>2, <3>3
  <2>3. n + 2 \in 1..Len(data) /\ n + 2 <= Len(data)
    BY <1>3, <1>10
  <2> HIDE DEF a
  <2>4. Rest(data, Len(a)) \o later = more
    <3>1. Splits(data, later, a, more) /\ Len(a) <= Len(data)
      BY <1>2, <2>2, <2>3 DEF Splits
    <3> QED
      BY <3>1, Eaten
  <2>5. d \o later = more
    BY <2>2, <2>4
  <2>6. AtSize(q, r, i, d \o later, next)
    <3> HIDE DEF y, d
    <3> QED
      BY <1>3, <1>7, <2>5 DEF AtSize, InSizes, more, bytes
  <2> HIDE DEF q
  <2>7. AtChunks(q, r, d \o later, next)
    BY <2>6 DEF AtChunks
  <2>8. ChunkMoves(q, d, FALSE, data, later, r, next)
    BY <2>3, <2>7, ChunkAdvances
  <2> QED
    BY <2>1, <2>8 DEF ChunkTurnGood
<1> QED
  BY <1>9, <1>10

\* A turn of parse_chunked_body(), wherever in the chunks.
LEMMA ChunkTurnKeeps ==
    ASSUME NEW r, IsRequest(r), NEW next \in Seq(Octet), NEW data \in Seq(Octet), data # <<>>,
           NEW later \in Seq(Octet), NEW p, AtChunks(p, r, data \o later, next)
    PROVE  ChunkTurnGood(p, data, later, r, next)
<1>1. r.framing = "chunked"
  BY DEF AtChunks
<1>2. PICK i \in 0..Len(r.chunks) :
         AtSize(p, r, i, data \o later, next) \/ AtChunk(p, r, i, data \o later, next)
  BY DEF AtChunks
<1>3. CASE AtSize(p, r, i, data \o later, next)
  BY <1>1, <1>3, SizeKeeps
<1>4. CASE AtChunk(p, r, i, data \o later, next)
  <2>1. PICK read, ahead : Chunking(p, r, read, ahead, i, data \o later, next)
    BY <1>4, ChunkingIs
  <2> QED
    BY <1>1, <2>1, ChunkPart, ChunkWhole
<1> QED
  BY <1>2, <1>3, <1>4

-----------------------------------------------------------------------------
(* The loops of the parser.                                                *)

\* Where the parser is shows in its state; its fields have their types.
Sound(p) == p \in Parser /\ p.body_read_ <= p.content_length_

LEMMA InsideSound ==
    ASSUME NEW r, IsRequest(r), NEW p, NEW todo, NEW next
    PROVE  /\ AtHeaders(p, r, todo, next) => Sound(p) /\ p.state_ = "HEADERS"
           /\ AtBody(p, r, todo, next) => Sound(p) /\ p.state_ = "BODY"
           /\ AtChunks(p, r, todo, next) => Sound(p) /\ p.state_ = "CHUNKED_BODY"
           /\ AtDone(p, r, todo, next) => Sound(p) /\ p.state_ = "DONE"
<1>1. r.body \in Seq(Octet) /\ Len(r.body) \in Nat
  BY RequestFacts
<1>2. "BODY" \in States /\ "CHUNKED_BODY" \in States /\ 0 \in Nat /\ 1 \in Nat
  BY DEF States
<1>3. AtHeaders(p, r, todo, next) => Sound(p) /\ p.state_ = "HEADERS"
  <2>1. Sound(Fresh) /\ Fresh.state_ = "HEADERS"
    BY FreshFields DEF Sound
  <2>2. Sound(Headed(r)) /\ Headed(r).state_ = "HEADERS"
    <3> DEFINE h == Headed(r)
    <3>1. h \in Parser /\ h.state_ = "HEADERS" /\ h.content_length_ = 0 /\ h.body_read_ = 0
      BY HeadedFields
    <3> HIDE DEF h
    <3> QED
      BY <3>1 DEF Sound, h
  <2>3. AtHeaders(p, r, todo, next) => p = Fresh \/ p = Headed(r)
    BY DEF AtHeaders, Fresh, Headed
  <2> QED
    BY <2>1, <2>2, <2>3, Zenon
<1>4. ASSUME AtBody(p, r, todo, next) PROVE Sound(p) /\ p.state_ = "BODY"
  <2> DEFINE cl == Len(r.body)
  <2>1. PICK n \in 0..cl : p = InRequest(r, "BODY", cl, n, SubSeq(r.body, 1, n), 0, TRUE)
    BY <1>4 DEF AtBody
  <2>2. SubSeq(r.body, 1, n) \in Seq(Octet) /\ n \in Nat /\ n <= cl
    BY <1>1, FirstFacts
  <2> HIDE DEF cl
  <2>3. Holds(p, "BODY", cl, n, SubSeq(r.body, 1, n), 0)
    BY <1>1, <1>2, <2>1, <2>2, InRequestHolds DEF cl
  <2> QED
    BY <2>2, <2>3 DEF Holds, Sound
<1>5. ASSUME AtChunks(p, r, todo, next) PROVE Sound(p) /\ p.state_ = "CHUNKED_BODY"
  <2>1. ASSUME NEW u \in Seq(Octet), NEW c \in Nat
        PROVE  /\ Sound(InSizes(r, u, c)) /\ InSizes(r, u, c).state_ = "CHUNKED_BODY"
               /\ Sound(InChunk(r, u, c)) /\ InChunk(r, u, c).state_ = "CHUNKED_BODY"
    <3>1. /\ Holds(InSizes(r, u, c), "CHUNKED_BODY", 0, 0, u, c)
          /\ Holds(InChunk(r, u, c), "CHUNKED_BODY", 0, 0, u, c)
      BY <1>2, <2>1, InRequestHolds DEF InSizes, InChunk
    <3> QED
      BY <3>1 DEF Holds, Sound
  <2>2. PICK i \in 0..Len(r.chunks) : AtSize(p, r, i, todo, next) \/ AtChunk(p, r, i, todo, next)
    BY <1>5 DEF AtChunks
  <2>3. CASE AtSize(p, r, i, todo, next)
    <3>1. PICK c \in Nat, u \in Seq(Octet) : p = InSizes(r, u, c)
      BY <2>3 DEF AtSize, InSizes
    <3> QED
      BY <2>1, <3>1
  <2>4. CASE AtChunk(p, r, i, todo, next)
    <3>1. PICK u \in Seq(Octet), ahead \in Seq(Octet) : p = InChunk(r, u, Len(ahead))
      BY <2>4 DEF AtChunk, InChunk
    <3>2. Len(ahead) \in Nat
      BY <3>1
    <3> QED
      BY <2>1, <3>1, <3>2
  <2> QED
    BY <2>2, <2>3, <2>4
<1>6. AtDone(p, r, todo, next) => Sound(p) /\ p.state_ = "DONE"
  BY DEF AtDone, Sound
<1> QED
  BY <1>3, <1>4, <1>5, <1>6

LEMMA CutTwice ==
    ASSUME NEW data \in Seq(Octet), NEW i \in 0..Len(data), NEW d, d = Rest(data, i),
           NEW j \in 0..Len(d)
    PROVE  i + j \in 0..Len(data) /\ Rest(d, j) = Rest(data, i + j)
<1>1. Len(d) = Len(data) - i
  BY RestFacts
<1>2. j \in 0..(Len(data) - i)
  BY <1>1
<1> QED
  BY <1>2, PrefixGrows

\* The states of the loop of parse_headers() that is shown data.
HeaderStates(data, later, r, next) ==
    {st \in [p : Parser, data : Seq(Octet)] :
        /\ \E j \in 0..Len(data) : st.data = Rest(data, j)
        /\ Inside(st.p, r, st.data \o later, next)}

LEMMA HeaderStep ==
    ASSUME NEW r, IsRequest(r), NEW next \in Seq(Octet), NEW data \in Seq(Octet),
           NEW later \in Seq(Octet), NEW st \in HeaderStates(data, later, r, next)
    PROVE  /\ HeaderTurn(st) \in HeaderStates(data, later, r, next)
           /\ Len(HeaderTurn(st).data) <= Len(st.data)
           /\ st.p.state_ = "HEADERS" /\ FindCrlf(st.data) # 0 =>
                 Len(HeaderTurn(st).data) < Len(st.data)
           /\ FindCrlf(st.data) = 0 => HeaderTurn(st) = st
<1> DEFINE p == st.p
           e == st.data
           X == HeaderStates(data, later, r, next)
<1>1. st = [p |-> p, data |-> e] /\ p \in Parser /\ e \in Seq(Octet)
  BY DEF HeaderStates
<1>2. PICK i \in 0..Len(data) : e = Rest(data, i)
  BY DEF HeaderStates
<1>3. Inside(p, r, e \o later, next)
  BY DEF HeaderStates
<1>4. Len(e) <= Len(e)
  BY <1>1
<1> HIDE DEF p, e
<1>5. CASE p.state_ # "HEADERS" \/ FindCrlf(e) = 0
  <2>1. HeaderTurn(st) = st
    BY <1>5 DEF HeaderTurn, p, e
  <2> QED
    BY <1>4, <1>5, <2>1, Zenon DEF p, e
<1>6. CASE p.state_ = "HEADERS" /\ FindCrlf(e) # 0
  <2>1. AtHeaders(p, r, e \o later, next)
    BY <1>3, <1>6, InsideSound DEF Inside
  <2>2. HeaderTurnGood(p, e, later, r, next)
    BY <1>1, <2>1, HeaderTurnKeeps
  <2>3. PICK q, d : HeaderTurn(st) = [p |-> q, data |-> d] /\ Moves(q, d, e, later, r, next)
    BY <1>1, <1>6, <2>2 DEF HeaderTurnGood
  <2>4. PICK j \in 1..Len(e) : d = Rest(e, j)
    BY <2>3 DEF Moves
  <2>5. d \in Seq(Octet) /\ Inside(q, r, d \o later, next)
    BY <2>3 DEF Moves
  <2>6. q \in Parser
    BY <2>5, InsideSound DEF Inside, Sound
  <2>7. j \in 0..Len(e)
    OBVIOUS
  <2>8. i + j \in 0..Len(data) /\ d = Rest(data, i + j)
    BY <1>2, <2>4, <2>7, CutTwice
  <2>9. Len(d) < Len(e)
    BY <1>1, <2>4, CutLength
  <2> DEFINE u == [p |-> q, data |-> d]
  <2>10. u \in [p : Parser, data : Seq(Octet)] /\ u.p = q /\ u.data = d
    BY <2>5, <2>6
  <2> HIDE DEF u
  <2>11. u \in X
    BY <2>5, <2>8, <2>10 DEF HeaderStates
  <2>12. HeaderTurn(st) = u
    BY <2>3 DEF u
  <2>13. Len(d) <= Len(e)
    BY <1>1, <2>5, <2>9
  <2>14. Len(HeaderTurn(st).data) < Len(st.data) /\ Len(HeaderTurn(st).data) <= Len(st.data)
    BY <2>9, <2>10, <2>12, <2>13 DEF e
  <2>15. FindCrlf(st.data) # 0
    BY <1>6 DEF e
  <2> QED
    BY <2>11, <2>12, <2>14, <2>15, Zenon
<1> QED
  BY <1>5, <1>6

\* w is the sequence of the states of the loop.
LEMMA HeaderLoop ==
    ASSUME NEW r, IsRequest(r), NEW next \in Seq(Octet), NEW data \in Seq(Octet),
           NEW later \in Seq(Octet), NEW p, Inside(p, r, data \o later, next)
    PROVE  \E w : /\ w[0] = [p |-> p, data |-> data]
                  /\ \A k \in 1..Len(data) : w[k] = HeaderTurn(w[k - 1])
                  /\ \A k \in 0..Len(data) : w[k] \in HeaderStates(data, later, r, next)
                  /\ ParseHeaders(p, data) = w[Len(data)]
<1> DEFINE N == Len(data)
           X == HeaderStates(data, later, r, next)
           st0 == [p |-> p, data |-> data]
           step == [k \in 1..N |-> [x \in X |-> HeaderTurn(x)]]
           w == CHOOSE f : f = [k \in 0..N |-> IF k = 0 THEN st0 ELSE HeaderTurn(f[k - 1])]
<1>1. N \in Nat
  OBVIOUS
<1>2. st0 \in X
  <2>1. p \in Parser
    BY InsideSound DEF Inside, Sound
  <2>2. \E j \in 0..Len(data) : data = Rest(data, j)
    BY RestZero
  <2>3. st0 \in [p : Parser, data : Seq(Octet)] /\ st0.p = p /\ st0.data = data
    BY <2>1
  <2> HIDE DEF st0
  <2> QED
    BY <2>2, <2>3 DEF HeaderStates
<1>3. ParseHeaders(p, data) = w[N]
  BY DEF ParseHeaders
<1> HIDE DEF N, st0
<1>4. \A x \in X : HeaderTurn(x) \in X
  BY HeaderStep
<1> HIDE DEF X
<1>5. step \in [1..N -> [X -> X]]
  BY <1>4
<1>6. PICK g : IsRecursion(g, N, X, st0, step)
  <2> HIDE DEF step
  <2> QED
    BY <1>1, <1>2, <1>5, RecursionExists
<1>7. g = [k \in 0..N |-> IF k = 0 THEN st0 ELSE HeaderTurn(g[k - 1])]
  <2>1. /\ g \in [0..N -> X] /\ g[0] = st0
        /\ \A k \in 1..N : g[k] = step[k][g[k - 1]]
    BY <1>6 DEF IsRecursion
  <2>2. \A k \in 1..N : k - 1 \in 0..N /\ g[k - 1] \in X
    BY <1>1, <2>1
  <2>3. \A k \in 1..N : g[k] = HeaderTurn(g[k - 1])
    BY <2>1, <2>2
  <2>4. \A k \in 0..N : g[k] = IF k = 0 THEN st0 ELSE HeaderTurn(g[k - 1])
    <3> TAKE k \in 0..N
    <3>1. k = 0 \/ k \in 1..N
      BY <1>1
    <3> QED
      BY <2>1, <2>3, <3>1
  <2> QED
    BY <2>1, <2>4
<1>8. w = [k \in 0..N |-> IF k = 0 THEN st0 ELSE HeaderTurn(w[k - 1])]
  BY <1>7
<1> HIDE DEF w
<1>9. w[0] = st0 /\ \A k \in 1..N : w[k] = HeaderTurn(w[k - 1])
  BY <1>1, <1>8
<1>10. \A k \in 0..N : w[k] \in X
  BY <1>1, <1>2, <1>4, <1>9, LoopInvariant
<1> QED
  BY <1>3, <1>9, <1>10 DEF N, st0, X

\* parse_headers(): when nothing is consumed there was no line.
LEMMA HeadersKeep ==
    ASSUME NEW r, IsRequest(r), NEW next \in Seq(Octet), NEW data \in Seq(Octet),
           NEW later \in Seq(Octet), NEW p, AtHeaders(p, r, data \o later, next)
    PROVE  \E q, d : /\ ParseHeaders(p, data) = [p |-> q, data |-> d]
                     /\ Reads(q, d, data, later, r, next)
<1> DEFINE N == Len(data)
           X == HeaderStates(data, later, r, next)
           st0 == [p |-> p, data |-> data]
           res == ParseHeaders(p, data)
<1>1. Inside(p, r, data \o later, next)
  BY DEF Inside
<1>2. PICK w : /\ w[0] = st0
               /\ \A k \in 1..N : w[k] = HeaderTurn(w[k - 1])
               /\ \A k \in 0..N : w[k] \in X
               /\ res = w[N]
  BY <1>1, HeaderLoop
<1>3. N \in Nat /\ N \in 0..N /\ 0 \in 0..N /\ p.state_ = "HEADERS"
  BY InsideSound
<1>4. res \in X
  BY <1>2, <1>3
<1>5. /\ res = [p |-> res.p, data |-> res.data] /\ res.data \in Seq(Octet)
      /\ \E j \in 0..Len(data) : res.data = Rest(data, j)
      /\ Inside(res.p, r, res.data \o later, next)
  BY <1>4 DEF HeaderStates
<1>6. st0.p = p /\ st0.data = data /\ st0 \in X
  BY <1>2, <1>3
<1>7. \A st \in X : /\ HeaderTurn(st) \in X /\ Len(HeaderTurn(st).data) <= Len(st.data)
                    /\ st.p.state_ = "HEADERS" /\ FindCrlf(st.data) # 0 =>
                          Len(HeaderTurn(st).data) < Len(st.data)
                    /\ FindCrlf(st.data) = 0 => HeaderTurn(st) = st
  BY HeaderStep
<1>13. \A st \in X : Len(st.data) \in Nat
  BY DEF HeaderStates
<1> HIDE DEF N, X, st0, res
<1>8. CASE FindCrlf(data) = 0
  <2>1. HeaderTurn(st0) = st0
    BY <1>6, <1>7, <1>8
  <2> DEFINE Z == {st0}
  <2>2. \A i \in 1..N : w[i - 1] \in Z => w[i] \in Z
    BY <1>2, <2>1
  <2>3. w[0] \in Z
    BY <1>2
  <2> HIDE DEF Z
  <2>4. \A i \in 0..N : w[i] \in Z
    BY <1>3, <2>2, <2>3, LoopInvariant
  <2>5. res.p = p
    BY <1>2, <1>3, <1>6, <2>4 DEF Z
  <2>6. Quiet(res.p, data)
    BY <1>3, <1>8, <2>5, QuietWithout
  <2>7. Reads(res.p, res.data, data, later, r, next)
    BY <1>5, <2>6, Zenon DEF Reads
  <2> QED
    BY <1>5, <2>7 DEF res
<1>9. CASE FindCrlf(data) # 0
  <2> DEFINE Y == {st \in X : Len(st.data) < N}
  <2>1. N >= 1
    <3>1. data # <<>>
      BY <1>9, NothingFound
    <3>2. Len(data) \in Nat /\ Len(data) # 0
      BY <3>1
    <3> QED
      BY <3>2 DEF N
  <2>2. w[1] \in Y
    <3>1. 1 \in 1..N /\ 1 - 1 = 0 /\ 1 \in 0..N
      BY <1>3, <2>1
    <3>2. w[1] = HeaderTurn(st0) /\ w[1] \in X
      BY <1>2, <3>1
    <3>3. Len(HeaderTurn(st0).data) < Len(st0.data)
      BY <1>3, <1>6, <1>7, <1>9
    <3>4. Len(st0.data) = N
      BY <1>6 DEF N
    <3> QED
      BY <3>2, <3>3, <3>4
  <2>3. \A st \in Y : HeaderTurn(st) \in Y
    <3> TAKE st \in Y
    <3>1. st \in X /\ Len(st.data) < N
      OBVIOUS
    <3> DEFINE a == Len(st.data)
               b == Len(HeaderTurn(st).data)
    <3>2. HeaderTurn(st) \in X /\ b <= a
      BY <1>7, <3>1
    <3>3. a \in Nat /\ b \in Nat
      BY <1>13, <3>1, <3>2
    <3>4. a < N
      BY <3>1
    <3> HIDE DEF a, b
    <3>5. b < N
      BY <1>3, <3>2, <3>3, <3>4
    <3> QED
      BY <3>2, <3>5 DEF b
  <2>4. \A i \in 1..N : w[i - 1] \in Y => w[i] \in Y
    BY <1>2, <2>3
  <2> HIDE DEF Y
  <2>5. w[N] \in Y
    BY <1>3, <2>1, <2>2, <2>4, LoopAfterFirst
  <2>6. Len(res.data) < N /\ Len(res.data) \in Nat
    BY <1>2, <1>13, <2>5 DEF Y
  <2>7. Len(res.data) # Len(data)
    BY <1>3, <2>6 DEF N
  <2>8. Reads(res.p, res.data, data, later, r, next)
    BY <1>5, <2>7, Zenon DEF Reads
  <2> QED
    BY <1>5, <2>8 DEF res
<1> QED
  BY <1>8, <1>9

\* The states of the loop of parse_chunked_body() that is shown data.
ChunkStates(data, later, r, next) ==
    {st \in [p : Parser, data : Seq(Octet), stop : BOOLEAN] :
        /\ \E j \in 0..Len(data) : st.data = Rest(data, j)
        /\ \/ AtChunks(st.p, r, st.data \o later, next)
           \/ st.stop /\ AtDone(st.p, r, st.data \o later, next)}

LEMMA ChunkStep ==
    ASSUME NEW r, IsRequest(r), NEW next \in Seq(Octet), NEW data \in Seq(Octet),
           NEW later \in Seq(Octet), NEW st \in ChunkStates(data, later, r, next)
    PROVE  /\ ChunkTurn(st) \in ChunkStates(data, later, r, next)
           /\ Len(ChunkTurn(st).data) <= Len(st.data)
           /\ st.stop => ChunkTurn(st) = st
           /\ ~st.stop /\ st.data # <<>> =>
                 \/ Len(ChunkTurn(st).data) < Len(st.data)
                 \/ ChunkTurn(st).stop /\ Quiet(ChunkTurn(st).p, st.data)
<1> DEFINE p == st.p
           e == st.data
           X == ChunkStates(data, later, r, next)
<1>1. /\ st = [p |-> p, data |-> e, stop |-> st.stop] /\ p \in Parser /\ e \in Seq(Octet)
      /\ st.stop \in BOOLEAN
  BY DEF ChunkStates
<1>2. PICK i \in 0..Len(data) : e = Rest(data, i)
  BY DEF ChunkStates
<1>3. AtChunks(p, r, e \o later, next) \/ (st.stop /\ AtDone(p, r, e \o later, next))
  BY DEF ChunkStates
<1>4. Len(e) <= Len(e)
  BY <1>1
<1> HIDE DEF p, e
<1>5. CASE st.stop \/ e = <<>>
  <2>1. ChunkTurn(st) = st
    BY <1>5 DEF ChunkTurn, e
  <2> QED
    BY <1>4, <1>5, <2>1, Zenon DEF p, e
<1>6. CASE ~st.stop /\ e # <<>>
  <2>1. AtChunks(p, r, e \o later, next)
    BY <1>3, <1>6
  <2>2. ChunkTurnGood(p, e, later, r, next)
    BY <1>1, <1>6, <2>1, ChunkTurnKeeps
  <2>3. st = Looping(p, e, FALSE)
    BY <1>1, <1>6 DEF Looping
  <2>4. PICK q, d, stop : /\ ChunkTurn(st) = Looping(q, d, stop)
                          /\ ChunkMoves(q, d, stop, e, later, r, next)
    BY <2>2, <2>3 DEF ChunkTurnGood
  <2>5. /\ d \in Seq(Octet) /\ stop \in BOOLEAN
        /\ AtChunks(q, r, d \o later, next) \/ (stop /\ AtDone(q, r, d \o later, next))
        /\ Len(d) = Len(e) => stop /\ Quiet(q, e)
    BY <2>4 DEF ChunkMoves
  <2>6. PICK j \in 0..Len(e) : d = Rest(e, j)
    BY <2>4 DEF ChunkMoves
  <2>7. q \in Parser
    BY <2>5, InsideSound DEF Sound
  <2>8. i + j \in 0..Len(data) /\ d = Rest(data, i + j)
    BY <1>2, <2>6, CutTwice
  <2>9. Len(d) = Len(e) - j
    BY <1>1, <2>6, RestFacts
  <2>10. Len(d) <= Len(e) /\ (Len(d) = Len(e) \/ Len(d) < Len(e))
    BY <1>1, <2>9
  <2> DEFINE u == Looping(q, d, stop)
  <2>11. /\ u \in [p : Parser, data : Seq(Octet), stop : BOOLEAN]
         /\ u.p = q /\ u.data = d /\ u.stop = stop
    BY <2>5, <2>7 DEF Looping
  <2> HIDE DEF u
  <2>12. u \in X
    BY <2>5, <2>8, <2>11 DEF ChunkStates
  <2>13. ChunkTurn(st) = u
    BY <2>4 DEF u
  <2>14. Len(u.data) < Len(e) \/ (u.stop /\ Quiet(u.p, e))
    BY <2>5, <2>10, <2>11
  <2>15. Len(u.data) <= Len(e)
    BY <2>10, <2>11
  <2> QED
    BY <1>6, <2>12, <2>13, <2>14, <2>15 DEF e
<1> QED
  BY <1>5, <1>6

\* w is the sequence of the states of the loop.
IsChunkLoop(w, p, data, later, r, next) ==
    /\ w[0] = Looping(p, data, FALSE)
    /\ \A k \in 1..Len(data) : w[k] = ChunkTurn(w[k - 1])
    /\ \A k \in 0..Len(data) : w[k] \in ChunkStates(data, later, r, next)
    /\ ParseChunkedBody(p, data) = w[Len(data)]

LEMMA ChunkLoop ==
    ASSUME NEW r, IsRequest(r), NEW next \in Seq(Octet), NEW data \in Seq(Octet),
           NEW later \in Seq(Octet), NEW p, AtChunks(p, r, data \o later, next)
    PROVE  \E w : IsChunkLoop(w, p, data, later, r, next)
<1> DEFINE N == Len(data)
           X == ChunkStates(data, later, r, next)
           st0 == Looping(p, data, FALSE)
           step == [k \in 1..N |-> [x \in X |-> ChunkTurn(x)]]
           w == CHOOSE f : f = [k \in 0..N |-> IF k = 0 THEN st0 ELSE ChunkTurn(f[k - 1])]
<1>1. N \in Nat
  OBVIOUS
<1>2. st0 \in X
  <2>1. p \in Parser
    BY InsideSound DEF Sound
  <2>2. \E j \in 0..Len(data) : data = Rest(data, j)
    BY RestZero
  <2>3. /\ st0 \in [p : Parser, data : Seq(Octet), stop : BOOLEAN]
        /\ st0.p = p /\ st0.data = data
    BY <2>1 DEF Looping
  <2> HIDE DEF st0
  <2> QED
    BY <2>2, <2>3 DEF ChunkStates
<1>3. ParseChunkedBody(p, data) = w[N]
  BY DEF ParseChunkedBody, Looping
<1> HIDE DEF N, st0
<1>4. \A x \in X : ChunkTurn(x) \in X
  BY ChunkStep
<1> HIDE DEF X
<1>5. step \in [1..N -> [X -> X]]
  BY <1>4
<1>6. PICK g : IsRecursion(g, N, X, st0, step)
  <2> HIDE DEF step
  <2> QED
    BY <1>1, <1>2, <1>5, RecursionExists
<1>7. g = [k \in 0..N |-> IF k = 0 THEN st0 ELSE ChunkTurn(g[k - 1])]
  <2>1. /\ g \in [0..N -> X] /\ g[0] = st0
        /\ \A k \in 1..N : g[k] = step[k][g[k - 1]]
    BY <1>6 DEF IsRecursion
  <2>2. \A k \in 1..N : k - 1 \in 0..N /\ g[k - 1] \in X
    BY <1>1, <2>1
  <2>3. \A k \in 1..N : g[k] = ChunkTurn(g[k - 1])
    BY <2>1, <2>2
  <2>4. \A k \in 0..N : g[k] = IF k = 0 THEN st0 ELSE ChunkTurn(g[k - 1])
    <3> TAKE k \in 0..N
    <3>1. k = 0 \/ k \in 1..N
      BY <1>1
    <3> QED
      BY <2>1, <2>3, <3>1
  <2> QED
    BY <2>1, <2>4
<1>8. w = [k \in 0..N |-> IF k = 0 THEN st0 ELSE ChunkTurn(w[k - 1])]
  BY <1>7
<1> HIDE DEF w
<1>9. w[0] = st0 /\ \A k \in 1..N : w[k] = ChunkTurn(w[k - 1])
  BY <1>1, <1>8
<1>10. \A k \in 0..N : w[k] \in X
  BY <1>1, <1>2, <1>4, <1>9, LoopInvariant
<1> QED
  BY <1>3, <1>9, <1>10 DEF IsChunkLoop, N, st0, X

\* parse_chunked_body(): when nothing is consumed there was too little.
LEMMA ChunksKeep ==
    ASSUME NEW r, IsRequest(r), NEW next \in Seq(Octet), NEW data \in Seq(Octet),
           NEW later \in Seq(Octet), NEW p, AtChunks(p, r, data \o later, next)
    PROVE  LET res == ParseChunkedBody(p, data)
           IN  Reads(res.p, res.data, data, later, r, next)
<1> DEFINE N == Len(data)
           X == ChunkStates(data, later, r, next)
           st0 == Looping(p, data, FALSE)
           res == ParseChunkedBody(p, data)
           Y == {st \in X : Len(st.data) < N \/ (st.stop /\ Quiet(st.p, data))}
<1>11. PICK w : IsChunkLoop(w, p, data, later, r, next)
  BY ChunkLoop
<1>1. /\ w[0] = st0
      /\ \A k \in 1..N : w[k] = ChunkTurn(w[k - 1])
      /\ \A k \in 0..N : w[k] \in X
      /\ res = w[N]
  BY <1>11 DEF IsChunkLoop
<1>2. N \in Nat /\ N \in 0..N /\ 0 \in 0..N
  OBVIOUS
<1>3. res \in X
  BY <1>1, <1>2
<1>4. /\ res.data \in Seq(Octet) /\ \E j \in 0..Len(data) : res.data = Rest(data, j)
      /\ Inside(res.p, r, res.data \o later, next)
  BY <1>3 DEF ChunkStates, Inside
<1>5. st0.p = p /\ st0.data = data /\ ~st0.stop
  BY DEF Looping
<1>6. st0 \in X
  BY <1>1, <1>2
<1>7. \A st \in X : /\ ChunkTurn(st) \in X
                    /\ Len(ChunkTurn(st).data) <= Len(st.data)
                    /\ st.stop => ChunkTurn(st) = st
                    /\ ~st.stop /\ st.data # <<>> =>
                          \/ Len(ChunkTurn(st).data) < Len(st.data)
                          \/ ChunkTurn(st).stop /\ Quiet(ChunkTurn(st).p, st.data)
  BY ChunkStep
<1>8. \A st \in X : Len(st.data) \in Nat
  BY DEF ChunkStates
<1> HIDE DEF N, X, st0, res
<1>9. CASE data = <<>>
  <2>1. N = 0
    BY <1>9 DEF N
  <2>2. res = st0
    BY <1>1, <2>1
  <2>3. res.p = p
    BY <1>5, <2>2
  <2>4. p.state_ = "CHUNKED_BODY"
    BY InsideSound
  <2>5. FindCrlf(data) = 0
    BY <1>9, NothingFound
  <2>6. Quiet(res.p, data)
    BY <1>9, <2>3, <2>4, <2>5 DEF Quiet
  <2>7. Reads(res.p, res.data, data, later, r, next)
    BY <1>4, <2>6, Zenon DEF Reads
  <2> QED
    BY <2>7 DEF res
<1>10. CASE data # <<>>
  <2>1. N >= 1
    <3>1. Len(data) \in Nat /\ Len(data) # 0
      BY <1>10
    <3> QED
      BY <3>1 DEF N
  <2>2. w[1] \in Y
    <3>1. 1 \in 1..N /\ 1 - 1 = 0 /\ 1 \in 0..N
      BY <1>2, <2>1
    <3>2. w[1] = ChunkTurn(st0) /\ w[1] \in X
      BY <1>1, <3>1
    <3>3. \/ Len(ChunkTurn(st0).data) < N
          \/ ChunkTurn(st0).stop /\ Quiet(ChunkTurn(st0).p, data)
      BY <1>5, <1>6, <1>7, <1>10 DEF N
    <3> QED
      BY <3>2, <3>3
  <2>3. \A st \in Y : ChunkTurn(st) \in Y
    <3> TAKE st \in Y
    <3>1. st \in X /\ (Len(st.data) < N \/ (st.stop /\ Quiet(st.p, data)))
      OBVIOUS
    <3>2. CASE st.stop
      BY <1>7, <3>1, <3>2
    <3>3. CASE ~st.stop
      <4> DEFINE a == Len(st.data)
                 b == Len(ChunkTurn(st).data)
      <4>1. ChunkTurn(st) \in X /\ b <= a
        BY <1>7, <3>1
      <4>2. a \in Nat /\ b \in Nat
        BY <1>8, <3>1, <4>1
      <4>3. a < N
        BY <3>1, <3>3
      <4> HIDE DEF a, b
      <4>4. b < N
        BY <1>2, <4>1, <4>2, <4>3
      <4> QED
        BY <4>1, <4>4 DEF b
    <3> QED
      BY <3>2, <3>3
  <2>4. \A i \in 1..N : w[i - 1] \in Y => w[i] \in Y
    BY <1>1, <2>3
  <2> HIDE DEF Y
  <2>5. w[N] \in Y
    BY <1>2, <2>1, <2>2, <2>4, LoopAfterFirst
  <2>6. Len(res.data) < N \/ Quiet(res.p, data)
    BY <1>1, <2>5 DEF Y
  <2>7. Len(res.data) \in Nat
    BY <1>3, <1>8
  <2>8. Len(res.data) = Len(data) => Quiet(res.p, data)
    BY <1>2, <2>6, <2>7 DEF N
  <2>9. Reads(res.p, res.data, data, later, r, next)
    BY <1>4, <2>8, Zenon DEF Reads
  <2> QED
    BY <2>9 DEF res
<1> QED
  BY <1>9, <1>10

LEMMA WhichFunction ==
    ASSUME NEW p, NEW data
    PROVE  /\ p.state_ = "START" => ParseState(p, data) = ParseRequestLine(p, data)
           /\ p.state_ = "HEADERS" => ParseState(p, data) = ParseHeaders(p, data)
           /\ p.state_ = "BODY" => ParseState(p, data) = ParseBody(p, data)
           /\ p.state_ = "CHUNKED_BODY" => ParseState(p, data) = ParseChunkedBody(p, data)
  BY DEF ParseState

LEMMA ReadsParsed ==
    ASSUME NEW rs, NEW k, NEW q, NEW d, NEW data, NEW later, k < Len(rs), rs[k + 1].ok,
           Reads(q, d, data, later, rs[k + 1], After(rs, k + 1))
    PROVE  Parsed(q, d, data, later, rs, k)
<1>1. /\ d \in Seq(Octet) /\ \E j \in 0..Len(data) : d = Rest(data, j)
      /\ Inside(q, rs[k + 1], d \o later, After(rs, k + 1))
      /\ Len(d) = Len(data) => q.state_ = "DONE" \/ Quiet(q, data)
  BY Zenon DEF Reads
<1>2. At(q, rs, k, d \o later)
  BY <1>1 DEF At, AtRequest
<1>3. Len(d) = Len(data) => q.state_ \in {"DONE", "ERROR"} \/ Quiet(q, data)
  BY <1>1
<1> QED
  BY <1>1, <1>2, <1>3, Zenon DEF Parsed

\* The switch of parse().
LEMMA ParseStateKeeps ==
    ASSUME NEW rs, IsStream(rs), NEW k \in 0..Len(rs), NEW data \in Seq(Octet),
           NEW later \in Seq(Octet), NEW p, At(p, rs, k, data \o later),
           p.state_ \notin {"DONE", "ERROR"}
    PROVE  LET res == ParseState(p, data)
           IN  Parsed(res.p, res.data, data, later, rs, k)
<1> DEFINE res == ParseState(p, data)
           todo == data \o later
<1>1. CASE AtStart(p, rs, k, todo)
  <2>1. p.state_ = "START"
    BY <1>1, NewFields DEF AtStart
  <2>2. PICK q, d : /\ ParseRequestLine(p, data) = [p |-> q, data |-> d]
                    /\ Parsed(q, d, data, later, rs, k)
    BY <1>1, RequestLineKeeps
  <2>3. ParseState(p, data) = [p |-> q, data |-> d]
    BY <2>1, <2>2, WhichFunction
  <2>4. res.p = q /\ res.data = d
    BY <2>3
  <2> HIDE DEF res
  <2> QED
    BY <2>2, <2>4 DEF res
<1>2. CASE AtError(p, rs, k)
  BY <1>2 DEF AtError
<1>3. CASE AtRequest(p, rs, k, todo)
  <2> DEFINE r == rs[k + 1]
             next == After(rs, k + 1)
  <2>1. k < Len(rs) /\ r.ok /\ Inside(p, r, todo, next)
    BY <1>3 DEF AtRequest
  <2>2. IsRequest(r) /\ next \in Seq(Octet)
    BY <2>1, AfterFacts
  <2>3. SUFFICES Reads(res.p, res.data, data, later, r, next)
    BY <2>1, ReadsParsed
  <2> HIDE DEF r, next
  <2>4. CASE AtHeaders(p, r, todo, next)
    <3>1. p.state_ = "HEADERS"
      BY <2>2, <2>4, InsideSound
    <3>2. PICK q, d : /\ ParseHeaders(p, data) = [p |-> q, data |-> d]
                      /\ Reads(q, d, data, later, r, next)
      BY <2>2, <2>4, HeadersKeep
    <3>3. res = [p |-> q, data |-> d]
      BY <3>1, <3>2, WhichFunction
    <3>4. res.p = q /\ res.data = d
      BY <3>3
    <3> HIDE DEF res
    <3> QED
      BY <3>2, <3>4
  <2>5. CASE AtBody(p, r, todo, next)
    <3>1. p.state_ = "BODY"
      BY <2>2, <2>5, InsideSound
    <3>2. PICK q, d : /\ ParseBody(p, data) = [p |-> q, data |-> d]
                      /\ Reads(q, d, data, later, r, next)
      BY <2>2, <2>5, BodyKeeps
    <3>3. res = [p |-> q, data |-> d]
      BY <3>1, <3>2, WhichFunction
    <3>4. res.p = q /\ res.data = d
      BY <3>3
    <3> HIDE DEF res
    <3> QED
      BY <3>2, <3>4
  <2>6. CASE AtChunks(p, r, todo, next)
    <3>1. p.state_ = "CHUNKED_BODY"
      BY <2>2, <2>6, InsideSound
    <3>2. res = ParseChunkedBody(p, data)
      BY <3>1, WhichFunction
    <3> DEFINE c == ParseChunkedBody(p, data)
    <3>3. Reads(c.p, c.data, data, later, r, next)
      BY <2>2, <2>6, ChunksKeep
    <3> HIDE DEF c, res
    <3> QED
      BY <3>2, <3>3 DEF c
  <2>7. CASE AtDone(p, r, todo, next)
    BY <2>7 DEF AtDone
  <2> QED
    BY <2>1, <2>4, <2>5, <2>6, <2>7 DEF Inside
<1> QED
  BY <1>1, <1>2, <1>3 DEF At

-----------------------------------------------------------------------------
(* The buffer.  Its methods are those the lemmas of BufferProofs are about. *)

LEMMA SameBlocks ==
    /\ Buf!EmptyBlock = BP!EmptyBlock /\ Buf!NewBuffer = BP!NewBuffer
    /\ \A m, n : Buf!Smaller(m, n) = BP!Smaller(m, n)
    /\ \A x : /\ Buf!Readable(x) = BP!Readable(x) /\ Buf!Writable(x) = BP!Writable(x)
              /\ Buf!ReadableBytes(x) = BP!ReadableBytes(x)
    /\ \A b : Buf!ReadBlock(b) = BP!ReadBlock(b) /\ Buf!WriteBlock(b) = BP!WriteBlock(b)
  BY DEF Buf!EmptyBlock, BP!EmptyBlock, Buf!NewBuffer, BP!NewBuffer, Buf!Smaller, BP!Smaller,
         Buf!Readable, BP!Readable, Buf!Writable, BP!Writable, Buf!ReadableBytes,
         BP!ReadableBytes, Buf!ReadBlock, BP!ReadBlock, Buf!WriteBlock, BP!WriteBlock

LEMMA SameContent == \A b : Buf!Content(b) = BP!Content(b)
  BY DEF Buf!Content, BP!Content, Buf!ReadableBytes, BP!ReadableBytes,
         Buf!FlattenSeq, BP!FlattenSeq

LEMMA SameWriting ==
    /\ \A b : Buf!BeginWrite(b) = BP!BeginWrite(b)
    /\ \A b, s : Buf!CopyIn(b, s) = BP!CopyIn(b, s)
<1>1. \A b : Buf!NextWriteBlock(b) = BP!NextWriteBlock(b)
  BY DEF Buf!NextWriteBlock, BP!NextWriteBlock, Buf!EmptyBlock, BP!EmptyBlock
<1>2. \A b : Buf!BeginWrite(b) = BP!BeginWrite(b)
  BY <1>1, SameBlocks DEF Buf!BeginWrite, BP!BeginWrite
<1>3. \A b, s : Buf!CopyIn(b, s) = BP!CopyIn(b, s)
  BY DEF Buf!CopyIn, BP!CopyIn
<1> QED
  BY <1>2, <1>3

LEMMA SameHasWritten == \A b, s : Buf!HasWritten(b, s) = BP!HasWritten(b, s)
  BY SameBlocks, SameWriting DEF Buf!HasWritten, BP!HasWritten

LEMMA SameAppend == \A b, s : Buf!AppendTo(b, s) = BP!AppendTo(b, s)
  BY SameWriting DEF Buf!AppendTo, BP!AppendTo

LEMMA SameConsume == \A b, n : Buf!Consume(b, n) = BP!Consume(b, n)
<1>1. \A b, n : Buf!ConsumeInBlock(b, n) = BP!ConsumeInBlock(b, n)
  BY DEF Buf!ConsumeInBlock, BP!ConsumeInBlock
<1>2. \A st : Buf!ConsumeStep(st) = BP!ConsumeStep(st)
  BY <1>1, SameBlocks DEF Buf!ConsumeStep, BP!ConsumeStep
<1>3. \A b, n : Buf!ConsumeLoop(b, n) = BP!ConsumeLoop(b, n)
  BY <1>2 DEF Buf!ConsumeLoop, BP!ConsumeLoop
<1> QED
  BY <1>1, <1>3, SameBlocks DEF Buf!Consume, BP!Consume

LEMMA SameRetrieve ==
    /\ \A b, n : Buf!RetrieveFrom(b, n) = BP!RetrieveFrom(b, n)
    /\ \A b : Buf!Compact(b) = BP!Compact(b)
<1>1. \A b : Buf!ResetAll(b) = BP!ResetAll(b)
  BY DEF Buf!ResetAll, BP!ResetAll, Buf!EmptyBlock, BP!EmptyBlock
<1>2. \A b, n : Buf!ReadN(b, n) = BP!ReadN(b, n)
  BY SameContent DEF Buf!ReadN, BP!ReadN
<1>3. \A b : Buf!Compact(b) = BP!Compact(b)
  BY <1>1, <1>2, SameAppend DEF Buf!Compact, BP!Compact
<1>4. \A b, n : Buf!RetrieveFrom(b, n) = BP!RetrieveFrom(b, n)
  BY <1>3, SameBlocks, SameConsume DEF Buf!RetrieveFrom, BP!RetrieveFrom
<1> QED
  BY <1>3, <1>4

LEMMA SamePeek == \A b : Buf!Peek(b) = BP!Peek(b)
  BY SameBlocks DEF Buf!Peek, BP!Peek

\* A buffer in order: its bytes, and what peek() shows of them.
LEMMA BufferFacts ==
    ASSUME NEW b \in BP!GoodBuffers
    PROVE  /\ Buf!Content(b) \in Seq(Octet) /\ b.size_ = Len(Buf!Content(b)) /\ b.size_ \in Nat
           /\ Buf!Peek(b) \in Seq(Octet)
           /\ \E x \in Seq(Octet) : Buf!Content(b) = Buf!Peek(b) \o x
           /\ Len(b.blocks) = 1 => Buf!Content(b) = Buf!Peek(b)
<1>1. BP!Good(b)
  BY DEF BP!GoodBuffers
<1>2. BP!Content(b) \in Seq(Octet)
  BY <1>1, BP!SizeBound
<1>3. b.size_ = Len(BP!Content(b))
  BY <1>1 DEF BP!Good
<1>4. b.size_ \in Nat
  BY <1>2, <1>3
<1>5. BP!Peek(b) \in Seq(Octet)
  BY BP!PeekGood
<1>6. \E x \in Seq(Octet) : BP!Content(b) = BP!Peek(b) \o x
  BY BP!PeekGood
<1>7. Len(b.blocks) = 1 => BP!Content(b) = BP!Peek(b)
  BY BP!PeekGood
<1> QED
  BY <1>2, <1>3, <1>4, <1>5, <1>6, <1>7, SameContent, SamePeek

\* The room on_message() reads into.
Room(b) == Buf!Writable(Buf!WriteBlock(Buf!BeginWrite(b)))

LEMMA BufferWritten ==
    ASSUME NEW b \in BP!GoodBuffers, NEW s \in Seq(Octet), Len(s) <= Room(b)
    PROVE  LET c == Buf!HasWritten(Buf!BeginWrite(b), s)
           IN  /\ c \in BP!GoodBuffers /\ Buf!Content(c) = Buf!Content(b) \o s
               /\ Len(b.blocks) = 1 /\ Len(b.blocks[1].data) < kBlockSize =>
                     /\ Len(c.blocks) = 1
                     /\ Len(c.blocks[1].data) = Len(b.blocks[1].data) + Len(s)
<1> DEFINE c == BP!HasWritten(BP!BeginWrite(b), s)
<1>1. Room(b) = BP!Writable(BP!WriteBlock(BP!BeginWrite(b)))
  BY SameBlocks, SameWriting DEF Room
<1>2. Len(s) <= BP!Writable(BP!WriteBlock(BP!BeginWrite(b)))
  BY <1>1
<1>3. c \in BP!GoodBuffers /\ BP!Content(c) = BP!Content(b) \o s
  BY <1>2, BP!ReadSocketGood
<1>4. ASSUME Len(b.blocks) = 1, Len(b.blocks[1].data) < kBlockSize
      PROVE  /\ Len(c.blocks) = 1
             /\ Len(c.blocks[1].data) = Len(b.blocks[1].data) + Len(s)
  BY <1>2, <1>4, BP!OneBlockWrite
<1>5. Buf!HasWritten(Buf!BeginWrite(b), s) = c
  BY SameHasWritten, SameWriting
<1> HIDE DEF c
<1> QED
  BY <1>3, <1>4, <1>5, SameContent

LEMMA RoomFacts ==
    ASSUME NEW b \in BP!GoodBuffers
    PROVE  Room(b) \in Nat
<1>1. BP!Good(b)
  BY DEF BP!GoodBuffers
<1>2. BP!Writable(BP!WriteBlock(BP!BeginWrite(b))) \in 1..kBlockSize
  BY <1>1, BP!BeginGood
<1>3. BP!Writable(BP!WriteBlock(BP!BeginWrite(b))) \in Nat
  BY <1>2
<1> QED
  BY <1>3, SameBlocks, SameWriting DEF Room

LEMMA BufferRetrieved ==
    ASSUME NEW b \in BP!GoodBuffers, NEW n \in Nat
    PROVE  LET c == Buf!RetrieveFrom(b, n)
           IN  /\ c \in BP!GoodBuffers /\ Buf!Content(c) = Rest(Buf!Content(b), n)
               /\ Len(b.blocks) = 1 =>
                     Len(c.blocks) = 1 /\ c.blocks[1].data = b.blocks[1].data
<1> DEFINE c == BP!RetrieveFrom(b, n)
<1>1. /\ c \in BP!GoodBuffers /\ Len(c.blocks) = Len(b.blocks)
      /\ BP!Content(c) = SubSeq(BP!Content(b), n + 1, Len(BP!Content(b)))
  BY BP!RetrieveGood
<1>2. ASSUME Len(b.blocks) = 1 PROVE c.blocks[1].data = b.blocks[1].data
  BY <1>2, BP!OneBlockRead
<1>3. Buf!RetrieveFrom(b, n) = c
  BY SameRetrieve
<1> HIDE DEF c
<1> QED
  BY <1>1, <1>2, <1>3, SameContent DEF Rest

-----------------------------------------------------------------------------
(* The steps.                                                              *)

LEMMA AtSound ==
    ASSUME NEW rs, IsStream(rs), NEW k \in 0..Len(rs), NEW p, NEW todo, At(p, rs, k, todo)
    PROVE  Sound(p)
<1>1. CASE AtStart(p, rs, k, todo)
  <2>1. 0 <= 0
    OBVIOUS
  <2> QED
    BY <1>1, <2>1, NewFields DEF AtStart, Sound
<1>2. CASE AtError(p, rs, k)
  BY <1>2 DEF AtError, Sound
<1>3. CASE AtRequest(p, rs, k, todo)
  <2>1. k < Len(rs) /\ Inside(p, rs[k + 1], todo, After(rs, k + 1))
    BY <1>3 DEF AtRequest
  <2>2. IsRequest(rs[k + 1])
    BY <2>1, AfterFacts
  <2> QED
    BY <2>1, <2>2, InsideSound DEF Inside
<1> QED
  BY <1>1, <1>2, <1>3 DEF At

\* What the invariant says of the types.
Ahead == Rest(Stream(requests), sent)

LEMMA InvFacts ==
    ASSUME ParserInv
    PROVE  /\ IsStream(requests) /\ Len(requests) \in Nat
           /\ Stream(requests) \in Seq(Octet) /\ Len(Stream(requests)) \in Nat
           /\ Ahead \in Seq(Octet) /\ Len(Ahead) = Len(Stream(requests)) - sent
           /\ Left = Buf!Content(read_buf) \o Ahead
           /\ Len(handled) \in 0..Len(requests) /\ Len(handled) \in Nat
           /\ Sound(parser)
<1>1. IsStream(requests)
  BY StreamTypes DEF ParserInv
<1>2. Stream(requests) \in Seq(Octet) /\ sent \in 0..Len(Stream(requests))
  BY <1>1, AllAhead DEF ParserInv
<1>3. Ahead \in Seq(Octet) /\ Len(Ahead) = Len(Stream(requests)) - sent
  BY <1>2, RestFacts DEF Ahead
<1>4. Len(requests) \in Nat
  BY <1>1 DEF IsStream
<1>5. Len(handled) \in 0..Len(requests) /\ Len(handled) \in Nat
  BY <1>4 DEF ParserInv, HandledOK
<1>6. Sound(parser)
  BY <1>1, <1>5, AtSound DEF ParserInv
<1>7. Len(Stream(requests)) \in Nat
  BY <1>2
<1> QED
  BY <1>1, <1>2, <1>3, <1>4, <1>5, <1>6, <1>7 DEF Left, Ahead

LEMMA InitHolds == Init => ParserInv
<1> SUFFICES ASSUME Init PROVE ParserInv
  OBVIOUS
<1>1. requests \in Streams /\ sent = 0 /\ read_buf = Buf!NewBuffer /\ parser = NewParser
      /\ phase = "wait" /\ closed = FALSE /\ progress = FALSE /\ handled = <<>>
  BY DEF Init
<1> DEFINE S == Stream(requests)
<1>2. IsStream(requests) /\ S \in Seq(Octet) /\ After(requests, 0) = S
  BY <1>1, StreamTypes, AllAhead
<1>3. Len(S) \in Nat /\ 0 \in 0..Len(S) /\ Len(requests) \in Nat
  BY <1>2 DEF IsStream
<1>4. /\ Buf!NewBuffer \in BP!GoodBuffers /\ Buf!Content(Buf!NewBuffer) = <<>>
      /\ Len(Buf!NewBuffer.blocks) = 1
  BY BP!NewGood, SameContent, SameBlocks
<1>5. Len(Buf!NewBuffer.blocks[1].data) = 0
  BY DEF Buf!NewBuffer, Buf!EmptyBlock
<1>6. Left = S
  BY <1>1, <1>2, <1>4, RestZero, ConcatEmpty DEF Left
<1>7. HandledOK
  BY <1>1, <1>3 DEF HandledOK
<1>8. At(parser, requests, Len(handled), Left)
  <2>1. Len(handled) = 0
    BY <1>1
  <2> QED
    BY <1>1, <1>2, <1>6, <2>1 DEF At, AtStart
<1>9. OneBlock
  <2>1. 0 <= 0
    OBVIOUS
  <2> QED
    BY <1>1, <1>4, <1>5, <2>1 DEF OneBlock
<1>10. PhaseOK
  <2>1. Buf!Peek(read_buf) = <<>>
    BY <1>1 DEF Buf!Peek, Buf!NewBuffer
  <2>2. parser.state_ = "START"
    BY <1>1, NewFields
  <2>3. Quiet(parser, <<>>)
    BY <2>2, NothingFound, QuietWithout
  <2> QED
    BY <1>1, <2>1, <2>2, <2>3 DEF PhaseOK
<1> QED
  BY <1>1, <1>3, <1>4, <1>7, <1>8, <1>9, <1>10 DEF ParserInv

LEMMA BlockData ==
    ASSUME NEW b \in BP!GoodBuffers, Len(b.blocks) = 1
    PROVE  Len(b.blocks[1].data) \in Nat
<1>1. 1 \in 1..Len(b.blocks)
  OBVIOUS
<1>2. BP!BlockOK(b.blocks[1])
  BY <1>1 DEF BP!GoodBuffers, BP!Good, BP!Chain
<1>3. b.blocks[1].data \in Seq(Octet)
  BY <1>2 DEF BP!BlockOK, BP!Block
<1> QED
  BY <1>3

\* What is there and what is ahead, when n bytes arrive.
LEMMA ArrivalKeeps ==
    ASSUME NEW s \in Seq(Octet), NEW m \in 0..Len(s), NEW c \in Seq(Octet),
           NEW n \in 0..Len(Rest(s, m))
    PROVE  /\ SubSeq(Rest(s, m), 1, n) \in Seq(Octet) /\ Len(SubSeq(Rest(s, m), 1, n)) = n
           /\ m + n \in 0..Len(s)
           /\ (c \o SubSeq(Rest(s, m), 1, n)) \o Rest(s, m + n) = c \o Rest(s, m)
<1> DEFINE left == Rest(s, m)
           a == SubSeq(left, 1, n)
           z == Rest(left, n)
<1>1. left \in Seq(Octet)
  BY RestFacts
<1>2. m + n \in 0..Len(s) /\ z = Rest(s, m + n)
  BY CutTwice
<1>3. a \in Seq(Octet) /\ Len(a) = n /\ z \in Seq(Octet)
  <2> HIDE DEF left
  <2> QED
    BY <1>1, FirstFacts, RestFacts DEF left
<1>4. a \o z = left
  <2>1. n \in 0..Len(left)
    OBVIOUS
  <2> HIDE DEF left
  <2>2. 1 \in 1..(Len(left) + 1) /\ n \in (1 - 1)..Len(left) /\ Len(left) \in n..Len(left)
    BY <1>1, <2>1
  <2>3. SubSeq(left, 1, n) \o SubSeq(left, n + 1, Len(left)) = SubSeq(left, 1, Len(left))
    BY <1>1, <2>2, ConcatAdjacentSubSeq
  <2>4. SubSeq(left, 1, Len(left)) = left
    BY <1>1, WholeSeq
  <2> QED
    BY <2>3, <2>4 DEF Rest
<1> HIDE DEF left, a, z
<1>5. (c \o a) \o z = c \o (a \o z)
  BY <1>3, Regroup, SMTT(30) DEF Three
<1> QED
  BY <1>2, <1>3, <1>4, <1>5 DEF left, a

LEMMA ReceiveKeeps ==
    ASSUME ParserInv, Receive
    PROVE  ParserInv'
<1> DEFINE S == Stream(requests)
           left == Rest(S, sent)
           b == read_buf
           c == Buf!Content(b)
<1>1. /\ IsStream(requests) /\ S \in Seq(Octet) /\ Len(S) \in Nat
      /\ left \in Seq(Octet) /\ Len(left) = Len(S) - sent /\ Left = c \o left
      /\ Sound(parser)
  BY InvFacts DEF Ahead
<1>2. requests \in Streams /\ sent \in 0..Len(S) /\ b \in BP!GoodBuffers
  BY DEF ParserInv
<1>3. /\ requests' = requests /\ parser' = parser /\ closed' = closed /\ handled' = handled
      /\ progress' = FALSE /\ phase' = "parse" /\ phase = "wait"
  BY DEF Receive
<1>4. PICK n \in 1..Min({Len(left), Room(b)}) :
         /\ read_buf' = Buf!HasWritten(Buf!BeginWrite(b), SubSeq(left, 1, n))
         /\ sent' = sent + n
  BY DEF Receive, Room
<1>5. c \in Seq(Octet) /\ Room(b) \in Nat
  BY <1>2, BufferFacts, RoomFacts
<1>6. /\ n \in 0..Len(left) /\ n <= Room(b) /\ n >= 1 /\ n \in Nat
      /\ n <= Len(S) - sent
  <2>1. Len(left) \in Nat
    BY <1>1
  <2> HIDE DEF left, b
  <2>2. Min({Len(left), Room(b)}) = IF Len(left) <= Room(b) THEN Len(left) ELSE Room(b)
    BY <1>5, <2>1, MinOfTwo
  <2> QED
    BY <1>1, <1>5, <2>1, <2>2
<1> DEFINE s == SubSeq(left, 1, n)
           d == Buf!HasWritten(Buf!BeginWrite(b), s)
<1>7. /\ s \in Seq(Octet) /\ Len(s) = n /\ sent + n \in 0..Len(S)
      /\ (c \o s) \o Rest(S, sent + n) = c \o left
  <2> HIDE DEF S, c
  <2>1. S \in Seq(Octet) /\ sent \in 0..Len(S) /\ c \in Seq(Octet) /\ n \in 0..Len(Rest(S, sent))
    BY <1>1, <1>2, <1>5, <1>6
  <2>2. /\ SubSeq(Rest(S, sent), 1, n) \in Seq(Octet) /\ Len(SubSeq(Rest(S, sent), 1, n)) = n
        /\ sent + n \in 0..Len(S)
        /\ (c \o SubSeq(Rest(S, sent), 1, n)) \o Rest(S, sent + n) = c \o Rest(S, sent)
    BY ONLY <2>1, ArrivalKeeps
  <2> QED
    BY <2>2
<1> HIDE DEF S, left, s, c, b
<1>8. /\ d \in BP!GoodBuffers /\ Buf!Content(d) = c \o s
      /\ Len(b.blocks) = 1 /\ Len(b.blocks[1].data) < kBlockSize =>
            Len(d.blocks) = 1 /\ Len(d.blocks[1].data) = Len(b.blocks[1].data) + n
  BY <1>2, <1>6, <1>7, BufferWritten DEF c
<1>9. read_buf' = d
  BY <1>4 DEF s
<1> HIDE DEF d
<1>10. Left' = Left
  <2>1. Left' = Buf!Content(read_buf') \o Rest(Stream(requests'), sent')
    BY DEF Left
  <2> QED
    BY <1>1, <1>3, <1>4, <1>7, <1>8, <1>9, <2>1 DEF S
<1>11. HandledOK'
  BY <1>3 DEF HandledOK, ParserInv
<1>12. At(parser, requests, Len(handled), Left)'
  BY <1>3, <1>10 DEF ParserInv
<1>13. PhaseOK'
  BY <1>3 DEF PhaseOK, ParserInv
<1>14. OneBlock'
  <2>1. SUFFICES ASSUME Len(S) <= kBlockSize
                 PROVE  Len(d.blocks) = 1 /\ Len(d.blocks[1].data) <= sent + n
    BY <1>3, <1>4, <1>9 DEF OneBlock, S
  <2>2. Len(b.blocks) = 1 /\ Len(b.blocks[1].data) <= sent
    BY <2>1 DEF ParserInv, OneBlock, S, b
  <2>3. Len(b.blocks[1].data) \in Nat
    BY <1>2, <2>2, BlockData
  <2> DEFINE x == Len(b.blocks[1].data)
  <2> HIDE DEF x
  <2>4. x \in Nat /\ x <= sent
    BY <2>2, <2>3 DEF x
  <2>5. x < kBlockSize /\ x + n <= sent + n
    BY <1>1, <1>2, <1>6, <2>1, <2>4
  <2> QED
    BY <1>8, <2>2, <2>5 DEF x
<1> QED
  BY <1>2, <1>3, <1>4, <1>7, <1>8, <1>9, <1>10, <1>11, <1>12, <1>13, <1>14 DEF ParserInv, S

\* What is there and what is ahead, when j of the bytes shown are consumed.
Departs(data, x, y, j) == Rest(data \o x, j) \o y = Rest(data, j) \o (x \o y)

LEMMA DepartureKeeps ==
    ASSUME NEW data \in Seq(Octet), NEW x \in Seq(Octet), NEW y \in Seq(Octet),
           NEW j \in 0..Len(data)
    PROVE  /\ x \o y \in Seq(Octet)
           /\ (data \o x) \o y = data \o (x \o y)
           /\ Departs(data, x, y, j)
<1>1. x \o y \in Seq(Octet)
  BY Concat
<1>2. (data \o x) \o y = data \o (x \o y)
  BY Regroup, SMTT(30) DEF Three
<1>3. Rest(data \o x, j) = Rest(data, j) \o x
  <2>1. BP!Dropped(data \o x, j) = BP!Dropped(data, j) \o x
    BY BP!DroppedConcat
  <2>2. \A s, n : BP!Dropped(s, n) = Rest(s, n)
    BY DEF BP!Dropped, Rest
  <2> QED
    BY <2>1, <2>2
<1>4. Rest(data, j) \in Seq(Octet)
  BY RestFacts
<1> DEFINE d == Rest(data, j)
<1> HIDE DEF d
<1>5. (d \o x) \o y = d \o (x \o y)
  BY <1>4, Regroup, SMTT(30) DEF Three, d
<1> QED
  BY <1>1, <1>2, <1>3, <1>5 DEF d, Departs

LEMMA ParseTurnKeeps ==
    ASSUME ParserInv, ParseTurn
    PROVE  ParserInv'
<1> DEFINE b == read_buf
           k == Len(handled)
           data == Buf!Peek(b)
           res == ParseState(parser, data)
           d == res.data
           consumed == Len(data) - Len(d)
<1>1. /\ IsStream(requests) /\ Ahead \in Seq(Octet) /\ Left = Buf!Content(b) \o Ahead
      /\ k \in 0..Len(requests)
  BY InvFacts
<1>2. /\ requests \in Streams /\ sent \in 0..Len(Stream(requests)) /\ b \in BP!GoodBuffers
      /\ At(parser, requests, k, Left) /\ PhaseOK
  BY DEF ParserInv
<1>3. /\ requests' = requests /\ sent' = sent /\ closed' = closed /\ handled' = handled
      /\ parser' = res.p /\ read_buf' = Buf!RetrieveFrom(b, consumed)
      /\ progress' = (progress \/ consumed > 0)
      /\ phase' = IF consumed = 0 THEN "returned" ELSE "parse"
      /\ parser.state_ \notin {"DONE", "ERROR"}
  BY DEF ParseTurn
<1>4. data \in Seq(Octet) /\ Len(data) \in Nat
  BY <1>2, BufferFacts
<1>5. PICK x \in Seq(Octet) : Buf!Content(b) = data \o x
  BY <1>2, BufferFacts
<1> DEFINE later == x \o Ahead
<1> HIDE DEF data, b, k
<1>6. later \in Seq(Octet) /\ Left = data \o later
  <2>1. 0 \in 0..Len(data)
    BY <1>4
  <2> QED
    BY <1>1, <1>4, <1>5, <2>1, DepartureKeeps, SMTT(30)
<1> HIDE DEF later
<1>7. Parsed(res.p, d, data, later, requests, k)
  BY <1>1, <1>2, <1>3, <1>4, <1>6, ParseStateKeeps
<1> HIDE DEF res
<1>8. PICK j \in 0..Len(data) : d = Rest(data, j)
  BY <1>7 DEF Parsed
<1>9. /\ At(res.p, requests, k, d \o later) /\ d \in Seq(Octet)
      /\ Len(d) = Len(data) => res.p.state_ \in {"DONE", "ERROR"} \/ Quiet(res.p, data)
  BY <1>7 DEF Parsed
<1>10. consumed = j /\ j \in Nat
  <2>1. Len(d) = Len(data) - j
    BY <1>4, <1>8, RestFacts
  <2> QED
    BY <1>4, <2>1
<1> HIDE DEF d, consumed
<1> DEFINE c == Buf!RetrieveFrom(b, consumed)
<1>11. /\ c \in BP!GoodBuffers /\ Buf!Content(c) = Rest(data \o x, j)
       /\ Len(b.blocks) = 1 => Len(c.blocks) = 1 /\ c.blocks[1].data = b.blocks[1].data
  BY <1>2, <1>5, <1>10, BufferRetrieved
<1>12. Left' = d \o later
  <2>1. Left' = Buf!Content(c) \o Ahead
    BY <1>3 DEF Left, Ahead
  <2>2. Rest(data \o x, j) \o Ahead = Rest(data, j) \o (x \o Ahead)
    <3> DEFINE y == Ahead
    <3>1. y \in Seq(Octet) /\ x \in Seq(Octet) /\ j \in 0..Len(data)
      BY <1>1, <1>5, <1>8
    <3> HIDE DEF y
    <3>2. Departs(data, x, y, j)
      BY <1>4, <3>1, DepartureKeeps
    <3> QED
      BY <3>2 DEF y, Departs
  <2> QED
    BY <1>8, <1>11, <2>1, <2>2 DEF later
<1>13. At(parser, requests, Len(handled), Left)'
  BY <1>3, <1>9, <1>12 DEF k
<1>14. HandledOK'
  BY <1>3 DEF HandledOK, ParserInv
<1>15. PhaseOK'
  <2>1. phase' \in {"wait", "parse", "returned", "closed"} /\ phase' # "wait"
        /\ progress' \in BOOLEAN /\ closed' \in BOOLEAN
    BY <1>2, <1>3 DEF PhaseOK
  <2>2. ASSUME phase' = "returned", parser'.state_ \notin {"DONE", "ERROR"}
        PROVE  Quiet(parser', Buf!Peek(read_buf'))
    <3>1. consumed = 0
      BY <1>3, <2>2
    <3>2. c = b
      BY <3>1 DEF Buf!RetrieveFrom
    <3>3. Buf!Peek(read_buf') = data
      BY <1>3, <3>2 DEF data
    <3>4. Len(d) = Len(data)
      BY <1>4, <1>9, <3>1 DEF consumed
    <3> QED
      BY <1>3, <1>9, <2>2, <3>3, <3>4
  <2> QED
    BY <2>1, <2>2 DEF PhaseOK
<1>16. OneBlock'
  BY <1>3, <1>11 DEF OneBlock, ParserInv, b
<1> QED
  BY <1>2, <1>3, <1>11, <1>13, <1>14, <1>15, <1>16 DEF ParserInv

\* With nothing to read there is nothing to do.
LEMMA QuietEmpty == \A p : Quiet(p, <<>>)
  BY NothingFound, Zenon DEF Quiet

LEMMA PeekEmpty == \A b : b.size_ = 0 => Buf!Peek(b) = <<>>
  BY DEF Buf!Peek

LEMMA ParseReturnsKeeps ==
    ASSUME ParserInv, ParseReturns
    PROVE  ParserInv'
<1>1. /\ UNCHANGED <<requests, sent, read_buf, parser, progress, closed, handled>>
      /\ phase' = "returned"
      /\ read_buf.size_ = 0 \/ parser.state_ \in {"DONE", "ERROR"}
  BY DEF ParseReturns
<1>2. PhaseOK'
  <2>1. parser.state_ \notin {"DONE", "ERROR"} => Quiet(parser, Buf!Peek(read_buf))
    BY <1>1, QuietEmpty, PeekEmpty
  <2> QED
    BY <1>1, <2>1 DEF PhaseOK, ParserInv
<1> QED
  BY <1>1, <1>2 DEF ParserInv, HandledOK, Left, OneBlock

LEMMA ParseErrorKeeps ==
    ASSUME ParserInv, ParseError
    PROVE  ParserInv'
<1>1. /\ UNCHANGED <<requests, sent, read_buf, parser, progress, handled>>
      /\ closed' = TRUE /\ phase' = "closed"
  BY DEF ParseError, Return
<1>2. PhaseOK'
  BY <1>1 DEF PhaseOK, ParserInv
<1> QED
  BY <1>1, <1>2 DEF ParserInv, HandledOK, Left, OneBlock

LEMMA NeedMoreKeeps ==
    ASSUME ParserInv, NeedMore
    PROVE  ParserInv'
<1>1. /\ UNCHANGED <<requests, sent, read_buf, parser, closed, handled>>
      /\ progress' = FALSE /\ phase' \in {"parse", Return}
      /\ parser.state_ \notin {"DONE", "ERROR"} /\ phase = "returned"
  BY DEF NeedMore
<1>2. phase' \in {"parse", "closed"} \/ (phase' = "wait" /\ ~closed')
  BY <1>1 DEF Return
<1>3. PhaseOK'
  BY <1>1, <1>2 DEF PhaseOK, ParserInv
<1> QED
  BY <1>1, <1>3 DEF ParserInv, HandledOK, Left, OneBlock

\* The body of a parsed request is its body.
LEMMA DoneAt ==
    ASSUME NEW rs, IsStream(rs), NEW k \in 0..Len(rs), NEW p, NEW todo,
           At(p, rs, k, todo), p.state_ = "DONE"
    PROVE  /\ k < Len(rs) /\ rs[k + 1].ok /\ p.temp_body_ = rs[k + 1].body
           /\ todo = AfterBody(rs[k + 1], After(rs, k + 1))
<1>1. ~AtStart(p, rs, k, todo) /\ ~AtError(p, rs, k)
  BY NewFields DEF AtStart, AtError
<1>2. k < Len(rs) /\ rs[k + 1].ok /\ Inside(p, rs[k + 1], todo, After(rs, k + 1))
  BY <1>1 DEF At, AtRequest
<1>3. IsRequest(rs[k + 1])
  BY <1>2, AfterFacts
<1>4. AtDone(p, rs[k + 1], todo, After(rs, k + 1))
  BY <1>2, <1>3, InsideSound DEF Inside
<1> QED
  BY <1>2, <1>4 DEF AtDone

LEMMA RequestDoneKeeps ==
    ASSUME ParserInv, RequestDone
    PROVE  ParserInv'
<1> DEFINE k == Len(handled)
           r == requests[k + 1]
<1>1. /\ UNCHANGED <<requests, sent, read_buf>> /\ parser' = NewParser
      /\ handled' = Append(handled, parser.temp_body_) /\ closed' \in {closed, TRUE}
      /\ progress' = FALSE /\ parser.state_ = "DONE"
      /\ phase' = IF read_buf.size_ > 0 THEN "parse" ELSE Return
  BY DEF RequestDone, SendResponse
<1>2. IsStream(requests) /\ k \in 0..Len(requests) /\ k \in Nat
  BY InvFacts
<1>3. /\ k < Len(requests) /\ r.ok /\ parser.temp_body_ = r.body
      /\ Left = AfterBody(r, After(requests, k + 1))
  BY <1>1, <1>2, DoneAt DEF ParserInv
<1>4. r.body \in Seq(Octet)
  BY <1>2, <1>3, AfterFacts, RequestFacts
<1>5. /\ handled \in Seq(Seq(Octet)) /\ k <= Len(requests)
      /\ \A i \in 1..k : requests[i].ok /\ handled[i] = requests[i].body
  BY DEF ParserInv, HandledOK
<1> HIDE DEF r
<1>6. /\ handled' \in Seq(Seq(Octet)) /\ Len(handled') = k + 1 /\ handled'[k + 1] = r.body
      /\ \A i \in 1..k : handled'[i] = handled[i]
  <2>1. handled' = Append(handled, r.body)
    BY <1>1, <1>3
  <2> QED
    BY <1>4, <1>5, <2>1
<1> HIDE DEF k
<1>7. HandledOK'
  <2>1. k + 1 <= Len(requests)
    BY <1>2, <1>3
  <2>2. ASSUME NEW i \in 1..(k + 1) PROVE requests[i].ok /\ handled'[i] = requests[i].body
    <3>1. i \in 1..k \/ i = k + 1
      BY <1>2
    <3> QED
      BY <1>3, <1>5, <1>6, <3>1 DEF r
  <2> QED
    BY <1>1, <1>6, <2>1, <2>2 DEF HandledOK
<1>8. Left' = Left
  BY <1>1 DEF Left
<1>9. At(parser, requests, Len(handled), Left)'
  <2>1. k + 1 # 0
    BY <1>2
  <2>2. AtStart(NewParser, requests, k + 1, Left)
    BY <1>3, <2>1 DEF AtStart, r
  <2> QED
    BY <1>1, <1>6, <1>8, <2>2 DEF At
<1>10. PhaseOK'
  <2>1. read_buf.size_ \in Nat
    BY BufferFacts DEF ParserInv
  <2>2. closed' \in BOOLEAN
    BY <1>1 DEF ParserInv, PhaseOK
  <2>3. \/ phase' \in {"parse", "closed"}
        \/ phase' = "wait" /\ ~closed' /\ read_buf.size_ = 0
    BY <1>1, <2>1 DEF Return
  <2>4. parser'.state_ = "START"
    BY <1>1, NewFields
  <2>5. phase' = "wait" => Quiet(parser', Buf!Peek(read_buf'))
    BY <1>1, <2>3, QuietEmpty, PeekEmpty
  <2> QED
    BY <1>1, <2>2, <2>3, <2>4, <2>5 DEF PhaseOK
<1> QED
  BY <1>1, <1>7, <1>9, <1>10 DEF ParserInv, OneBlock

\* The invariant.
LEMMA ParserInvariant == Spec => []ParserInv
<1>1. ASSUME ParserInv, [Next]_vars
      PROVE  ParserInv'
  <2>1. CASE Receive
    BY <1>1, <2>1, ReceiveKeeps
  <2>2. CASE ParseTurn
    BY <1>1, <2>2, ParseTurnKeeps
  <2>3. CASE ParseReturns
    BY <1>1, <2>3, ParseReturnsKeeps
  <2>4. CASE ParseError
    BY <1>1, <2>4, ParseErrorKeeps
  <2>5. CASE RequestDone
    BY <1>1, <2>5, RequestDoneKeeps
  <2>6. CASE NeedMore
    BY <1>1, <2>6, NeedMoreKeeps
  <2>7. CASE UNCHANGED vars
    BY <1>1, <2>7 DEF vars, ParserInv, HandledOK, PhaseOK, Left, OneBlock
  <2> QED
    BY <1>1, <2>1, <2>2, <2>3, <2>4, <2>5, <2>6, <2>7 DEF Next
<1> QED
  BY <1>1, InitHolds, PTL DEF Spec

-----------------------------------------------------------------------------
(* What the invariant says.                                                *)

\* TypeOK: the parser, however its input is cut, never reads more of a body than
\* was announced and never takes more from a chunk than the chunk has.
THEOREM ParserTypeCorrect == Spec => []TypeOK
<1>1. ASSUME ParserInv PROVE TypeOK
  <2>1. sent \in 0..Len(Stream(requests)) /\ PhaseOK
    BY <1>1 DEF ParserInv
  <2>2. parser \in Parser /\ parser.body_read_ <= parser.content_length_
    BY <1>1, InvFacts DEF Sound
  <2>3. /\ parser.state_ \in States /\ parser.content_length_ \in Nat
        /\ parser.body_read_ \in Nat /\ parser.chunk_size_ \in Nat
    BY <2>2 DEF Parser
  <2>4. parser.body_read_ \in 0..parser.content_length_
    BY <2>2, <2>3
  <2> QED
    BY <2>1, <2>3, <2>4 DEF TypeOK, PhaseOK, States
<1> QED
  BY <1>1, ParserInvariant, PTL

LEMMA ErrorAt ==
    ASSUME NEW rs, IsStream(rs), NEW k \in 0..Len(rs), NEW p, NEW todo,
           At(p, rs, k, todo), p.state_ = "ERROR"
    PROVE  (k < Len(rs) /\ ~rs[k + 1].ok) \/ (k > 0 /\ rs[k].framing = "chunked")
<1>1. ~AtStart(p, rs, k, todo)
  BY NewFields DEF AtStart
<1>2. ~AtRequest(p, rs, k, todo)
  <2> SUFFICES ASSUME AtRequest(p, rs, k, todo) PROVE FALSE
    OBVIOUS
  <2>1. k < Len(rs) /\ Inside(p, rs[k + 1], todo, After(rs, k + 1))
    BY DEF AtRequest
  <2>2. IsRequest(rs[k + 1])
    BY <2>1, AfterFacts
  <2> QED
    BY <2>1, <2>2, InsideSound DEF Inside
<1> QED
  BY <1>1, <1>2 DEF At, AtError

\* ClosedForCause: the parser reports an error only of a client that sent a
\* malformed request or a chunked body, and a closed connection is not read.
THEOREM ErrorsHaveACause == Spec => []ClosedForCause
<1>1. ASSUME ParserInv PROVE ClosedForCause
  <2> DEFINE k == Len(handled)
  <2>1. IsStream(requests) /\ k \in 0..Len(requests) /\ Len(requests) \in Nat
    BY <1>1, InvFacts
  <2>2. DOMAIN requests = 1..Len(requests)
    BY <2>1 DEF IsStream
  <2>3. ASSUME parser.state_ = "ERROR"
        PROVE  \E i \in DOMAIN requests : ~requests[i].ok \/ requests[i].framing = "chunked"
    <3>1. \/ k < Len(requests) /\ ~requests[k + 1].ok
          \/ k > 0 /\ requests[k].framing = "chunked"
      BY <1>1, <2>1, <2>3, ErrorAt DEF ParserInv
    <3> HIDE DEF k
    <3>2. (k < Len(requests) => k + 1 \in 1..Len(requests)) /\ (k > 0 => k \in 1..Len(requests))
      BY <2>1
    <3> QED
      BY <2>2, <3>1, <3>2
  <2>4. phase = "wait" => ~closed
    BY <1>1 DEF ParserInv, PhaseOK
  <2> QED
    BY <2>3, <2>4 DEF ClosedForCause
<1> QED
  BY <1>1, ParserInvariant, PTL

\* The requests before the first malformed one.
LEMMA OwedFacts ==
    ASSUME NEW rs, IsStream(rs), NEW k \in 0..Len(rs), \A i \in 1..k : rs[i].ok
    PROVE  /\ Owed(rs) \in Seq(Seq(Octet)) /\ k <= Len(Owed(rs))
           /\ \A i \in 1..Len(Owed(rs)) : Owed(rs)[i] = rs[i].body
           /\ k = Len(rs) \/ (k < Len(rs) /\ ~rs[k + 1].ok) => Len(Owed(rs)) = k
<1> DEFINE bad == {i \in 1..Len(rs) : ~rs[i].ok}
           n == IF bad = {} THEN Len(rs) ELSE Min(bad) - 1
           o == [i \in 1..n |-> rs[i].body]
<1>1. Owed(rs) = o
  BY DEF Owed
<1>2. Len(rs) \in Nat /\ \A i \in 1..Len(rs) : rs[i].body \in Seq(Octet)
  BY RequestFacts DEF IsStream
<1>3. bad \subseteq Nat /\ \A i \in bad : i \in 1..Len(rs) /\ i > k /\ ~rs[i].ok
  BY <1>2
<1>4. \A i \in 1..Len(rs) : ~rs[i].ok => i \in bad
  OBVIOUS
<1> HIDE DEF bad
<1>5. n \in k..Len(rs) /\ (k < Len(rs) /\ ~rs[k + 1].ok => n = k)
  <2>1. CASE bad = {}
    <3>1. k < Len(rs) => rs[k + 1].ok
      <4>1. k < Len(rs) => k + 1 \in 1..Len(rs)
        BY <1>2
      <4> QED
        BY <1>4, <2>1, <4>1
    <3>2. n = Len(rs)
      BY <2>1
    <3> HIDE DEF n
    <3> QED
      BY <1>2, <3>1, <3>2
  <2>2. CASE bad # {}
    <3>1. PICK x \in bad : \A y \in bad : ~(y < x)
      BY <1>3, <2>2, LeastElement
    <3>2. bad \in SUBSET Int /\ \A y \in bad : x <= y
      BY <1>3, <3>1
    <3>3. n = x - 1
      BY <2>2, <3>2, MinIs
    <3>4. x \in 1..Len(rs) /\ x > k
      BY <1>3
    <3>5. k < Len(rs) /\ ~rs[k + 1].ok => x <= k + 1
      <4>1. k < Len(rs) => k + 1 \in 1..Len(rs)
        BY <1>2
      <4> QED
        BY <1>4, <3>2, <4>1
    <3> HIDE DEF n
    <3> QED
      BY <1>2, <3>3, <3>4, <3>5
  <2> QED
    BY <2>1, <2>2
<1>6. n \in Nat /\ k <= n /\ (k = Len(rs) => n = k)
  <2> HIDE DEF n
  <2> QED
    BY <1>2, <1>5
<1> HIDE DEF n
<1>7. o \in Seq(Seq(Octet)) /\ Len(o) = n /\ \A i \in 1..n : o[i] = rs[i].body
  <2>1. o \in [1..n -> Seq(Octet)]
    BY <1>2, <1>5, <1>6
  <2> QED
    BY <1>6, <2>1
<1> HIDE DEF o
<1> QED
  BY <1>1, <1>5, <1>6, <1>7

\* HandledIsPrefix: what the handlers were given is the beginning of what the
\* client sent, wherever its bytes are cut into pieces and blocks.
THEOREM HandledIsWhatWasSent == Spec => []HandledIsPrefix
<1>1. ASSUME ParserInv PROVE HandledIsPrefix
  <2> DEFINE k == Len(handled)
             o == Owed(requests)
  <2>1. IsStream(requests) /\ k \in 0..Len(requests) /\ k \in Nat
    BY <1>1, InvFacts
  <2>2. /\ handled \in Seq(Seq(Octet))
        /\ \A i \in 1..k : requests[i].ok /\ handled[i] = requests[i].body
    BY <1>1 DEF ParserInv, HandledOK
  <2>3. /\ o \in Seq(Seq(Octet)) /\ k <= Len(o) /\ Len(o) \in Nat
        /\ \A i \in 1..Len(o) : o[i] = requests[i].body
    BY <2>1, <2>2, OwedFacts
  <2> HIDE DEF o
  <2>4. SubSeq(handled, 1, k) = SubSeq(o, 1, k)
    <3>1. k \in 0..Len(o) /\ k \in 0..Len(handled)
      BY <2>1, <2>3
    <3>2. /\ SubSeq(handled, 1, k) \in Seq(Seq(Octet)) /\ Len(SubSeq(handled, 1, k)) = k
          /\ \A i \in 1..k : SubSeq(handled, 1, k)[i] = handled[i]
      BY <2>2, <3>1, FirstFacts
    <3>3. /\ SubSeq(o, 1, k) \in Seq(Seq(Octet)) /\ Len(SubSeq(o, 1, k)) = k
          /\ \A i \in 1..k : SubSeq(o, 1, k)[i] = o[i]
      BY <2>3, <3>1, FirstFacts
    <3>4. \A i \in 1..k : i \in 1..Len(o) /\ handled[i] = o[i]
      <4>1. \A i \in 1..k : i \in 1..Len(o)
        BY <2>1, <2>3
      <4> QED
        BY <2>2, <2>3, <4>1
    <3> QED
      BY <3>2, <3>3, <3>4, SameElements
  <2> QED
    BY <2>3, <2>4 DEF HandledIsPrefix, IsPrefix, o
<1> QED
  BY <1>1, ParserInvariant, PTL

\* A line or a CR LF that has arrived is found.
LEMMA LineFound ==
    ASSUME NEW t \in Texts \ {"CR"}, NEW v \in Nat, NEW x \in Seq(Octet), NEW todo,
           todo = Line(t, v) \o x
    PROVE  FindCrlf(todo) # 0
<1> DEFINE a == Line(t, v)
<1>1. a \in Seq(Octet) /\ Len(a) = 3 /\ <<>> \in Seq(Octet)
  BY LineFacts
<1> HIDE DEF a
<1>2. todo \in Seq(Octet) /\ Len(todo) = Len(a) + Len(x)
  BY <1>1, Concat DEF a
<1>3. todo \o <<>> = todo
  BY <1>2, ConcatEmpty
<1>4. Splits(todo, <<>>, a, x)
  BY <1>1, <1>2, <1>3 DEF Splits, a
<1>5. ~(Len(todo) < 3)
  BY <1>1, <1>2
<1>6. FindCrlf(todo) = 2
  BY <1>4, <1>5, LineArrives DEF a
<1> QED
  BY <1>6

LEMMA BlankFound ==
    ASSUME NEW x \in Seq(Octet), NEW todo, todo = <<CR, LF>> \o x
    PROVE  FindCrlf(todo) # 0 /\ Len(todo) >= 2 /\ todo # <<>>
<1> DEFINE a == <<CR, LF>>
<1>1. a \in Seq(Octet) /\ Len(a) = 2 /\ <<>> \in Seq(Octet)
  BY LineFacts
<1> HIDE DEF a
<1>2. todo \in Seq(Octet) /\ Len(todo) = Len(a) + Len(x)
  BY <1>1, Concat DEF a
<1>3. todo \o <<>> = todo
  BY <1>2, ConcatEmpty
<1>4. Splits(todo, <<>>, a, x)
  BY <1>1, <1>2, <1>3 DEF Splits, a
<1>5. ~(Len(todo) < 2) /\ Len(todo) >= 2 /\ todo # <<>>
  BY <1>1, <1>2
<1>6. FindCrlf(todo) = 1
  BY <1>4, <1>5, BlankArrives DEF a
<1> QED
  BY <1>5, <1>6

\* In a request all of which has arrived there is something to do.
LEMMA NeverStuck ==
    ASSUME NEW r, IsRequest(r), NEW next \in Seq(Octet), NEW p, NEW todo,
           Inside(p, r, todo, next), Quiet(p, todo), p.state_ # "DONE",
           ~(r.framing = "length" /\ r.body = <<>>)
    PROVE  FALSE
<1> DEFINE body == r.body
<1>1. body \in Seq(Octet) /\ Len(body) \in Nat
  BY RequestFacts
<1>2. /\ BodyPart(r, next) \in Seq(Octet) /\ BlankPart(r, next) \in Seq(Octet)
      /\ FramePart(r, next) \in Seq(Octet)
  BY PartTypes
<1>3. /\ "Connection: close" \in Texts \ {"CR"} /\ "Content-Length" \in Texts \ {"CR"}
      /\ "Transfer-Encoding: chunked" \in Texts \ {"CR"} /\ "size" \in Texts \ {"CR"}
      /\ 0 \in Nat /\ 1 \in Nat
  BY DEF Texts
<1>4. CASE AtHeaders(p, r, todo, next)
  <2>1. FindCrlf(todo) = 0
    BY <1>4, InsideSound DEF Quiet
  <2>2. todo # BlankPart(r, next)
    BY <1>2, <2>1, BlankFound DEF BlankPart
  <2>3. todo # FramePart(r, next)
    BY <1>1, <1>2, <1>3, <2>1, <2>2, LineFound DEF FramePart
  <2>4. todo # HeaderPart(r, next)
    BY <1>2, <1>3, <2>1, <2>3, LineFound DEF HeaderPart
  <2> QED
    BY <1>4, <2>2, <2>3, <2>4 DEF AtHeaders
<1>5. CASE AtBody(p, r, todo, next)
  <2>1. p.state_ = "BODY"
    BY <1>5, InsideSound
  <2>2. todo = <<>>
    BY <2>1 DEF Quiet
  <2>3. PICK n \in 0..Len(body) : /\ todo = Rest(body, n) \o next
                                  /\ Len(body) > 0 => n < Len(body)
    BY <1>5 DEF AtBody
  <2>4. body # <<>>
    BY <1>5 DEF AtBody
  <2> HIDE DEF body
  <2>5. Len(body) > 0
    BY <1>1, <2>4
  <2>6. Rest(body, n) \in Seq(Octet) /\ Len(Rest(body, n)) = Len(body) - n
    BY <1>1, <2>3, RestFacts
  <2>7. Rest(body, n) = <<>>
    BY <2>2, <2>3, <2>6, BothEmpty
  <2>8. Len(Rest(body, n)) = 0
    BY <2>7
  <2> QED
    BY <1>1, <2>3, <2>5, <2>6, <2>8
<1>6. CASE AtChunks(p, r, todo, next)
  <2>1. p.state_ = "CHUNKED_BODY"
    BY <1>6, InsideSound
  <2> DEFINE cs == r.chunks
  <2>2. PICK i \in 0..Len(cs) : AtSize(p, r, i, todo, next) \/ AtChunk(p, r, i, todo, next)
    BY <1>6 DEF AtChunks
  <2>5. cs \in Parts /\ Len(cs) \in Nat
    BY RequestChunks
  <2>3. CASE AtSize(p, r, i, todo, next)
    <3>1. p.reading_chunk_size_ /\ todo = ChunksFrom(cs, i) \o next
      <4>1. PICK c \in Nat, u \in Seq(Octet) : p = InSizes(r, u, c)
        BY <2>3 DEF AtSize, InSizes
      <4> QED
        BY <2>3, <4>1, ReadingFields DEF AtSize
    <3>2. FindCrlf(todo) = 0
      BY <2>1, <3>1 DEF Quiet
    <3> HIDE DEF cs
    <3>3. CASE i < Len(cs)
      <4> DEFINE b == cs[i + 1]
                 more == ChunksFrom(cs, i + 1) \o next
                 s == <<CR, LF>> \o more
                 x == b \o s
      <4>1. /\ b \in Seq(Octet) /\ i + 1 \in 0..Len(cs)
            /\ ChunksFrom(cs, i) \o next = Line("size", Len(b)) \o x
        BY <2>5, <3>3, ChunksFromFacts
      <4>2. more \in Seq(Octet) /\ Len(b) \in Nat
        <5>1. ChunksFrom(cs, i + 1) \in Seq(Octet)
          BY <2>5, <4>1, ChunksFromFacts
        <5>2. Len(b) \in Nat
          BY <4>1
        <5> QED
          BY <5>1, <5>2, Concat
      <4> HIDE DEF b, more
      <4>3. s \in Seq(Octet)
        BY <4>2, LineFacts, Concat
      <4> HIDE DEF s
      <4>4. x \in Seq(Octet)
        BY <4>1, <4>3, Concat
      <4> HIDE DEF x
      <4> QED
        BY <1>3, <3>1, <3>2, <4>1, <4>2, <4>4, LineFound
    <3>4. CASE ~(i < Len(cs))
      <4> DEFINE x == <<CR, LF>> \o next
      <4>1. i = Len(cs)
        BY <2>5, <3>4
      <4>2. ChunksFrom(cs, i) \o next = Line("size", 0) \o x
        BY <2>5, <4>1, ChunksFromFacts
      <4>3. x \in Seq(Octet)
        BY LineFacts, Concat
      <4> HIDE DEF x
      <4> QED
        BY <1>3, <3>1, <3>2, <4>2, <4>3, LineFound
    <3> QED
      BY <3>3, <3>4
  <2>4. CASE AtChunk(p, r, i, todo, next)
    <3> DEFINE more == ChunksFrom(cs, i) \o next
               s == <<CR, LF>> \o more
    <3>1. PICK u \in Seq(Octet), ahead \in Seq(Octet) :
             p = InChunk(r, u, Len(ahead)) /\ todo = ahead \o s
      BY <2>4 DEF AtChunk, InChunk
    <3>2. ~p.reading_chunk_size_ /\ p.chunk_size_ = Len(ahead)
      BY <3>1, ReadingFields, ChunkFields
    <3>3. todo = <<>> \/ (Len(ahead) = 0 /\ Len(todo) < 2)
      BY <2>1, <3>2 DEF Quiet
    <3>4. more \in Seq(Octet)
      BY <2>5, ChunksFromFacts, Concat
    <3> HIDE DEF more
    <3>5. Len(s) >= 2 /\ s \in Seq(Octet)
      <4>1. Len(s) >= 2
        BY <3>4, BlankFound
      <4> QED
        BY <3>4, <4>1, LineFacts, Concat
    <3> HIDE DEF s
    <3>6. Len(todo) = Len(ahead) + Len(s) /\ todo \in Seq(Octet)
      BY <3>1, <3>5, Concat
    <3>7. Len(ahead) \in Nat
      BY <3>1
    <3>8. Len(todo) >= 2
      BY <3>5, <3>6, <3>7
    <3> QED
      BY <3>3, <3>6, <3>8
  <2> QED
    BY <2>2, <2>3, <2>4
<1>7. CASE AtDone(p, r, todo, next)
  BY <1>7 DEF AtDone
<1> QED
  BY <1>4, <1>5, <1>6, <1>7 DEF Inside

\* A parser that waits with nothing more to come is behind the last request.
LEMMA AllParsed ==
    ASSUME NEW rs, IsStream(rs), NEW k \in 0..Len(rs), NEW p, NEW todo, At(p, rs, k, todo),
           p.state_ \notin {"DONE", "ERROR"}, Quiet(p, todo), Simple(rs)
    PROVE  k = Len(rs)
<1> SUFFICES ASSUME k < Len(rs) PROVE FALSE
  BY DEF IsStream
<1>1. /\ IsRequest(rs[k + 1]) /\ After(rs, k + 1) \in Seq(Octet)
      /\ After(rs, k) = Opening(rs[k + 1]) \o HeaderPart(rs[k + 1], After(rs, k + 1))
  BY AfterFacts
<1>2. DOMAIN rs = 1..Len(rs) /\ Len(rs) \in Nat /\ k \in Nat /\ k + 1 \in DOMAIN rs
  BY DEF IsStream
<1>3. CASE AtStart(p, rs, k, todo)
  <2>1. FindCrlf(todo) = 0
    BY <1>3, NewFields DEF AtStart, Quiet
  <2>2. todo = After(rs, k)
    <3>1. k # 0 => k \in DOMAIN rs /\ k # Len(rs)
      <4> DEFINE n == Len(rs)
      <4>1. n \in Nat /\ k \in Nat /\ k < n
        BY <1>2
      <4> HIDE DEF n
      <4>2. k # 0 => k \in 1..n /\ k # n
        BY <4>1
      <4> QED
        BY <1>2, <4>2 DEF n
    <3>2. k # 0 => rs[k].framing # "chunked"
      BY <3>1 DEF Simple
    <3> QED
      BY <1>3, <3>2 DEF AtStart, AfterBody
  <2> DEFINE x == HeaderPart(rs[k + 1], After(rs, k + 1))
             t == IF rs[k + 1].ok THEN "request" ELSE "junk"
  <2>3. x \in Seq(Octet)
    BY <1>1, PartTypes
  <2>4. t \in Texts \ {"CR"} /\ 0 \in Nat
    BY DEF Texts
  <2>5. todo = Line(t, 0) \o x
    BY <1>1, <2>2 DEF Opening
  <2> HIDE DEF x, t
  <2> QED
    BY <2>1, <2>3, <2>4, <2>5, LineFound
<1>4. CASE AtError(p, rs, k)
  BY <1>4 DEF AtError
<1>5. CASE AtRequest(p, rs, k, todo)
  <2>1. ~(rs[k + 1].framing = "length" /\ rs[k + 1].body = <<>>)
    BY <1>2 DEF Simple
  <2>2. Inside(p, rs[k + 1], todo, After(rs, k + 1))
    BY <1>5 DEF AtRequest
  <2> QED
    BY <1>1, <2>1, <2>2, NeverStuck
<1> QED
  BY <1>3, <1>4, <1>5 DEF At

\* SimpleStreamsAreHandled: within the limits Simple names, every request whose
\* bytes have arrived has been handled when on_message() returns, and every one
\* before a malformed one when the connection is closed for it.
THEOREM SimpleStreamsComplete == Spec => []SimpleStreamsAreHandled
<1>1. ASSUME ParserInv PROVE SimpleStreamsAreHandled
  <2> DEFINE k == Len(handled)
             rs == requests
             o == Owed(rs)
  <2>1. SUFFICES ASSUME Simple(rs), \/ phase = "wait" /\ sent = Len(Stream(rs))
                                    \/ phase = "closed" /\ parser.state_ = "ERROR"
                 PROVE  handled = o
    BY DEF SimpleStreamsAreHandled, AllHandled
  <2>2. /\ IsStream(rs) /\ k \in 0..Len(rs) /\ k \in Nat /\ Len(rs) \in Nat
        /\ Stream(rs) \in Seq(Octet) /\ Left = Buf!Content(read_buf) \o Ahead
    BY <1>1, InvFacts
  <2>3. /\ handled \in Seq(Seq(Octet))
        /\ \A i \in 1..k : rs[i].ok /\ handled[i] = rs[i].body
    BY <1>1 DEF ParserInv, HandledOK
  <2>4. At(parser, rs, k, Left) /\ read_buf \in BP!GoodBuffers /\ PhaseOK /\ OneBlock
    BY <1>1 DEF ParserInv
  <2>5. k = Len(rs) \/ (k < Len(rs) /\ ~rs[k + 1].ok)
    <3>1. CASE phase = "wait" /\ sent = Len(Stream(rs))
      <4>1. Ahead = <<>>
        BY <2>2, <3>1, WholeSeq DEF Ahead
      <4>2. Left = Buf!Content(read_buf)
        BY <2>2, <2>4, <4>1, BufferFacts, ConcatEmpty
      <4>3. Len(read_buf.blocks) = 1
        BY <2>1, <2>4 DEF OneBlock, Simple
      <4>4. Buf!Peek(read_buf) = Left
        BY <2>4, <4>2, <4>3, BufferFacts
      <4>5. parser.state_ \notin {"DONE", "ERROR"} /\ Quiet(parser, Left)
        BY <2>4, <3>1, <4>4 DEF PhaseOK
      <4> QED
        BY <2>1, <2>2, <2>4, <4>5, AllParsed
    <3>2. CASE phase = "closed" /\ parser.state_ = "ERROR"
      <4>1. (k < Len(rs) /\ ~rs[k + 1].ok) \/ (k > 0 /\ rs[k].framing = "chunked")
        BY <2>2, <2>4, <3>2, ErrorAt
      <4>2. k > 0 => k \in DOMAIN rs
        BY <2>2 DEF IsStream
      <4>3. k > 0 /\ rs[k].framing = "chunked" => k = Len(rs)
        BY <2>1, <4>2 DEF Simple
      <4> QED
        BY <4>1, <4>3
    <3> QED
      BY <2>1, <3>1, <3>2
  <2>6. /\ o \in Seq(Seq(Octet)) /\ Len(o) = k
        /\ \A i \in 1..Len(o) : o[i] = rs[i].body
    BY <2>2, <2>3, <2>5, OwedFacts
  <2> HIDE DEF o
  <2> QED
    BY <2>3, <2>6, SameElements
<1> QED
  BY <1>1, ParserInvariant, PTL

=============================================================================
