----------------------------- MODULE HttpParser ----------------------------
(***************************************************************************)
(* HttpParser (http/http_parser.cpp) on the Buffer of a connection, driven *)
(* by HttpServer::on_message(): what a client sends arrives in pieces of   *)
(* any size, each piece is written to the buffer, and parse() is called    *)
(* until it can do no more.                                                *)
(*                                                                         *)
(* A client sends a sequence of requests; the bytes are Encode of each.    *)
(* The text of a line is one byte here, which says what the line is; CR,   *)
(* LF and the bytes of a body are bytes of their own, so that a piece, and *)
(* a block of the buffer, may end anywhere.  A size line holds a number,   *)
(* as strtoul() reads it.                                                  *)
(***************************************************************************)
EXTENDS Integers, Sequences, SequencesExt, FiniteSetsExt

CONSTANTS
    Streams,        \* the sequences of requests clients may send
    kBlockSize      \* size of a block of the buffer (4096)

\* A byte as this module sees it, and what clients send: requests that are
\* well formed (ok) or have a request line without two spaces; "close" asks for
\* the connection to be closed; a body is sent with its length or in chunks of
\* any size, or there is none.
Texts == {"CR", "LF", "request", "junk", "Connection: close", "Content-Length",
          "Transfer-Encoding: chunked", "size", "body"}
Octet == [text : Texts, value : Nat]
Request == [ok : BOOLEAN, close : BOOLEAN, framing : {"none", "length", "chunked"},
            body : Seq(Octet), chunks : Seq(Seq(Octet))]

ASSUME BlockAssumption == kBlockSize \in Nat \ {0}
ASSUME StreamAssumption ==
    \A rs \in Streams :
        /\ rs \in Seq(Request)
        /\ \A i \in DOMAIN rs :
              /\ rs[i].framing = "none" => rs[i].body = <<>>
              /\ rs[i].framing = "chunked" =>
                    /\ rs[i].body = FlattenSeq(rs[i].chunks)
                    /\ \A j \in DOMAIN rs[i].chunks : rs[i].chunks[j] # <<>>

VARIABLES
    requests,       \* what this client sends
    sent,           \* number of bytes of it that have arrived
    read_buf,       \* Connection::read_buf
    parser,         \* Connection::parser
    progress,       \* the parse() in progress has consumed something
    phase,          \* "wait", "parse", "returned" or "closed"
    closed,         \* Connection::closed
    handled         \* the bodies of the requests given to handle_request()

vars == <<requests, sent, read_buf, parser, progress, phase, closed, handled>>

Buf == INSTANCE Buffer WITH
    buf <- read_buf, op <- <<>>, Byte <- {}, MaxChunk <- 0, MaxBlocks <- 1

-----------------------------------------------------------------------------
(* The bytes a client sends.                                               *)

Char(text, value) == [text |-> text, value |-> value]
CR == Char("CR", 0)
LF == Char("LF", 0)
Line(text, value) == <<Char(text, value), CR, LF>>
Chunk(bytes) == Line("size", Len(bytes)) \o bytes \o <<CR, LF>>

Encode(r) ==
    Line(IF r.ok THEN "request" ELSE "junk", 0)
        \o (IF r.close THEN Line("Connection: close", 0) ELSE <<>>)
        \o (CASE r.framing = "none" -> <<CR, LF>>
              [] r.framing = "length" ->
                    Line("Content-Length", Len(r.body)) \o <<CR, LF>> \o r.body
              [] r.framing = "chunked" ->
                    Line("Transfer-Encoding: chunked", 0) \o <<CR, LF>>
                        \o FlattenSeq([i \in 1..Len(r.chunks) |-> Chunk(r.chunks[i])])
                        \o Chunk(<<>>))

Stream(rs) == FlattenSeq([i \in 1..Len(rs) |-> Encode(rs[i])])

\* The bodies of the requests a server owes the client an answer for: those
\* before the first malformed one.
Owed(rs) ==
    LET bad == {i \in 1..Len(rs) : ~rs[i].ok}
        n == IF bad = {} THEN Len(rs) ELSE Min(bad) - 1
    IN  [i \in 1..n |-> rs[i].body]

-----------------------------------------------------------------------------
(* The parser, as functions of the object and of the bytes it is shown.    *)
(* Each returns the object and the bytes it has not consumed.              *)

\* reset().  length is the value of a Content-Length header, -1 without one;
\* chunked_ is set by the header where the code looks it up at the end.
NewParser ==
    [state_ |-> "START", length |-> -1, chunked_ |-> FALSE, content_length_ |-> 0,
     body_read_ |-> 0, temp_body_ |-> <<>>, chunk_size_ |-> 0, reading_chunk_size_ |-> TRUE]

Rest(data, n) == SubSeq(data, n + 1, Len(data))

\* Where the first CR LF of data begins; 0 if it has none.
FindCrlf(data) ==
    LET found == {i \in 1..(Len(data) - 1) : data[i] = CR /\ data[i + 1] = LF}
    IN  IF found = {} THEN 0 ELSE Min(found)

\* parse_request_line(): needs a whole line; a malformed one is an error.
ParseRequestLine(p, data) ==
    LET crlf == FindCrlf(data)
        line == SubSeq(data, 1, crlf - 1)
    IN  IF crlf = 0 THEN [p |-> p, data |-> data]
        ELSE IF \E i \in DOMAIN line : line[i].text = "request"
             THEN [p |-> [p EXCEPT !.state_ = "HEADERS"], data |-> Rest(data, crlf + 1)]
             ELSE [p |-> [p EXCEPT !.state_ = "ERROR"], data |-> data]

\* add_header(), for the headers the parser asks for; a line without a colon
\* is ignored.
AddHeader(p, line) ==
    IF line = <<>> THEN p
    ELSE [p EXCEPT !.length = IF line[1].text = "Content-Length" THEN line[1].value ELSE @,
                   !.chunked_ = @ \/ line[1].text = "Transfer-Encoding: chunked"]

\* The empty line: how the body is framed.
EndHeaders(p) ==
    IF p.chunked_ THEN [p EXCEPT !.state_ = "CHUNKED_BODY"]
    ELSE IF p.length >= 0 THEN [p EXCEPT !.state_ = "BODY", !.content_length_ = p.length]
    ELSE [p EXCEPT !.state_ = "DONE"]

\* One turn of the loop of parse_headers(); it ends without a whole line and
\* after the empty one.
HeaderTurn(st) ==
    LET crlf == FindCrlf(st.data)
    IN  IF st.p.state_ # "HEADERS" \/ crlf = 0 THEN st
        ELSE [p |-> IF crlf = 1 THEN EndHeaders(st.p)
                    ELSE AddHeader(st.p, SubSeq(st.data, 1, crlf - 1)),
              data |-> Rest(st.data, crlf + 1)]

ParseHeaders(p, data) ==
    LET turns[k \in 0..Len(data)] ==
            IF k = 0 THEN [p |-> p, data |-> data] ELSE HeaderTurn(turns[k - 1])
    IN  turns[Len(data)]

\* Wrong on purpose: everything that is there is taken for the body.
ParseBodyGreedy(p, data) ==
    LET to_consume == Len(data)
        read == [p EXCEPT !.temp_body_ = @ \o SubSeq(data, 1, to_consume),
                          !.body_read_ = @ + to_consume]
    IN  [p |-> IF read.body_read_ >= read.content_length_
               THEN [read EXCEPT !.state_ = "DONE"] ELSE read,
         data |-> Rest(data, to_consume)]

\* Wrong on purpose: what has been read of the body is forgotten.
ParseBodyForgets(p, data) ==
    LET to_consume == Min({p.content_length_, Len(data)})
        read == [p EXCEPT !.temp_body_ = @ \o SubSeq(data, 1, to_consume),
                          !.body_read_ = @ + to_consume]
    IN  [p |-> IF read.body_read_ >= read.content_length_
               THEN [read EXCEPT !.state_ = "DONE"] ELSE read,
         data |-> Rest(data, to_consume)]

\* parse_body()
ParseBody(p, data) ==
    LET to_consume == Min({p.content_length_ - p.body_read_, Len(data)})
        read == [p EXCEPT !.temp_body_ = @ \o SubSeq(data, 1, to_consume),
                          !.body_read_ = @ + to_consume]
    IN  [p |-> IF read.body_read_ >= read.content_length_
               THEN [read EXCEPT !.state_ = "DONE"] ELSE read,
         data |-> Rest(data, to_consume)]

\* A size line: a chunk follows, or the body ends, its last CR LF unread.
ChunkSizeTurn(st) ==
    LET crlf == FindCrlf(st.data)
        size == IF crlf > 1 /\ st.data[1].text = "size" THEN st.data[1].value ELSE 0
    IN  IF crlf = 0 THEN [st EXCEPT !.stop = TRUE]
        ELSE [p |-> [st.p EXCEPT !.chunk_size_ = size,
                                 !.state_ = IF size = 0 THEN "DONE" ELSE @,
                                 !.reading_chunk_size_ = size = 0],
              data |-> Rest(st.data, crlf + 1),
              stop |-> size = 0]

\* Wrong on purpose: what was taken of a chunk is not subtracted.
ChunkDataTurnForgets(st) ==
    LET size == st.p.chunk_size_
        take == Min({Len(st.data), size})
        read == [st.p EXCEPT !.temp_body_ = @ \o SubSeq(st.data, 1, take)]
    IN  IF Len(st.data) < size + 2
        THEN [p |-> read, data |-> Rest(st.data, take), stop |-> TRUE]
        ELSE [p |-> [read EXCEPT !.reading_chunk_size_ = TRUE],
              data |-> Rest(st.data, size + 2), stop |-> FALSE]

\* A chunk with its CR LF, or as much of the chunk as there is.
ChunkDataTurn(st) ==
    LET size == st.p.chunk_size_
        take == Min({Len(st.data), size})
        read == [st.p EXCEPT !.temp_body_ = @ \o SubSeq(st.data, 1, take)]
    IN  IF Len(st.data) < size + 2
        THEN [p |-> [read EXCEPT !.chunk_size_ = @ - take],
              data |-> Rest(st.data, take), stop |-> TRUE]
        ELSE [p |-> [read EXCEPT !.reading_chunk_size_ = TRUE],
              data |-> Rest(st.data, size + 2), stop |-> FALSE]

ChunkTurn(st) ==
    IF st.stop \/ st.data = <<>> THEN st
    ELSE IF st.p.reading_chunk_size_ THEN ChunkSizeTurn(st) ELSE ChunkDataTurn(st)

\* parse_chunked_body()
ParseChunkedBody(p, data) ==
    LET turns[k \in 0..Len(data)] ==
            IF k = 0 THEN [p |-> p, data |-> data, stop |-> FALSE]
            ELSE ChunkTurn(turns[k - 1])
    IN  turns[Len(data)]

\* The switch of parse().
ParseState(p, data) ==
    CASE p.state_ = "START" -> ParseRequestLine(p, data)
      [] p.state_ = "HEADERS" -> ParseHeaders(p, data)
      [] p.state_ = "BODY" -> ParseBody(p, data)
      [] p.state_ = "CHUNKED_BODY" -> ParseChunkedBody(p, data)

-----------------------------------------------------------------------------
Init ==
    /\ requests \in Streams
    /\ sent = 0
    /\ read_buf = Buf!NewBuffer
    /\ parser = NewParser
    /\ progress = FALSE
    /\ phase = "wait"
    /\ closed = FALSE
    /\ handled = <<>>

\* on_message(): begin_write(), a read of at most the room there is,
\* has_written(), and the first call of parse().
Receive ==
    /\ phase = "wait"
    /\ LET ready == Buf!BeginWrite(read_buf)
           left == Rest(Stream(requests), sent)
       IN  \E n \in 1..Min({Len(left), Buf!Writable(Buf!WriteBlock(ready))}) :
             /\ read_buf' = Buf!HasWritten(ready, SubSeq(left, 1, n))
             /\ sent' = sent + n
    /\ progress' = FALSE
    /\ phase' = "parse"
    /\ UNCHANGED <<requests, parser, closed, handled>>

\* A turn of parse()'s loop that consumes something.
ParseTurn ==
    /\ phase = "parse"
    /\ read_buf.size_ > 0
    /\ parser.state_ \notin {"DONE", "ERROR"}
    /\ LET data == Buf!Peek(read_buf)
           result == ParseState(parser, data)
           consumed == Len(data) - Len(result.data)
       IN  /\ parser' = result.p
           /\ read_buf' = Buf!RetrieveFrom(read_buf, consumed)
           /\ progress' = (progress \/ consumed > 0)
           /\ phase' = IF consumed = 0 THEN "returned" ELSE "parse"
    /\ UNCHANGED <<requests, sent, closed, handled>>

\* parse() returns at the head of its loop.
ParseReturns ==
    /\ phase = "parse"
    /\ read_buf.size_ = 0 \/ parser.state_ \in {"DONE", "ERROR"}
    /\ phase' = "returned"
    /\ UNCHANGED <<requests, sent, read_buf, parser, progress, closed, handled>>

\* on_message() returns; a closed connection gets no more events.
Return == IF closed' THEN "closed" ELSE "wait"

\* has_error(): a response is sent, and the connection closed.
ParseError ==
    /\ phase = "returned"
    /\ parser.state_ = "ERROR"
    /\ closed' = TRUE
    /\ phase' = Return
    /\ UNCHANGED <<requests, sent, read_buf, parser, progress, handled>>

\* send_response(): write() takes all of the response or, unnoticed, a part of
\* it; or it fails, with EAGAIN too, and the connection is closed.
SendResponse == closed' \in {closed, TRUE}

\* Wrong on purpose: one request per read of the socket.
RequestDoneNoPipelining ==
    /\ phase = "returned"
    /\ parser.state_ = "DONE"
    /\ handled' = Append(handled, parser.temp_body_)
    /\ SendResponse
    /\ parser' = NewParser
    /\ progress' = FALSE
    /\ phase' = Return
    /\ UNCHANGED <<requests, sent, read_buf>>

\* is_done(): handle_request(), reset(), and on to the next request, also when
\* the write has failed.  Nobody calls finalize(), so keep_alive() is true and
\* the connection stays open otherwise.
RequestDone ==
    /\ phase = "returned"
    /\ parser.state_ = "DONE"
    /\ handled' = Append(handled, parser.temp_body_)
    /\ SendResponse
    /\ parser' = NewParser
    /\ progress' = FALSE
    /\ phase' = IF read_buf.size_ > 0 THEN "parse" ELSE Return
    /\ UNCHANGED <<requests, sent, read_buf>>

\* Neither: parse() is called again if it consumed something and there is
\* something left, else on_message() returns.
NeedMore ==
    /\ phase = "returned"
    /\ parser.state_ \notin {"DONE", "ERROR"}
    /\ progress' = FALSE
    /\ UNCHANGED <<requests, sent, read_buf, parser, closed, handled>>
    /\ phase' = IF progress /\ read_buf.size_ > 0 THEN "parse" ELSE Return

Next ==
    \/ Receive \/ ParseTurn \/ ParseReturns
    \/ ParseError \/ RequestDone \/ NeedMore

Spec == Init /\ [][Next]_vars

-----------------------------------------------------------------------------
(* Properties.                                                             *)

\* The parser keeps its types: no body longer than announced, no size_t below
\* zero.
TypeOK ==
    /\ sent \in 0..Len(Stream(requests))
    /\ phase \in {"wait", "parse", "returned", "closed"}
    /\ progress \in BOOLEAN /\ closed \in BOOLEAN
    /\ parser.state_ \in {"START", "HEADERS", "BODY", "CHUNKED_BODY", "DONE", "ERROR"}
    /\ parser.content_length_ \in Nat
    /\ parser.body_read_ \in 0..parser.content_length_
    /\ parser.chunk_size_ \in Nat

\* No request is invented, merged with another or given another's bytes: what
\* the handlers have been given is the beginning of what the client sent,
\* wherever the pieces, and the blocks of the buffer, begin and end.
HandledIsPrefix == IsPrefix(handled, Owed(requests))

\* "Is trivially bufferable (resume from any state when more data arrives)"
\* (http_parser.h): when everything has arrived and on_message() has returned,
\* every request has been handled; and every one before the connection is
\* closed for a malformed one.  Refuted where a request crosses the end of a
\* block.
AllHandled ==
    \/ phase = "wait" /\ sent = Len(Stream(requests))
    \/ phase = "closed" /\ parser.state_ = "ERROR"
    => handled = Owed(requests)

\* What the parser can do: everything fits into one block, no length is zero
\* and nothing follows a chunked body.
Simple(rs) ==
    /\ Len(Stream(rs)) <= kBlockSize
    /\ \A i \in DOMAIN rs :
          /\ ~(rs[i].framing = "length" /\ rs[i].body = <<>>)
          /\ rs[i].framing = "chunked" => i = Len(rs)

\* Within these limits every pipelined request is handled once its last byte
\* has arrived, however the bytes are cut into pieces.  None of the limits can
\* be dropped.
SimpleStreamsAreHandled == Simple(requests) => AllHandled

\* A client that sends well-formed requests does not have its connection closed
\* for a parse error, wherever its bytes are cut and whatever became of the
\* responses: the parser never takes up a message in the wrong place.  (Not so
\* with chunked bodies: the CR LF after the last chunk is not read, and is parsed
\* as the next request line.)  And a closed connection is not read again.
ClosedForCause ==
    /\ parser.state_ = "ERROR" =>
           \E i \in DOMAIN requests : ~requests[i].ok \/ requests[i].framing = "chunked"
    /\ phase = "wait" => ~closed

=============================================================================
