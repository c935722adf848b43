----------------------------- MODULE HTTPServer -----------------------------
(***************************************************************************)
(* net/http: one connection of an HTTPServer, from the bytes the peer      *)
(* sends to the responses, over the connection's input Buffer.             *)
(*                                                                         *)
(* The peer sends requests; the network cuts the stream anywhere.  One     *)
(* element of the stream is CR, LF or the text of a line without them: the *)
(* parser looks only for CR LF, and at a line once it is whole.  onMsg()   *)
(* makes a new HTTPContext for every read.  In the other mode the buffer   *)
(* is used through its own calls.                                          *)
(***************************************************************************)
EXTENDS Buffer

CONSTANTS Requests   \* the request sequences the peer may send

VARIABLES
  user,       \* "http", or "calls": the buffer alone
  reqs,       \* what the peer sends
  received,   \* number of elements of the stream read so far
  hpc,        \* "read", "parse", "done" or "bad": where the loop is
  state_, request_,  \* the HTTPContext of the message being handled
  wrShut,     \* conn->shutdown() was called
  responses,  \* history: what was sent
  served,     \* history: requests given to httpCB_
  lost,       \* history: a context was dropped after a request line
  waiting     \* history: a read brought more than the request it completed

context == <<state_, request_>>
http == <<reqs, received, hpc, context, wrShut, responses, served, lost, waiting>>
httpVars == <<user, buffer, http>>

\* Lines of text: two request lines, one that is none, and headers.
Version == [GET11 |-> "HTTP11", GET10 |-> "HTTP10"]
ConnHeader == [close |-> "close", keep |-> "Keep-Alive"]
Header == {"close", "keep", "other"}
Text == {"GET11", "GET10", "junk"} \cup Header

\* A request is what the code takes for one: a first line, of any text, and
\* headers, each with a colon.  HTTPContext never reads a body, not even of a
\* POST or PUT: to the code a body is the start of the request behind it, and
\* is a request of its own here, malformed unless it reads like one.
ASSUME RequestsAssumption ==
  /\ Requests \subseteq Seq(Seq(Text))
  /\ \A rs \in Requests : \A k \in DOMAIN rs :
        rs[k] # <<>> /\ \A i \in 2 .. Len(rs[k]) : rs[k][i] \in Header

Line(text) == <<text, "CR", "LF">>
Encode(req) == FlattenSeq([i \in DOMAIN req |-> Line(req[i])]) \o <<"CR", "LF">>
Stream == FlattenSeq([i \in DOMAIN reqs |-> Encode(reqs[i])])

NoRequest == [version |-> "Unknown", conn |-> ""]

HTTPTypeOK ==
  /\ user \in {"http", "calls"}
  /\ inputBuf.buf \in Seq(Text \cup {"CR", "LF", Zero} \cup Byte)
  /\ inputBuf.r \in Nat /\ inputBuf.r <= inputBuf.w /\ inputBuf.w <= Len(inputBuf.buf)
  /\ received \in 0 .. Len(Stream)
  /\ hpc \in {"read", "parse", "done", "bad"}
  /\ state_ \in {"ExpReq", "ExpHeader", "Done"}
  /\ request_.version \in {"Unknown", "HTTP10", "HTTP11"}
  /\ wrShut \in BOOLEAN /\ lost \in BOOLEAN /\ waiting \in BOOLEAN

HTTPInit ==
  /\ user \in {"http", "calls"}
  /\ BufferInit
  /\ reqs \in IF user = "http" THEN Requests ELSE {<<>>}
  /\ received = 0 /\ hpc = "read"
  /\ state_ = "ExpReq" /\ request_ = NoRequest
  /\ wrShut = FALSE
  /\ responses = <<>> /\ served = <<>>
  /\ lost = FALSE /\ waiting = FALSE

-----------------------------------------------------------------------------
\* TcpConnection::handleRead(): n elements, then msgCB_, with a new context.
OnMsg(n) ==
  /\ hpc = "read"
  /\ received + n <= Len(Stream)
  /\ ReadFd(SubSeq(Stream, received + 1, received + n))
  /\ received' = received + n
  /\ hpc' = "parse"
  /\ state_' = "ExpReq" /\ request_' = NoRequest
  /\ UNCHANGED <<user, reqs, wrShut, responses, served, lost, waiting>>

\* The text before the first CR LF.  A line has one element or none.
FirstLine == IF findCRLF(inputBuf) = 0 THEN "" ELSE peek(inputBuf)[1]

\* Mutant: the LF stays in the buffer.
RetrieveLine_LeaveLF == Retrieve(findCRLF(inputBuf) + 1)

\* retrieveUntil(crlf + 2).
RetrieveLine == Retrieve(findCRLF(inputBuf) + 2)

\* parse() finds no whole line: what was parsed so far goes with the context.
ParseMore ==
  /\ hpc = "parse" /\ findCRLF(inputBuf) = -1
  /\ hpc' = "read"
  /\ lost' = (lost \/ state_ = "ExpHeader")
  /\ UNCHANGED <<user, buffer, reqs, received, context, wrShut, responses, served,
                 waiting>>

\* Mutant: a line that is no request line is taken for one.
procReq_Lenient(text) == IF text \in DOMAIN Version THEN Version[text] ELSE "HTTP11"

\* The version of a request line, or Unknown.
procReq(text) == IF text \in DOMAIN Version THEN Version[text] ELSE "Unknown"

\* A line procReq() rejects stays in the buffer.
ParseReq ==
  /\ hpc = "parse" /\ state_ = "ExpReq" /\ findCRLF(inputBuf) >= 0
  /\ IF procReq(FirstLine) # "Unknown"
     THEN /\ request_' = [NoRequest EXCEPT !.version = procReq(FirstLine)]
          /\ state_' = "ExpHeader" /\ hpc' = hpc
          /\ RetrieveLine
     ELSE hpc' = "bad" /\ UNCHANGED <<buffer, context>>
  /\ UNCHANGED <<user, reqs, received, wrShut, responses, served, lost, waiting>>

\* Mutant: parse() returns after each header.
ParseHeader_OneByOne ==
  /\ hpc = "parse" /\ state_ = "ExpHeader" /\ findCRLF(inputBuf) >= 0
  /\ IF FirstLine \in Header
     THEN state_' = state_ /\ hpc' = "read"
     ELSE state_' = "Done" /\ hpc' = "done"
  /\ RetrieveLine
  /\ request_' = request_
  /\ UNCHANGED <<user, reqs, received, wrShut, responses, served, lost, waiting>>

\* A line without a colon, empty or not, ends the headers.
ParseHeader ==
  /\ hpc = "parse" /\ state_ = "ExpHeader" /\ findCRLF(inputBuf) >= 0
  /\ IF FirstLine \in Header
     THEN /\ request_' = IF FirstLine = "other" THEN request_
                         ELSE [request_ EXCEPT !.conn = ConnHeader[FirstLine]]
          /\ UNCHANGED <<state_, hpc>>
     ELSE state_' = "Done" /\ hpc' = "done" /\ request_' = request_
  /\ RetrieveLine
  /\ UNCHANGED <<user, reqs, received, wrShut, responses, served, lost, waiting>>

\* TcpConnection::send() does nothing once the connection is shut down.
send(resp) == responses' = IF wrShut THEN responses ELSE Append(responses, resp)

BadRequest ==
  /\ hpc = "bad"
  /\ hpc' = "read"
  /\ send("400")
  /\ wrShut' = TRUE
  /\ UNCHANGED <<user, buffer, reqs, received, context, served, lost, waiting>>

WantsClose(r) == r.conn = "close" \/ (r.version = "HTTP10" /\ r.conn # "Keep-Alive")

\* httpCB_ fills in the response; it may leave close as it is or set it.
OnReq ==
  /\ hpc = "done"
  /\ hpc' = "read"
  /\ served' = Append(served, request_)
  /\ waiting' = (waiting \/ readableBytes(inputBuf) > 0)
  /\ \E close \in {WantsClose(request_), TRUE, FALSE} :
        /\ send(IF close THEN "close" ELSE "keep")
        /\ wrShut' = (wrShut \/ close)
  /\ UNCHANGED <<user, buffer, reqs, received, context, lost>>

HTTPStep ==
  /\ ~failed
  /\ \/ \E n \in 1 .. Len(Stream) : OnMsg(n)
     \/ ParseMore \/ ParseReq \/ ParseHeader \/ BadRequest \/ OnReq

HTTPNext ==
  /\ user' = user
  /\ \/ user = "http" /\ HTTPStep
     \/ user = "calls" /\ BufferNext /\ UNCHANGED http

HTTPSpec == HTTPInit /\ [][HTTPNext]_httpVars

-----------------------------------------------------------------------------
\* What the peer asked for, read off the request and not off the stream.
Asked(req) ==
  LET conns == {i \in 2 .. Len(req) : req[i] \in DOMAIN ConnHeader}
  IN  [version |-> procReq(req[1]),
       conn |-> IF conns = {} THEN "" ELSE ConnHeader[req[Max(conns)]]]

WellFormed(req) == req[1] \in DOMAIN Version
Arrived(k) == Len(FlattenSeq([i \in 1 .. k |-> Encode(reqs[i])])) <= received

\* Buffer: whatever mix of growing, moving to the front, shrinking and reading
\* from a socket it has been through, its readable bytes are those put in and
\* not yet taken out, in order.
HoldsItsData == peek(inputBuf) = data

\* Buffer::expand(), ensure() and retrieve(): their assertions hold.
BufferAsserts == ~failed

\* Buffer: both, with readerIdx_ and writerIdx_ inside the vector.
BufferCorrect == HTTPTypeOK /\ HoldsItsData /\ BufferAsserts

\* HTTPContext::parse(): the requests httpCB_ gets are the first ones the
\* peer sent, each with its own version and headers, however they were cut.
ServesWhatWasAsked ==
  /\ Len(served) <= Len(reqs)
  /\ \A i \in DOMAIN served : WellFormed(reqs[i]) /\ served[i] = Asked(reqs[i])

\* HTTPServer::onMsg(): a 400 answers a malformed request (the body of the one
\* before it is one too), or one whose lines came in several reads after its
\* request line was whole.
BadOnlyWhenBad ==
  "400" \in Range(responses) => lost \/ \E i \in DOMAIN reqs : ~WellFormed(reqs[i])

\* HTTPServer::onMsg(): between reads every request that has arrived was
\* served, but for requests cut as above, those behind a malformed one (or
\* behind a body), and one that came in the same read as the end of the one
\* before it.
ServedInTime ==
  user = "http" /\ hpc = "read" /\ ~lost /\ ~waiting =>
    \A k \in DOMAIN reqs :
      Arrived(k) /\ (\A i \in 1 .. k : WellFormed(reqs[i])) => Len(served) >= k
=============================================================================
