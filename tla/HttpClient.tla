----------------------------- MODULE HttpClient -----------------------------
(***************************************************************************)
(* One call of HTTPClient::execute(): the caller builds a request with the *)
(* setters of HTTPClientRequest, the client connects, writes it, and       *)
(* readResponse() reads blocks of the answer and gives each of them to     *)
(* ResponseParser::parse() until the message is complete or the connection *)
(* fails.  A block is as large as the buffer unless the connection ended.  *)
(*                                                                         *)
(* The peer and the vendored http_parser are external.  The peer sends a   *)
(* response item by item and may close or reset the connection between any *)
(* two of them; an item is what one callback is called with: a byte of a   *)
(* name, a value or the body, or a point of the message that has one.  It  *)
(* stands for its place in the response, from which its byte follows.      *)
(***************************************************************************)
EXTENDS Naturals, Sequences, FiniteSets, SequencesExt

CONSTANTS
    Urls,        \* records [protocol]
    Bytes,       \* bytes of names, values and bodies
    Responses,   \* the answers the peer may give
    Keys, Vals,  \* arguments of setHeader
    Pairs,       \* url-encoded key=value pairs of a form
    MaxSets,     \* bound: calls of setters
    BufSz        \* buf_sz, in items

\* framing: the body ends at Content-Length (length), at the last chunk, or at
\* the end of the connection.  bad: where a byte is that http_parser refuses.
\* extra: bytes after the message or the bad byte; what is within the
\* Content-Length or before the end of the connection is body instead.
ASSUME ClientAssumption ==
    /\ BufSz \in Nat \ {0} /\ MaxSets \in Nat /\ IsFiniteSet(Pairs)
    /\ \A r \in Responses :
         /\ r.status \in Seq(Bytes) \ {<<>>}
         /\ r.headers \in Seq([name : Seq(Bytes) \ {<<>>}, value : Seq(Bytes)])
         /\ r.framing \in {"length", "chunked", "close"} /\ r.body \in Seq(Bytes)
         /\ r.length \in Nat /\ (r.framing = "length" => Len(r.body) <= r.length)
         /\ r.bad \in {"no", "headers", "body"} /\ (r.bad = "body" => r.framing = "chunked")
         /\ r.extra \in Nat
         /\ r.extra > 0 /\ r.bad = "no" =>
              r.framing = "chunked" \/ (r.framing = "length" /\ Len(r.body) = r.length)

VARIABLES
    pc,       \* where execute() is: "build", "write", "read", "parse" or "done"
    url, calls, headers_, body_, mime_,    \* the HTTPClientRequest, calls of its setters
    request,  \* what was written: header lines and content
    resp,     \* the answer of the peer
    net,      \* the connection: "none", "open", "eof" or "error"
    sent,     \* the place of the answer that the peer sends next
    inbox,    \* items that reached this host and that http_parser was not given
    block,    \* how many of them the last read returned
    at,       \* the place up to which http_parser was given the answer
    ec,       \* the error_code of the last read
    parser,   \* the ResponseParser
    outcome   \* "pending", "response", "HTTPClientError" or "undefined"

req  == <<url, calls, headers_, body_, mime_>>
peer == <<resp, net, sent>>
vars == <<pc, req, request, peer, inbox, block, at, ec, parser, outcome>>

-----------------------------------------------------------------------------
(* HTTPClientRequest *)

\* emplace: a header that is there keeps its value.
setHeader(k, v) ==
    /\ headers_' = IF k \in DOMAIN headers_ THEN headers_
                   ELSE [x \in DOMAIN headers_ \cup {k} |-> IF x = k THEN v ELSE headers_[x]]
    /\ calls' = Append(calls, [set |-> "header", key |-> k, val |-> v])
    /\ UNCHANGED <<body_, mime_>>

setBody(content) ==
    /\ body_' = <<content>> /\ mime_' = "given"
    /\ calls' = Append(calls, [set |-> "body", content |-> content])
    /\ UNCHANGED headers_

\* The pairs are appended to the body there is, whatever its type.
setBodyURLEncoded(pairs) ==
    /\ body_' = body_ \o SetToSeq(pairs) /\ mime_' = "urlencoded"
    /\ calls' = Append(calls, [set |-> "form", pairs |-> pairs])
    /\ UNCHANGED headers_

Build ==
    /\ pc = "build" /\ Len(calls) < MaxSets
    /\ \/ \E k \in Keys, v \in Vals : setHeader(k, v)
       \/ setBody("text")
       \/ \E pairs \in SUBSET Pairs : setBodyURLEncoded(pairs)
    /\ UNCHANGED <<pc, url, request, peer, inbox, block, at, ec, parser, outcome>>

-----------------------------------------------------------------------------
(* ResponseParser: the callbacks, on the record of what the parser holds *)

\* The constructor leaves is_complete_ uninitialised.  stop: why http_parser
\* takes no more of a block.
NewParser(garbage) ==
    [status_code |-> <<>>, field |-> <<>>, value |-> <<>>, headers |-> [f \in {} |-> <<>>],
     body |-> <<>>, is_complete |-> garbage, phase |-> "head", stop |-> "no"]

\* A bug: a header is kept when its name is complete, not its value.
CommitAlways(p) ==
    [p EXCEPT !.headers = [f \in DOMAIN p.headers \cup {p.field} |->
                             IF f = p.field THEN p.value ELSE p.headers[f]],
              !.field = <<>>]

\* A field with a value is complete and enters headers_.
Commit(p) ==
    IF p.value = <<>> THEN p
    ELSE [p EXCEPT !.headers = [f \in DOMAIN p.headers \cup {p.field} |->
                                  IF f = p.field THEN p.value ELSE p.headers[f]],
                   !.field = <<>>, !.value = <<>>]

on_message_begin(p) == [p EXCEPT !.is_complete = "no"]
on_header_field(p, b) == LET q == Commit(p) IN [q EXCEPT !.field = Append(@, b)]
on_header_value(p, b) == [p EXCEPT !.value = Append(@, b)]
on_headers_complete(p) == [Commit(p) EXCEPT !.phase = "body"]
on_body(p, b) == [p EXCEPT !.body = Append(@, b)]

\* The parser is paused, so that nothing after the message is taken.
on_message_complete(p) == [p EXCEPT !.is_complete = "yes", !.stop = "paused"]

\* parse(): its answer after a block.
parse(q) ==
    CASE q.stop = "error" -> "ERROR"
      [] q.stop # "error" /\ q.is_complete = "yes" -> "OK"
      [] OTHER -> "INDETERMINATE"

-----------------------------------------------------------------------------
(* The peer and http_parser *)

Kinds == {"begin", "digit", "field", "value", "end", "body", "last", "bad", "extra", "over"}
Place(k, n, i) == [kind |-> k, no |-> n, pos |-> i]
Places == [kind : Kinds, no : Nat, pos : Nat]
Start == Place("begin", 0, 0)

\* In answer r: the first place of header n or of what follows the headers, of
\* byte i of the body, and of byte i after the message.
HeaderPlace(r, n) ==
    IF n <= Len(r.headers) THEN Place("field", n, 1)
    ELSE IF r.bad = "headers" THEN Place("bad", 0, 0) ELSE Place("end", 0, 0)
ExtraPlace(r, i) == IF i <= r.extra THEN Place("extra", 0, i) ELSE Place("over", 0, 0)
BodyPlace(r, i) ==
    IF i <= Len(r.body) THEN Place("body", 0, i)
    ELSE IF r.bad = "body" THEN Place("bad", 0, 0)
    ELSE IF r.framing = "chunked" THEN Place("last", 0, 0) ELSE ExtraPlace(r, 1)

\* The string that a place is in, and the place after it.
Text(r, p) ==
    CASE p.kind = "digit" -> r.status
      [] p.kind = "field" -> r.headers[p.no].name
      [] p.kind = "value" -> r.headers[p.no].value
      [] p.kind = "body"  -> r.body
      [] OTHER            -> <<>>
After(r, p) ==
    IF p.pos < Len(Text(r, p)) THEN [p EXCEPT !.pos = @ + 1]
    ELSE CASE p.kind = "begin"          -> Place("digit", 0, 1)
           [] p.kind = "digit"          -> HeaderPlace(r, 1)
           [] p.kind = "field" /\ r.headers[p.no].value # <<>> -> Place("value", p.no, 1)
           [] p.kind = "field" /\ r.headers[p.no].value = <<>> -> HeaderPlace(r, p.no + 1)
           [] p.kind = "value"          -> HeaderPlace(r, p.no + 1)
           [] p.kind = "end"            -> BodyPlace(r, 1)
           [] p.kind = "body"           -> BodyPlace(r, p.pos + 1)
           [] p.kind \in {"last", "bad"} -> ExtraPlace(r, 1)
           [] p.kind = "extra"          -> ExtraPlace(r, p.pos + 1)

\* http_parser: the callbacks for the item at place p of the answer.
Complete(q) ==
    IF resp.framing = "length" /\ Len(q.body) = resp.length THEN on_message_complete(q) ELSE q
Execute(q, p) ==
    IF q.stop # "no" THEN q
    ELSE CASE p.kind = "begin"    -> on_message_begin(q)
           [] p.kind = "digit"    -> [q EXCEPT !.status_code = Append(@, Text(resp, p)[p.pos])]
           [] p.kind = "field"    -> on_header_field(q, Text(resp, p)[p.pos])
           [] p.kind = "value"    -> on_header_value(q, Text(resp, p)[p.pos])
           [] p.kind = "end"      -> Complete(on_headers_complete(q))
           [] p.kind = "body"     -> Complete(on_body(q, Text(resp, p)[p.pos]))
           [] p.kind = "last"     -> on_message_complete(q)
           [] p.kind \in {"bad", "extra"} -> [q EXCEPT !.stop = "error"]

\* An empty block tells http_parser that the connection ended.
ExecuteEof(q) ==
    IF resp.framing = "close" /\ q.phase = "body" THEN on_message_complete(q) ELSE q

\* The connection carries the answer while the client waits for it or parses.
Reading == pc \in {"read", "parse"}

Send ==
    /\ net = "open" /\ Reading /\ sent.kind # "over"
    /\ inbox' = Append(inbox, sent) /\ sent' = After(resp, sent)
    /\ UNCHANGED <<pc, req, request, resp, net, block, at, ec, parser, outcome>>

Close ==
    /\ net = "open" /\ Reading
    /\ net' = "eof"
    /\ UNCHANGED <<pc, req, request, resp, sent, inbox, block, at, ec, parser, outcome>>

\* What has arrived and is not read may be lost with the connection.
Reset ==
    /\ net = "open" /\ Reading
    /\ net' = "error" /\ \E n \in block .. Len(inbox) : inbox' = SubSeq(inbox, 1, n)
    /\ UNCHANGED <<pc, req, request, resp, sent, block, at, ec, parser, outcome>>

-----------------------------------------------------------------------------
(* execute() *)

Init ==
    /\ pc = "build"
    /\ url \in Urls /\ calls = <<>>
    /\ headers_ = [k \in {} |-> "none"] /\ body_ = <<>> /\ mime_ = ""
    /\ request = [lines |-> {}, content |-> <<>>]
    /\ resp \in Responses /\ net = "none" /\ sent = Start
    /\ inbox = <<>> /\ block = 0 /\ at = Start /\ ec = "no"
    /\ \E garbage \in {"no", "yes"} : parser = NewParser(garbage)
    /\ outcome = "pending"

End(o) == pc' = "done" /\ outcome' = o

\* connect() makes a connection for two protocols, a null pointer for others.
Connect ==
    /\ pc = "build"
    /\ \/ /\ url.protocol \in {"http", "https"}
          /\ net' = "open" /\ pc' = "write" /\ UNCHANGED outcome
       \/ /\ url.protocol \in {"http", "https"}
          /\ End("HTTPClientError") /\ UNCHANGED net
       \/ /\ url.protocol \notin {"http", "https"}
          /\ pc' = "write" /\ UNCHANGED <<net, outcome>>
    /\ UNCHANGED <<req, request, resp, sent, inbox, block, at, ec, parser>>

Lines == {<<k, headers_[k]>> : k \in DOMAIN headers_}

\* The request: writeHeaders(), the length and type of a body, the body.  The
\* lines that are the same in all requests (Host, Accept, Connection: close)
\* are left out.
Message ==
    [lines |-> Lines \cup (IF body_ # <<>> THEN {<<"Content-Length", Len(body_)>>,
                                                <<"Content-Type", mime_>>} ELSE {}),
     content |-> body_]

\* write() on the connection, or through the null pointer.
Write ==
    /\ pc = "write"
    /\ \/ net = "open" /\ request' = Message /\ pc' = "read" /\ UNCHANGED outcome
       \/ net = "open" /\ End("HTTPClientError") /\ UNCHANGED request
       \/ net = "none" /\ End("undefined") /\ UNCHANGED request
    /\ UNCHANGED <<req, peer, inbox, block, at, ec, parser>>

\* A bug: only the end of the message ends the loop.
ReadsOnToTheEnd(e, answer) == answer # "OK"

\* A bug: the loop ends with the first block of a message that has more.
ReadsOnWhenOK(e, answer) == e = "no" /\ answer = "OK"

\* The loop condition of readResponse().
ReadsOn(e, answer) == e = "no" /\ answer # "OK"

\* asio::read returns when the buffer is full or the connection has ended.
Available == Len(inbox) >= BufSz \/ net # "open"

\* A turn of the loop: read a block, ...
ReadBlock ==
    /\ pc = "read" /\ Available
    /\ LET n == IF Len(inbox) < BufSz THEN Len(inbox) ELSE BufSz
       IN  /\ block' = n /\ ec' = (IF n < BufSz THEN net ELSE "no")
           /\ parser' = (IF n = 0 THEN ExecuteEof(parser) ELSE parser)
    /\ pc' = "parse"
    /\ UNCHANGED <<req, request, peer, inbox, at, outcome>>

\* ... give http_parser its items, ...
ParseItem ==
    /\ pc = "parse" /\ block > 0
    /\ parser' = Execute(parser, Head(inbox)) /\ at' = After(resp, Head(inbox))
    /\ inbox' = Tail(inbox) /\ block' = block - 1
    /\ UNCHANGED <<pc, req, request, peer, ec, outcome>>

\* ... and throw, go on or decode.
EndTurn ==
    /\ pc = "parse" /\ block = 0
    /\ \/ parse(parser) = "ERROR" /\ End("HTTPClientError")
       \/ parse(parser) # "ERROR" /\ ReadsOn(ec, parse(parser)) /\ pc' = "read" /\ UNCHANGED outcome
       \/ parse(parser) # "ERROR" /\ ~ReadsOn(ec, parse(parser)) /\ End("response")
    /\ UNCHANGED <<req, request, peer, inbox, block, at, ec, parser>>

readResponse == ReadBlock \/ ParseItem \/ EndTurn

Next ==
    \/ Build \/ Connect \/ Write \/ readResponse
    \/ Send \/ Close \/ Reset

Spec == Init /\ [][Next]_vars

\* The caller's thread runs; a peer that was asked to close the connection
\* does, when it has answered or before.
FairSpec ==
    /\ Spec
    /\ WF_vars(Connect \/ Write \/ readResponse)
    /\ WF_vars(Close)

-----------------------------------------------------------------------------
(* Properties *)

\* Every variable has its type.
TypeOK ==
    /\ pc \in {"build", "write", "read", "parse", "done"}
    /\ DOMAIN headers_ \subseteq Keys /\ mime_ \in {"", "given", "urlencoded"}
    /\ net \in {"none", "open", "eof", "error"} /\ ec \in {"no", "eof", "error"}
    /\ resp \in Responses /\ sent \in Places /\ at \in Places
    /\ inbox \in Seq(Places) /\ block \in 0 .. Len(inbox)
    /\ parser.is_complete \in {"no", "yes"} /\ parser.stop \in {"no", "paused", "error"}
    /\ outcome \in {"pending", "response", "HTTPClientError", "undefined"}
    /\ (outcome = "pending") = (pc # "done")

\* What http_parser was given: the refused byte, the end of the headers, the
\* last chunk, a byte of the name of header n.
Past == at.kind \in {"extra", "over"}
BadRead == Past /\ resp.bad # "no"
HeadRead ==
    \/ Past /\ resp.bad # "headers"
    \/ at.kind \in {"body", "last"}
    \/ at.kind = "bad" /\ resp.bad = "body"
LastRead == Past /\ resp.framing = "chunked" /\ resp.bad = "no"
NameBegun(n) ==
    /\ n <= Len(resp.headers) /\ at.kind \notin {"begin", "digit"}
    /\ at.kind \in {"field", "value"} =>
         at.no > n \/ (at.no = n /\ (at.kind = "value" \/ at.pos > 1))
BodyRead == IF at.kind = "body" THEN at.pos - 1 ELSE IF HeadRead THEN Len(resp.body) ELSE 0

\* The headers whose end was seen: the next one, or the end of the headers.
Seen == {n \in 1 .. Len(resp.headers) : HeadRead \/ NameBegun(n + 1)}
Named(f) == {n \in Seen : resp.headers[n].name = f}

\* The response handed to the caller is what the peer sent as far as it was read:
\* its status, the headers that were complete, the last of several with a name,
\* its body and nothing after it, however the blocks were cut.  (A header without
\* a value joins its name to the next one's.)
ResponseFaithful ==
    outcome = "response" /\ (\A n \in 1 .. Len(resp.headers) : resp.headers[n].value # <<>>) =>
      /\ IsPrefix(parser.status_code, resp.status)
      /\ at.kind \notin {"begin", "digit"} => parser.status_code = resp.status
      /\ DOMAIN parser.headers = {resp.headers[n].name : n \in Seen}
      /\ \A f \in DOMAIN parser.headers :
           \E n \in Named(f) : /\ parser.headers[f] = resp.headers[n].value
                               /\ \A m \in Named(f) : m <= n
      /\ parser.body = SubSeq(resp.body, 1, BodyRead)

\* A response that is not complete is handed on only when the connection ended;
\* the end of a block is never taken for the end of the message.
CutOnlyByPeer ==
    outcome = "response" =>
      \/ ec # "no"
      \/ HeadRead /\ parser.body = resp.body /\ (resp.framing = "chunked" => LastRead)

\* A call that has read something throws exactly when http_parser refused a byte
\* of the message; what follows a complete message in its block is no error.
MalformedRefused == pc = "done" /\ at # Start => ((outcome = "HTTPClientError") <=> BadRead)

\* The peer that reads the written request by the client's Content-Length finds
\* the content given last to setBody and the pairs given since; the type is that
\* of the last of these calls and a header has the value it was given first.
RequestFaithful ==
    LET Sets(k)   == {i \in 1 .. Len(calls) : calls[i].set = k}
        since     == {i \in Sets("form") : \A j \in Sets("body") : j < i}
        heads(k)  == {i \in Sets("header") : calls[i].key = k}
        first(k)  == CHOOSE i \in heads(k) : \A j \in heads(k) : i <= j
        content   == {request.content[i] : i \in 1 .. Len(request.content)}
    IN  Reading =>
          /\ \A i \in Sets("header") : <<calls[i].key, calls[first(calls[i].key)].val>> \in request.lines
          /\ content = (IF Sets("body") # {} THEN {"text"} ELSE {})
                         \cup UNION {calls[i].pairs : i \in since}
          /\ content # {} =>
               /\ <<"Content-Length", Len(request.content)>> \in request.lines
               /\ <<"Content-Type", IF since = {} THEN "given" ELSE "urlencoded">> \in request.lines

\* A call whose peer closes the connection ends, with a response or an exception.
CallEnds == Reading ~> (pc = "done")

\* What the caller set is what the peer gets, and what the peer sent is what the
\* caller gets.
ExchangeFaithful == RequestFaithful /\ ResponseFaithful

\* The outcome of a call tells a whole response, one cut short by the end of the
\* connection and a malformed one apart as execute() does.
OutcomeRight == TypeOK /\ CutOnlyByPeer /\ MalformedRefused
=============================================================================
