---------------------------- MODULE RequestParser ----------------------------
(***************************************************************************)
(* RequestParser: the callbacks that collect the parts of a request from   *)
(* the vendored http_parser, and parse(), which HttpConnection calls once  *)
(* for every chunk that arrives, as long as it answers INDETERMINATE.      *)
(*                                                                         *)
(* The wire is abstracted to the bytes of a request that carry data: one   *)
(* action consumes one byte, in the order of the message, and a chunk may  *)
(* end after any of them.  http_parser is external: it calls a data        *)
(* callback with the part of an element that lies in one chunk, stops at a *)
(* pause without consuming the byte that ends the headers, and refuses to  *)
(* go on after an error.  A callback with a part of several bytes is one   *)
(* action for the first byte (mark = "none") and one for each that follows.*)
(***************************************************************************)
EXTENDS Naturals, Sequences

CONSTANTS
    Bytes,     \* the bytes of names, values, urls and bodies
    Requests   \* the requests a client may send

\* A request: empty lines before it, its url, its headers, its body, and
\* where, if anywhere, a byte comes that http_parser does not accept.
ASSUME RequestsAssumption ==
    \A r \in Requests :
        /\ r.blanks \in Nat
        /\ r.url \in Seq(Bytes) /\ Len(r.url) > 0
        /\ r.headers \in Seq([name : Seq(Bytes), value : Seq(Bytes)])
        /\ \A i \in 1 .. Len(r.headers) : Len(r.headers[i].name) > 0
        /\ r.body \in Seq(Bytes)
        /\ r.bad \in {"no", "headers", "body"}

VARIABLES
    req,       \* what the client sends
    phase,     \* the element of the message the next byte belongs to
    hdr,       \* the number of the header, in the headers
    pos,       \* the bytes of the element consumed so far
    mark,      \* whether the element has a part in this chunk already
    fed,       \* the bytes of this chunk consumed so far: none or some
    pass,      \* which http_parser_execute of this parse() runs: 1 or 2
    errno,     \* parser_.http_errno
    url_, current_header_field_, current_header_value_, headers_, body_,
    is_complete_,
    result     \* what the last parse() returned

wire  == <<req, phase, hdr, pos>>
chunk == <<mark, fed, pass, errno>>
parts == <<url_, current_header_field_, current_header_value_, headers_, body_>>
vars  == <<wire, chunk, parts, is_complete_, result>>

\* Every variable has its type; parse() returns one of its three answers.
TypeOK ==
    /\ req \in Requests
    /\ phase \in {"blank", "url", "field", "value", "end", "body", "done"}
    /\ hdr \in 1 .. Len(req.headers) + 1
    /\ pos \in Nat
    /\ mark \in {"none", "set"} /\ fed \in {"none", "some"} /\ pass \in {1, 2}
    /\ errno \in {"OK", "error"}
    /\ url_ \in Seq(Bytes) /\ body_ \in Seq(Bytes)
    /\ current_header_field_ \in Seq(Bytes) /\ current_header_value_ \in Seq(Bytes)
    /\ DOMAIN headers_ \subseteq Seq(Bytes)
    /\ \A f \in DOMAIN headers_ : headers_[f] \in Seq(Bytes)
    /\ is_complete_ \in {"no", "yes"}
    /\ result \in {"INDETERMINATE", "OK", "ERROR"}

\* The constructor: is_complete_ is not initialised.
Init ==
    /\ req \in Requests
    /\ phase = "blank" /\ hdr = 1 /\ pos = 0
    /\ mark = "none" /\ fed = "none" /\ pass = 1 /\ errno = "OK"
    /\ url_ = <<>> /\ current_header_field_ = <<>> /\ current_header_value_ = <<>>
    /\ headers_ = [f \in {} |-> <<>>] /\ body_ = <<>>
    /\ is_complete_ \in {"no", "yes"}
    /\ result = "INDETERMINATE"

\* http_parser may consume another byte of the chunk.
Running == result = "INDETERMINATE" /\ errno = "OK"

Consume == fed' = "some"

\* The next byte is the first of element e.
Enter(e) == phase' = e /\ pos' = 0 /\ mark' = "none"

-----------------------------------------------------------------------------
(* Callbacks *)

\* Empty lines before the request line are skipped: no callback.
Blank ==
    /\ Running /\ phase = "blank" /\ pos < req.blanks
    /\ Consume
    /\ pos' = pos + 1
    /\ UNCHANGED <<req, phase, hdr, mark, pass, errno, parts, is_complete_, result>>

\* A bug: is_complete_ is not cleared.
on_message_begin_keeps ==
    /\ Running /\ phase = "blank" /\ pos = req.blanks
    /\ Consume
    /\ Enter("url")
    /\ UNCHANGED <<req, hdr, pass, errno, parts, is_complete_, result>>

\* The first byte of the method
on_message_begin ==
    /\ Running /\ phase = "blank" /\ pos = req.blanks
    /\ Consume
    /\ is_complete_' = "no"
    /\ Enter("url")
    /\ UNCHANGED <<req, hdr, pass, errno, parts, result>>

\* A bug: a part of the url that continues in the next chunk is put in front.
on_url_prepends ==
    /\ Running /\ phase = "url" /\ pos < Len(req.url)
    /\ Consume
    /\ url_' = <<req.url[pos + 1]>> \o url_
    /\ pos' = pos + 1 /\ mark' = "set"
    /\ UNCHANGED <<req, phase, hdr, pass, errno, current_header_field_, current_header_value_,
                   headers_, body_, is_complete_, result>>

\* url_.assign: the part in this chunk replaces what came before.
on_url ==
    /\ Running /\ phase = "url" /\ pos < Len(req.url)
    /\ Consume
    /\ url_' = Append(IF mark = "none" THEN <<>> ELSE url_, req.url[pos + 1])
    /\ pos' = pos + 1 /\ mark' = "set"
    /\ UNCHANGED <<req, phase, hdr, pass, errno, current_header_field_, current_header_value_,
                   headers_, body_, is_complete_, result>>

\* The blank after the url, and the rest of the request line.  When the blank is
\* the first byte of a chunk, on_url is called with the empty part before it.
EndOfUrl ==
    /\ Running /\ phase = "url" /\ pos = Len(req.url)
    /\ Consume
    /\ url_' = IF mark = "none" THEN <<>> ELSE url_
    /\ Enter(IF req.headers = <<>> THEN "end" ELSE "field")
    /\ UNCHANGED <<req, hdr, pass, errno, current_header_field_, current_header_value_, headers_,
                   body_, is_complete_, result>>

\* What on_header_field and on_headers_complete do first: a header that has a
\* value is complete and enters headers_.
Committed(field, value) ==
    [f \in DOMAIN headers_ \cup {field} |-> IF f = field THEN value ELSE headers_[f]]

Commit ==
    IF current_header_value_ # <<>>
      THEN headers_' = Committed(current_header_field_, current_header_value_)
      ELSE UNCHANGED headers_

on_header_field ==
    /\ Running /\ phase = "field" /\ pos < Len(req.headers[hdr].name)
    /\ Consume
    /\ Commit
    /\ current_header_field_' =
         Append(IF current_header_value_ # <<>> THEN <<>> ELSE current_header_field_,
                req.headers[hdr].name[pos + 1])
    /\ current_header_value_' = <<>>
    /\ pos' = pos + 1 /\ mark' = "set"
    /\ UNCHANGED <<req, phase, hdr, pass, errno, url_, body_, is_complete_, result>>

EndOfField ==
    /\ Running /\ phase = "field" /\ pos = Len(req.headers[hdr].name)
    /\ Consume
    /\ Enter("value")
    /\ UNCHANGED <<req, hdr, pass, errno, parts, is_complete_, result>>

on_header_value ==
    /\ Running /\ phase = "value" /\ pos < Len(req.headers[hdr].value)
    /\ Consume
    /\ current_header_value_' = Append(current_header_value_, req.headers[hdr].value[pos + 1])
    /\ pos' = pos + 1 /\ mark' = "set"
    /\ UNCHANGED <<req, phase, hdr, pass, errno, url_, current_header_field_, headers_, body_,
                   is_complete_, result>>

EndOfValue ==
    /\ Running /\ phase = "value" /\ pos = Len(req.headers[hdr].value)
    /\ Consume
    /\ Enter(IF hdr = Len(req.headers) THEN "end" ELSE "field")
    /\ hdr' = hdr + 1
    /\ UNCHANGED <<req, pass, errno, parts, is_complete_, result>>

\* A bug: the header that is last before the body is not kept.
on_headers_complete_forgets ==
    /\ Running /\ phase = "end" /\ req.bad # "headers"
    /\ Consume
    /\ current_header_field_' = <<>>
    /\ current_header_value_' = <<>>
    /\ pass' = 2
    /\ Enter("body")
    /\ UNCHANGED <<req, hdr, errno, url_, headers_, body_, is_complete_, result>>

\* The parser is paused before the byte that ends the headers; parse() lifts
\* the pause and executes the rest of the chunk, that byte first.
on_headers_complete ==
    /\ Running /\ phase = "end" /\ req.bad # "headers"
    /\ Consume
    /\ Commit
    /\ IF current_header_value_ # <<>>
         THEN current_header_field_' = <<>> /\ current_header_value_' = <<>>
         ELSE UNCHANGED <<current_header_field_, current_header_value_>>
    /\ pass' = 2
    /\ Enter("body")
    /\ UNCHANGED <<req, hdr, errno, url_, body_, is_complete_, result>>

\* A bug: a part of the body replaces the parts before it.
on_body_assigns ==
    /\ Running /\ phase = "body" /\ req.bad # "body" /\ pos < Len(req.body)
    /\ Consume
    /\ body_' = Append(IF mark = "none" THEN <<>> ELSE body_, req.body[pos + 1])
    /\ pos' = pos + 1 /\ mark' = "set"
    /\ UNCHANGED <<req, phase, hdr, pass, errno, url_, current_header_field_,
                   current_header_value_, headers_, is_complete_, result>>

on_body ==
    /\ Running /\ phase = "body" /\ req.bad # "body" /\ pos < Len(req.body)
    /\ Consume
    /\ body_' = Append(body_, req.body[pos + 1])
    /\ pos' = pos + 1 /\ mark' = "set"
    /\ UNCHANGED <<req, phase, hdr, pass, errno, url_, current_header_field_,
                   current_header_value_, headers_, is_complete_, result>>

\* Called with the last byte of the body, or of the headers when there is no
\* body; the pause ends the call of http_parser_execute and parse() answers OK.
on_message_complete ==
    /\ Running /\ phase = "body" /\ req.bad # "body" /\ pos = Len(req.body)
    /\ is_complete_' = "yes"
    /\ phase' = "done"
    /\ result' = "OK"
    /\ UNCHANGED <<req, hdr, pos, chunk, parts>>

-----------------------------------------------------------------------------
(* parse() *)

\* http_parser meets a byte it does not accept.  It is an error of parse() in
\* the first http_parser_execute; the outcome of the second is not looked at.
Malformed ==
    /\ Running
    /\ \/ phase = "end" /\ req.bad = "headers"
       \/ phase = "body" /\ req.bad = "body"
    /\ Consume
    /\ errno' = "error"
    /\ result' = IF pass = 1 THEN "ERROR"
                 ELSE IF is_complete_ = "yes" THEN "OK" ELSE "INDETERMINATE"
    /\ UNCHANGED <<wire, mark, pass, parts, is_complete_>>

\* The chunk ends; the next one begins when there is more to send.  A message
\* that is complete ends the call before the chunk does.
Return ==
    /\ Running /\ fed = "some"
    /\ ~(phase = "body" /\ req.bad # "body" /\ pos = Len(req.body))
    /\ result' = IF is_complete_ = "yes" THEN "OK" ELSE "INDETERMINATE"
    /\ mark' = "none" /\ fed' = "none" /\ pass' = 1
    /\ UNCHANGED <<wire, errno, parts, is_complete_>>

\* parse() with a chunk that follows an error: http_parser consumes nothing.
NextChunkAfterError ==
    /\ result = "INDETERMINATE" /\ errno = "error"
    /\ result' = "ERROR"
    /\ UNCHANGED <<wire, chunk, parts, is_complete_>>

\* HttpConnection has its answer and does not call parse() again.
Answered == result # "INDETERMINATE" /\ UNCHANGED vars

Next ==
    \/ Blank \/ on_message_begin
    \/ on_url \/ EndOfUrl
    \/ on_header_field \/ EndOfField \/ on_header_value \/ EndOfValue
    \/ on_headers_complete \/ on_body \/ on_message_complete
    \/ Malformed \/ Return \/ NextChunkAfterError
    \/ Answered

Spec == Init /\ [][Next]_vars

-----------------------------------------------------------------------------
(* What the request means, wherever the chunks are cut *)

Names(k) == {req.headers[i].name : i \in 1 .. k}

\* The headers of the request as a map: the last of several with a name counts.
HeaderMap(k) ==
    [f \in Names(k) |->
        LET i == CHOOSE i \in 1 .. k : /\ req.headers[i].name = f
                                       /\ \A j \in i + 1 .. k : req.headers[j].name # f
        IN  req.headers[i].value]

\* The body that is handed on is the body that was sent, at every moment the
\* part that has arrived, whatever the chunks.  (on_body appends.)
BodyFaithful == body_ = SubSeq(req.body, 1, IF phase \in {"body", "done"} THEN pos ELSE 0)

AllValued == \A i \in 1 .. Len(req.headers) : req.headers[i].value # <<>>

\* A request whose headers all have a value reaches the handler with exactly
\* these headers, whatever the chunks, and whatever element a chunk was cut in.
HeadersFaithful ==
    phase = "done" /\ AllValued => headers_ = HeaderMap(Len(req.headers))

\* Nothing but the end of the url is ever taken for the url: bytes may be
\* missing in front, never in the middle or at the end.
UrlIsSuffix ==
    phase \notin {"blank", "url"} =>
        \E k \in 0 .. Len(req.url) : url_ = SubSeq(req.url, k + 1, Len(req.url))

\* A request that does not begin with an empty line is handed on only when all
\* of it has been read, wherever the chunks end, and never when it is malformed,
\* although parse() does not look at what its second http_parser_execute returns.
\* (After an empty line alone, is_complete_ is still uninitialised.)
EndOfMessageDetected ==
    req.blanks = 0 /\ result = "OK" => phase = "done" /\ req.bad = "no"

\* The parser's state is always one its callbacks can have made, and parse() says
\* OK only at the end of the message.
MessageEnds == TypeOK /\ EndOfMessageDetected

(***************************************************************************)
(* The inductive invariant behind these properties.                        *)
(***************************************************************************)

\* The next byte lies in the element that phase names.
WireInv ==
    /\ phase \in {"blank", "url"} => hdr = 1
    /\ phase = "blank" => pos <= req.blanks
    /\ phase = "url" => pos <= Len(req.url)
    /\ phase \in {"field", "value"} => hdr <= Len(req.headers)
    /\ phase = "field" => pos <= Len(req.headers[hdr].name)
    /\ phase = "value" => pos <= Len(req.headers[hdr].value)
    /\ phase \in {"end", "body", "done"} => hdr = Len(req.headers) + 1
    /\ phase = "end" => pos = 0
    /\ phase \in {"body", "done"} => pos <= Len(req.body)

\* is_complete_ means something from on_message_begin on; before it, a request
\* without empty lines has no byte that a chunk could end after.
CompleteInv ==
    /\ phase = "blank" /\ req.blanks = 0 => fed = "none" /\ result = "INDETERMINATE"
    /\ phase \notin {"blank", "done"} => is_complete_ = "no" /\ result # "OK"
    /\ phase \in {"body", "done"} => req.bad # "headers"
    /\ phase = "done" => req.bad # "body"
    /\ errno = "error" => phase \in {"end", "body"}

\* What url_ holds of a url that has a part in this chunk.
UrlInv ==
    phase = "url" /\ mark = "set" =>
        \E k \in 0 .. pos : url_ = SubSeq(req.url, k + 1, pos)

\* headers_ holds the first k headers: under each name the last of its values.
LastOf(f, i, k) ==
    /\ i \in 1 .. k
    /\ req.headers[i].name = f
    /\ \A j \in i + 1 .. k : req.headers[j].name # f

HeadersHeld(k) ==
    /\ headers_ = [f \in Names(k) |-> headers_[f]]
    /\ \A f \in Names(k) : \E i \in 1 .. k : LastOf(f, i, k) /\ headers_[f] = req.headers[i].value

\* The first k headers have been read: the last of them is still in
\* current_header_field_ and current_header_value_.
HeadersRead(k) ==
    \/ /\ k = 0
       /\ HeadersHeld(0) /\ current_header_field_ = <<>> /\ current_header_value_ = <<>>
    \/ /\ k > 0
       /\ HeadersHeld(k - 1)
       /\ current_header_field_ = req.headers[k].name
       /\ current_header_value_ = req.headers[k].value

HeaderInv ==
    AllValued =>
        /\ phase \in {"blank", "url"} => HeadersRead(0)
        /\ phase = "field" /\ pos = 0 => HeadersRead(hdr - 1)
        /\ phase = "field" /\ pos > 0 =>
              /\ HeadersHeld(hdr - 1)
              /\ current_header_field_ = SubSeq(req.headers[hdr].name, 1, pos)
              /\ current_header_value_ = <<>>
        /\ phase = "value" =>
              /\ HeadersHeld(hdr - 1)
              /\ current_header_field_ = req.headers[hdr].name
              /\ current_header_value_ = SubSeq(req.headers[hdr].value, 1, pos)
        /\ phase = "end" => HeadersRead(Len(req.headers))
        /\ phase \in {"body", "done"} => HeadersHeld(Len(req.headers))

Inductive ==
    /\ TypeOK
    /\ WireInv
    /\ CompleteInv
    /\ BodyFaithful
    /\ UrlInv /\ UrlIsSuffix
    /\ HeaderInv
=============================================================================
