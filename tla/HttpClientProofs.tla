-------------------------- MODULE HttpClientProofs --------------------------
(***************************************************************************)
(* The proofs of ExchangeFaithful and OutcomeRight: one call of            *)
(* HTTPClient::execute() for every request, every answer, every way to cut *)
(* the answer into blocks and every end of the connection.                 *)
(***************************************************************************)
EXTENDS HttpClient, SequenceTheorems, FiniteSetTheorems, TLAPS

\* A place that answer r has.
Within(r, p) ==
  /\ p.kind = "digit" => p.pos \in 1 .. Len(r.status)
  /\ p.kind \in {"field", "value"} =>
       p.no \in 1 .. Len(r.headers) /\ p.pos \in 1 .. Len(Text(r, p))
  /\ p.kind \notin {"field", "value"} => p.no = 0
  /\ p.kind \in {"end", "body", "last"} => r.bad # "headers"
  /\ p.kind = "body" => p.pos \in 1 .. Len(r.body)
  /\ p.kind = "last" => r.framing = "chunked" /\ r.bad = "no"
  /\ p.kind = "bad" => r.bad # "no"
  /\ p.kind = "extra" => p.pos \in 1 .. r.extra

\* The items between the peer and http_parser are those of consecutive places.
QueueInv ==
  /\ Within(resp, at) /\ Within(resp, sent)
  /\ pc \in {"build", "write"} => inbox = <<>> /\ at = Start /\ sent = Start /\ block = 0
  /\ \A i \in 1 .. Len(inbox) :
       /\ Within(resp, inbox[i]) /\ inbox[i].kind # "over"
       /\ inbox[i] = (IF i = 1 THEN at ELSE After(resp, inbox[i - 1]))
  /\ net = "open" => sent = (IF inbox = <<>> THEN at ELSE After(resp, inbox[Len(inbox)]))

\* How far the parser is, by what it was given.
FlowInv ==
  /\ parser.status_code = SubSeq(resp.status, 1, IF at.kind = "begin" THEN 0
                                                 ELSE IF at.kind = "digit" THEN at.pos - 1
                                                 ELSE Len(resp.status))
  /\ parser.stop # "error" => ~BadRead /\ parser.body = SubSeq(resp.body, 1, BodyRead)
  /\ parser.stop = "no" =>
       /\ (parser.phase = "body" <=> HeadRead)
       /\ at = Start \/ parser.is_complete = "no"
       /\ HeadRead /\ resp.framing = "length" => Len(parser.body) < resp.length
       /\ Past => at.kind = "over" /\ resp.framing # "chunked"
  /\ parser.stop = "error" => BadRead
  /\ parser.stop = "paused" =>
       /\ parser.is_complete = "yes" /\ HeadRead
       /\ Past \/ (block = 0 /\ ec # "no")

\* How the loop goes on, and how the call ended.
LoopInv ==
  /\ pc \in {"build", "write"} => parser.stop = "no" /\ parser.headers = [f \in {} |-> <<>>]
  /\ pc \in {"build", "write", "read"} => ec = "no"
  /\ pc \in {"build", "write", "read"} => block = 0
  /\ pc = "read" => parser.stop = "no" /\ net # "none"
  /\ pc = "parse" => net # "none"
  /\ pc = "parse" /\ at = Start => block > 0 \/ ec # "no"
  /\ pc = "done" => block = 0
  /\ outcome = "response" => parser.stop # "error" /\ (ec # "no" \/ parser.stop = "paused")
  /\ outcome = "HTTPClientError" => at = Start \/ parser.stop = "error"
  /\ outcome = "undefined" => at = Start

\* Header n is in the two current_header_ strings.
Pending(n) ==
  IF n = 0 THEN parser.field = <<>> /\ parser.value = <<>>
  ELSE parser.field = resp.headers[n].name /\ parser.value = resp.headers[n].value

Valued == \A n \in 1 .. Len(resp.headers) : resp.headers[n].value # <<>>

\* Table h has the headers S of answer r, of several with a name the last.
Holds(r, h, S) ==
  /\ DOMAIN h = {r.headers[n].name : n \in S}
  /\ \A f \in DOMAIN h : \E n \in S :
       /\ r.headers[n].name = f /\ h[f] = r.headers[n].value
       /\ \A m \in S : r.headers[m].name = f => m <= n

\* The two current_header_ strings, by the place that the parser has reached.
Strings ==
  /\ at.kind \in {"begin", "digit"} => Pending(0)
  /\ at.kind = "field" /\ at.pos = 1 => Pending(at.no - 1)
  /\ at.kind = "field" /\ at.pos > 1 =>
       parser.value = <<>> /\ parser.field = SubSeq(resp.headers[at.no].name, 1, at.pos - 1)
  /\ at.kind = "value" =>
       /\ parser.field = resp.headers[at.no].name
       /\ parser.value = SubSeq(resp.headers[at.no].value, 1, at.pos - 1)
  /\ at.kind = "end" => Pending(Len(resp.headers))

HeaderInv ==
  Valued /\ parser.stop # "error" =>
    Holds(resp, parser.headers, Seen) /\ (parser.stop = "no" => Strings)

\* What a sequence of setter calls leaves in the request.
Setters == [set : {"header"}, key : Keys, val : Vals] \cup [set : {"body"}, content : {"text"}]
             \cup [set : {"form"}, pairs : SUBSET Pairs]
Calls(s, k) == {i \in 1 .. Len(s) : s[i].set = k}
Heads(s, k) == {i \in Calls(s, "header") : s[i].key = k}
Since(s) == {i \in Calls(s, "form") : \A j \in Calls(s, "body") : j < i}
Content(s) == (IF Calls(s, "body") # {} THEN {"text"} ELSE {}) \cup UNION {s[i].pairs : i \in Since(s)}
In(s) == {s[i] : i \in 1 .. Len(s)}

SetTypes ==
  /\ calls \in Seq(Setters) /\ body_ \in Seq({"text"} \cup Pairs)
  /\ DOMAIN headers_ \subseteq Keys /\ headers_ \in [DOMAIN headers_ -> Vals]
  /\ mime_ \in {"", "given", "urlencoded"}
SetInv ==
  /\ \A k \in DOMAIN headers_ : \E i \in Heads(calls, k) :
       headers_[k] = calls[i].val /\ \A j \in Heads(calls, k) : i <= j
  /\ \A i \in Calls(calls, "header") : calls[i].key \in DOMAIN headers_
  /\ In(body_) = Content(calls)
  /\ mime_ = (IF Since(calls) # {} THEN "urlencoded"
              ELSE IF Calls(calls, "body") # {} THEN "given" ELSE "")
WrittenInv == Reading => request = Message

ParserType(q) ==
  /\ q \in [status_code : Seq(Bytes), field : Seq(Bytes), value : Seq(Bytes), headers : {q.headers},
            body : Seq(Bytes), is_complete : {"no", "yes"}, phase : {"head", "body"},
            stop : {"no", "paused", "error"}]
  /\ q.headers \in [DOMAIN q.headers -> Seq(Bytes)]
Types == TypeOK /\ SetTypes /\ ParserType(parser)

Inductive == Types /\ QueueInv /\ FlowInv /\ LoopInv /\ HeaderInv /\ SetInv /\ WrittenInv

-----------------------------------------------------------------------------
(* Strings and places *)

\* A part of a string and the byte after it are the part that ends there.
LEMMA PartGrows ==
  ASSUME NEW s \in Seq(Bytes), NEW p \in Nat, p < Len(s)
  PROVE  /\ Append(SubSeq(s, 1, p), s[p + 1]) = SubSeq(s, 1, p + 1)
         /\ Append(<<>>, s[1]) = SubSeq(s, 1, 1)
         /\ SubSeq(s, 1, p) \in Seq(Bytes) /\ Len(SubSeq(s, 1, p)) = p
         /\ s[p + 1] \in Bytes
  <1>1. p + 1 \in 1 .. Len(s) /\ 1 \in 1 .. Len(s) /\ Len(s) \in Nat
    OBVIOUS
  <1>2. s[p + 1] \in Bytes /\ s[1] \in Bytes
    BY <1>1
  <1>3. SubSeq(s, 1, p) \in Seq(Bytes) /\ Len(SubSeq(s, 1, p)) = p
    BY <1>1
  <1>4. \A i \in 1 .. p : SubSeq(s, 1, p)[i] = s[i]
    BY <1>1
  <1>5. Append(SubSeq(s, 1, p), s[p + 1]) = SubSeq(s, 1, p + 1)
    <2> DEFINE a == Append(SubSeq(s, 1, p), s[p + 1])
               b == SubSeq(s, 1, p + 1)
    <2>1. a \in Seq(Bytes) /\ b \in Seq(Bytes) /\ Len(a) = p + 1 /\ Len(b) = p + 1
      BY <1>1, <1>2, <1>3
    <2>2. \A i \in 1 .. p + 1 : a[i] = b[i]
      BY <1>1, <1>2, <1>3, <1>4
    <2> QED
      BY <2>1, <2>2
  <1>6. Append(<<>>, s[1]) = SubSeq(s, 1, 1)
    BY <1>1, <1>2
  <1> QED
    BY <1>2, <1>3, <1>5, <1>6

LEMMA WholeString ==
  ASSUME NEW s \in Seq(Bytes)
  PROVE  SubSeq(s, 1, Len(s)) = s /\ SubSeq(s, 1, 0) = <<>>
  OBVIOUS

\* What an answer is made of.
LEMMA AnswerParts ==
  ASSUME NEW r \in Responses
  PROVE  /\ r.status \in Seq(Bytes) /\ Len(r.status) \in Nat /\ Len(r.status) > 0
         /\ r.body \in Seq(Bytes) /\ Len(r.body) \in Nat
         /\ Len(r.headers) \in Nat
         /\ r.framing \in {"length", "chunked", "close"} /\ r.bad \in {"no", "headers", "body"}
         /\ r.length \in Nat /\ r.extra \in Nat
         /\ r.framing = "length" => Len(r.body) <= r.length
         /\ r.bad = "body" => r.framing = "chunked"
         /\ r.extra > 0 /\ r.bad = "no" =>
              r.framing = "chunked" \/ (r.framing = "length" /\ Len(r.body) = r.length)
         /\ \A n \in 1 .. Len(r.headers) :
              /\ r.headers[n].name \in Seq(Bytes) /\ r.headers[n].value \in Seq(Bytes)
              /\ Len(r.headers[n].name) \in Nat /\ Len(r.headers[n].name) > 0
              /\ Len(r.headers[n].value) \in Nat
              /\ r.headers[n].value # <<>> => Len(r.headers[n].value) > 0
  <1> DEFINE Hs == [name : Seq(Bytes) \ {<<>>}, value : Seq(Bytes)]
  <1>1. /\ r.status \in Seq(Bytes) /\ r.status # <<>> /\ r.headers \in Seq(Hs)
        /\ r.framing \in {"length", "chunked", "close"} /\ r.body \in Seq(Bytes)
        /\ r.length \in Nat /\ (r.framing = "length" => Len(r.body) <= r.length)
        /\ r.bad \in {"no", "headers", "body"} /\ (r.bad = "body" => r.framing = "chunked")
        /\ r.extra \in Nat
        /\ r.extra > 0 /\ r.bad = "no" =>
              r.framing = "chunked" \/ (r.framing = "length" /\ Len(r.body) = r.length)
    BY ClientAssumption DEF ClientAssumption
  <1>2. ASSUME NEW s \in Seq(Bytes) PROVE Len(s) \in Nat /\ (s # <<>> => Len(s) > 0)
    OBVIOUS
  <1> HIDE DEF Hs
  <1>3. Len(r.headers) \in Nat /\ \A n \in 1 .. Len(r.headers) : r.headers[n] \in Hs
    BY <1>1
  <1>4. \A n \in 1 .. Len(r.headers) :
           r.headers[n].name \in Seq(Bytes) /\ r.headers[n].name # <<>> /\ r.headers[n].value \in Seq(Bytes)
    BY <1>3 DEF Hs
  <1> QED
    BY <1>1, <1>2, <1>3, <1>4

\* The place after a place that the answer has is one, too.
LEMMA NextPlace ==
  ASSUME NEW r \in Responses, NEW p \in Places, Within(r, p), p.kind # "over"
  PROVE  After(r, p) \in Places /\ Within(r, After(r, p))
  <1>1. CASE p.kind \in {"digit", "field", "value", "body"} /\ p.pos < Len(Text(r, p))
    BY <1>1, AnswerParts DEF After, Text, Places, Kinds, Within
  <1>2. CASE p.kind \in {"digit", "field", "value"} /\ ~(p.pos < Len(Text(r, p)))
    <2>1. After(r, p) \in {HeaderPlace(r, 1), HeaderPlace(r, p.no + 1), Place("value", p.no, 1)}
      BY <1>2 DEF After
    <2>2. p.kind \in {"field", "value"} => p.no \in 1 .. Len(r.headers)
      BY DEF Within
    <2>3. ASSUME NEW n \in Nat, n > 0
          PROVE  HeaderPlace(r, n) \in Places /\ Within(r, HeaderPlace(r, n))
      <3>1. CASE n <= Len(r.headers)
        <4>1. HeaderPlace(r, n) = [kind |-> "field", no |-> n, pos |-> 1]
          BY <3>1 DEF HeaderPlace, Place
        <4>2. n \in 1 .. Len(r.headers)
          BY <2>3, <3>1, AnswerParts
        <4>3. Len(r.headers[n].name) \in Nat /\ Len(r.headers[n].name) > 0
          BY <4>2, AnswerParts
        <4>4. Text(r, HeaderPlace(r, n)) = r.headers[n].name
          BY <4>1 DEF Text
        <4> QED
          BY <4>1, <4>2, <4>3, <4>4 DEF Places, Kinds, Within
      <3>2. CASE ~(n <= Len(r.headers))
        BY <3>2, AnswerParts DEF HeaderPlace, Place, Places, Kinds, Within
      <3> QED
        BY <3>1, <3>2
    <2>4. CASE p.kind = "digit"
      BY <1>2, <2>3, <2>4 DEF After
    <2>5. CASE p.kind \in {"field", "value"} /\ After(r, p) = HeaderPlace(r, p.no + 1)
      BY <2>2, <2>3, <2>5, AnswerParts
    <2>6. CASE p.kind = "field" /\ r.headers[p.no].value # <<>>
      <3>1. After(r, p) = Place("value", p.no, 1)
        BY <1>2, <2>6 DEF After
      <3> QED
        BY <3>1, <2>2, <2>6, AnswerParts DEF Place, Places, Kinds, Within, Text
    <2> QED
      BY <1>2, <2>4, <2>5, <2>6 DEF After
  <1>3. CASE p.kind = "begin"
    BY <1>3, AnswerParts DEF After, Text, Place, Places, Kinds, Within
  <1>4. CASE p.kind \in {"end", "last", "bad", "extra"} \/ (p.kind = "body" /\ ~(p.pos < Len(Text(r, p))))
    <2>1. (Text(r, p) = <<>> /\ ~(p.pos < Len(Text(r, p)))) \/ p.kind = "body"
      BY <1>4 DEF Text, Places
    <2>2. ASSUME NEW n \in Nat, n > 0
          PROVE  ExtraPlace(r, n) \in Places /\ Within(r, ExtraPlace(r, n))
      BY <2>2, AnswerParts DEF ExtraPlace, Place, Places, Kinds, Within
    <2>3. ASSUME NEW n \in Nat, n > 0, r.bad # "headers"
          PROVE  BodyPlace(r, n) \in Places /\ Within(r, BodyPlace(r, n))
      <3>1. CASE n <= Len(r.body)
        BY <2>3, <3>1, AnswerParts DEF BodyPlace, Place, Places, Kinds, Within
      <3>2. CASE n > Len(r.body) /\ (r.bad = "body" \/ r.framing = "chunked")
        BY <2>3, <3>2, AnswerParts DEF BodyPlace, Place, Places, Kinds, Within
      <3>3. CASE n > Len(r.body) /\ r.bad # "body" /\ r.framing # "chunked"
        <4>1. BodyPlace(r, n) = ExtraPlace(r, 1)
          BY <3>3, AnswerParts DEF BodyPlace
        <4> QED
          BY <4>1, <2>2
      <3> QED
        BY <2>3, <3>1, <3>2, <3>3, AnswerParts
    <2>4. CASE p.kind = "end"
      BY <2>1, <2>3, <2>4 DEF After, Within
    <2>5. CASE p.kind = "body"
      <3>1. After(r, p) = BodyPlace(r, p.pos + 1)
        BY <1>4, <2>5 DEF After
      <3>2. p.pos + 1 \in Nat /\ p.pos + 1 > 0 /\ r.bad # "headers"
        BY <2>5 DEF Within, Places
      <3> QED
        BY <3>1, <3>2, <2>3
    <2>6. CASE p.kind \in {"last", "bad"}
      BY <2>1, <2>2, <2>6 DEF After
    <2>7. CASE p.kind = "extra"
      <3>1. After(r, p) = ExtraPlace(r, p.pos + 1)
        BY <2>1, <2>7 DEF After
      <3> QED
        BY <3>1, <2>2, <2>7 DEF Places
    <2> QED
      BY <1>4, <2>4, <2>5, <2>6, <2>7
  <1> QED
    BY <1>1, <1>2, <1>3, <1>4 DEF Places, Kinds

-----------------------------------------------------------------------------
(* The request *)

\* SetToSeq lists a finite set.
LEMMA ListsAll ==
  ASSUME NEW S, IsFiniteSet(S)
  PROVE  SetToSeq(S) \in Seq(S) /\ In(SetToSeq(S)) = S
  <1> DEFINE n == Cardinality(S)
             f == SetToSeq(S)
  <1>1. n \in Nat /\ \E g \in [1 .. n -> S] : IsInjective(g)
    <2>1. n \in Nat /\ ExistsBijection(1 .. n, S)
      BY FS_CardinalityType
    <2> QED
      BY <2>1 DEF ExistsBijection, Bijection, Injection
  <1>2. f \in [1 .. n -> S] /\ IsInjective(f)
    BY <1>1 DEF SetToSeq
  <1> HIDE DEF f
  <1>3. f \in Injection(1 .. n, S)
    BY <1>2 DEF Injection
  <1>4. Cardinality(1 .. n) = n
    BY <1>1, FS_Interval
  <1>5. f \in Surjection(1 .. n, S)
    BY <1>3, <1>4, FS_Injection
  <1>6. f \in Seq(S) /\ Len(f) = n
    BY <1>1, <1>2
  <1>7. In(f) = S
    BY <1>2, <1>5, <1>6 DEF In, Surjection
  <1> QED
    BY <1>6, <1>7 DEF f

LEMMA JoinedIn ==
  ASSUME NEW T, NEW s \in Seq(T), NEW t \in Seq(T)
  PROVE  s \o t \in Seq(T) /\ In(s \o t) = In(s) \cup In(t)
  <1>1. s \o t \in Seq(T) /\ Len(s \o t) = Len(s) + Len(t) /\ Len(s) \in Nat /\ Len(t) \in Nat
    OBVIOUS
  <1>2. \A i \in 1 .. Len(s) : (s \o t)[i] = s[i]
    OBVIOUS
  <1>3. \A i \in 1 .. Len(t) : (s \o t)[Len(s) + i] = t[i]
    OBVIOUS
  <1>4. In(s \o t) \subseteq In(s) \cup In(t)
    <2> SUFFICES ASSUME NEW i \in 1 .. Len(s \o t)
                 PROVE  (s \o t)[i] \in In(s) \cup In(t)
      BY DEF In
    <2>1. CASE i <= Len(s)
      BY <2>1, <1>1, <1>2 DEF In
    <2>2. CASE i > Len(s)
      <3>1. i - Len(s) \in 1 .. Len(t) /\ i = Len(s) + (i - Len(s))
        BY <2>2, <1>1
      <3> QED
        BY <3>1, <1>3 DEF In
    <2> QED
      BY <2>1, <2>2, <1>1
  <1>5. In(s) \subseteq In(s \o t)
    <2>1. \A i \in 1 .. Len(s) : i \in 1 .. Len(s \o t)
      BY <1>1
    <2> QED
      BY <2>1, <1>2 DEF In
  <1>6. In(t) \subseteq In(s \o t)
    <2>1. \A i \in 1 .. Len(t) : Len(s) + i \in 1 .. Len(s \o t)
      BY <1>1
    <2> QED
      BY <2>1, <1>3 DEF In
  <1> QED
    BY <1>1, <1>4, <1>5, <1>6

\* What one more call changes.
LEMMA NewCall ==
  ASSUME NEW s \in Seq(Setters), NEW x \in Setters, NEW t, t = Append(s, x), NEW n, n = Len(s) + 1
  PROVE  /\ t \in Seq(Setters) /\ Len(t) = n /\ n \in Nat /\ t[n] = x
         /\ \A i \in 1 .. Len(s) : t[i] = s[i] /\ i < n
         /\ 1 .. Len(t) = 1 .. Len(s) \cup {n}
  OBVIOUS

LEMMA HeaderSet ==
  ASSUME SetTypes, SetInv, NEW k \in Keys, NEW v \in Vals, setHeader(k, v)
  PROVE  SetTypes' /\ SetInv'
  <1> DEFINE x == [set |-> "header", key |-> k, val |-> v]
             n == Len(calls) + 1
  <1>1. x \in Setters /\ x.set = "header" /\ calls \in Seq(Setters)
    BY DEF Setters, SetTypes
  <1>2. /\ calls' = Append(calls, x) /\ body_' = body_ /\ mime_' = mime_
        /\ headers_' = IF k \in DOMAIN headers_ THEN headers_
                       ELSE [y \in DOMAIN headers_ \cup {k} |-> IF y = k THEN v ELSE headers_[y]]
    BY DEF setHeader
  <1>3. /\ calls' \in Seq(Setters) /\ n \in Nat /\ calls'[n] = x
        /\ \A i \in 1 .. Len(calls) : calls'[i] = calls[i] /\ i < n
        /\ Calls(calls', "header") = Calls(calls, "header") \cup {n}
        /\ Calls(calls', "body") = Calls(calls, "body")
        /\ Calls(calls', "form") = Calls(calls, "form")
        /\ \A l : Calls(calls, l) \subseteq 1 .. Len(calls)
    <2>1. calls' = Append(calls, x)
      BY <1>2
    <2> HIDE DEF x, n
    <2>2. n = Len(calls) + 1
      BY DEF n
    <2> DEFINE c == calls'
    <2>3. c = Append(calls, x)
      BY <2>1
    <2> HIDE DEF c
    <2>4. c \in Seq(Setters) /\ n \in Nat /\ c[n] = x
      BY <1>1, <2>2, <2>3, NewCall
    <2>5. \A i \in 1 .. Len(calls) : c[i] = calls[i] /\ i < n
      BY <1>1, <2>2, <2>3, NewCall
    <2>6. 1 .. Len(c) = 1 .. Len(calls) \cup {n}
      BY <1>1, <2>2, <2>3, NewCall
    <2>8. Calls(c, "header") = Calls(calls, "header") \cup {n}
      BY <1>1, <2>4, <2>5, <2>6 DEF Calls
    <2>9. Calls(c, "body") = Calls(calls, "body") /\ Calls(c, "form") = Calls(calls, "form")
      BY <1>1, <2>4, <2>5, <2>6 DEF Calls
    <2>7. \A l : Calls(calls, l) \subseteq 1 .. Len(calls)
      BY DEF Calls
    <2> QED
      BY <2>4, <2>5, <2>7, <2>8, <2>9 DEF c
  <1> HIDE DEF x, n
  <1>4. /\ DOMAIN headers_' = DOMAIN headers_ \cup {k}
        /\ \A y \in DOMAIN headers_ : headers_'[y] = headers_[y]
        /\ k \notin DOMAIN headers_ => headers_'[k] = v
    BY <1>2
  <1>5. SetTypes'
    <2>1. headers_' \in [DOMAIN headers_' -> Vals]
      BY <1>2, <1>4 DEF SetTypes
    <2> QED
      BY <2>1, <1>2, <1>3, <1>4 DEF SetTypes
  <1>6. Since(calls') = Since(calls) /\ Content(calls') = Content(calls)
    BY <1>3 DEF Since, Content
  <1>7. ASSUME NEW y \in DOMAIN headers_'
        PROVE  \E i \in Heads(calls', y) :
                 headers_'[y] = calls'[i].val /\ \A j \in Heads(calls', y) : i <= j
    <2>1. Heads(calls', y) = Heads(calls, y) \cup (IF y = k THEN {n} ELSE {})
      BY <1>3 DEF Heads, x
    <2>2. Heads(calls, y) \subseteq 1 .. Len(calls)
      BY <1>3 DEF Heads
    <2>3. CASE y \in DOMAIN headers_
      <3>1. PICK i \in Heads(calls, y) :
               headers_[y] = calls[i].val /\ \A j \in Heads(calls, y) : i <= j
        BY <2>3 DEF SetInv
      <3>2. i \in Heads(calls', y) /\ i <= n /\ calls'[i] = calls[i]
        BY <3>1, <2>1, <2>2, <1>3
      <3> QED
        BY <3>1, <3>2, <2>1, <2>3, <1>4
    <2>4. CASE y \notin DOMAIN headers_
      <3>1. y = k /\ headers_'[y] = v
        BY <2>4, <1>4
      <3>2. \A i \in Calls(calls, "header") : calls[i].key \in DOMAIN headers_
        BY DEF SetInv
      <3>3. Heads(calls, y) = {}
        BY <2>4, <3>2 DEF Heads
      <3> QED
        BY <3>1, <3>3, <2>1, <1>3 DEF x
    <2> QED
      BY <2>3, <2>4
  <1>8. \A i \in Calls(calls', "header") : calls'[i].key \in DOMAIN headers_'
    <2>1. \A i \in Calls(calls, "header") : i \in 1 .. Len(calls) /\ calls[i].key \in DOMAIN headers_
      BY <1>3 DEF SetInv
    <2>2. calls'[n].key = k
      BY <1>3 DEF x
    <2> QED
      BY <2>1, <2>2, <1>3, <1>4
  <1> QED
    BY <1>2, <1>3, <1>5, <1>6, <1>7, <1>8 DEF SetInv

LEMMA BodySet ==
  ASSUME SetTypes, SetInv, setBody("text")
  PROVE  SetTypes' /\ SetInv'
  <1> DEFINE x == [set |-> "body", content |-> "text"]
             n == Len(calls) + 1
  <1>1. x \in Setters /\ x.set = "body" /\ calls \in Seq(Setters)
    BY DEF Setters, SetTypes
  <1>2. calls' = Append(calls, x) /\ body_' = <<"text">> /\ mime_' = "given" /\ headers_' = headers_
    BY DEF setBody
  <1>3. /\ calls' \in Seq(Setters) /\ n \in Nat /\ calls'[n] = x
        /\ \A i \in 1 .. Len(calls) : calls'[i] = calls[i] /\ i < n
        /\ Calls(calls', "header") = Calls(calls, "header")
        /\ Calls(calls', "body") = Calls(calls, "body") \cup {n}
        /\ Calls(calls', "form") = Calls(calls, "form")
        /\ \A l : Calls(calls, l) \subseteq 1 .. Len(calls)
    <2>1. calls' = Append(calls, x)
      BY <1>2
    <2> HIDE DEF x, n
    <2>2. n = Len(calls) + 1
      BY DEF n
    <2> DEFINE c == calls'
    <2>3. c = Append(calls, x)
      BY <2>1
    <2> HIDE DEF c
    <2>4. c \in Seq(Setters) /\ n \in Nat /\ c[n] = x
      BY <1>1, <2>2, <2>3, NewCall
    <2>5. \A i \in 1 .. Len(calls) : c[i] = calls[i] /\ i < n
      BY <1>1, <2>2, <2>3, NewCall
    <2>6. 1 .. Len(c) = 1 .. Len(calls) \cup {n}
      BY <1>1, <2>2, <2>3, NewCall
    <2>8. Calls(c, "body") = Calls(calls, "body") \cup {n}
      BY <1>1, <2>4, <2>5, <2>6 DEF Calls
    <2>9. Calls(c, "header") = Calls(calls, "header") /\ Calls(c, "form") = Calls(calls, "form")
      BY <1>1, <2>4, <2>5, <2>6 DEF Calls
    <2>7. \A l : Calls(calls, l) \subseteq 1 .. Len(calls)
      BY DEF Calls
    <2> QED
      BY <2>4, <2>5, <2>7, <2>8, <2>9 DEF c
  <1> HIDE DEF x, n
  <1>4. Since(calls') = {}
    <2>1. \A i \in Calls(calls', "form") : ~(n < i)
      BY <1>3
    <2> QED
      BY <2>1, <1>3 DEF Since
  <1>5. Content(calls') = {"text"} /\ In(body_') = {"text"}
    <2>1. Len(body_') = 1 /\ body_'[1] = "text"
      BY <1>2
    <2>2. In(body_') = {"text"}
      BY <2>1 DEF In
    <2> QED
      BY <2>2, <1>3, <1>4 DEF Content
  <1>6. \A y : Heads(calls', y) = Heads(calls, y) /\ Heads(calls, y) \subseteq 1 .. Len(calls)
    BY <1>3 DEF Heads
  <1>7. SetTypes'
    <2>1. body_' \in Seq({"text"} \cup Pairs)
      BY <1>2
    <2> QED
      BY <2>1, <1>2, <1>3 DEF SetTypes
  <1>8. \A y \in DOMAIN headers_' : \E i \in Heads(calls', y) :
           headers_'[y] = calls'[i].val /\ \A j \in Heads(calls', y) : i <= j
    BY <1>2, <1>3, <1>6 DEF SetInv
  <1>9. \A i \in Calls(calls', "header") : calls'[i].key \in DOMAIN headers_'
    BY <1>2, <1>3 DEF SetInv
  <1>10. Calls(calls', "body") # {}
    BY <1>3
  <1> QED
    BY <1>2, <1>4, <1>5, <1>7, <1>8, <1>9, <1>10 DEF SetInv

LEMMA FormSet ==
  ASSUME SetTypes, SetInv, NEW pairs \in SUBSET Pairs, setBodyURLEncoded(pairs)
  PROVE  SetTypes' /\ SetInv'
  <1> DEFINE x == [set |-> "form", pairs |-> pairs]
             n == Len(calls) + 1
  <1>1. x \in Setters /\ x.set = "form" /\ calls \in Seq(Setters)
    BY DEF Setters, SetTypes
  <1>2. /\ calls' = Append(calls, x) /\ body_' = body_ \o SetToSeq(pairs)
        /\ mime_' = "urlencoded" /\ headers_' = headers_
    BY DEF setBodyURLEncoded
  <1>3. /\ calls' \in Seq(Setters) /\ n \in Nat /\ calls'[n] = x
        /\ \A i \in 1 .. Len(calls) : calls'[i] = calls[i] /\ i < n
        /\ Calls(calls', "header") = Calls(calls, "header")
        /\ Calls(calls', "body") = Calls(calls, "body")
        /\ Calls(calls', "form") = Calls(calls, "form") \cup {n}
        /\ \A l : Calls(calls, l) \subseteq 1 .. Len(calls)
    <2>1. calls' = Append(calls, x)
      BY <1>2
    <2> HIDE DEF x, n
    <2>2. n = Len(calls) + 1
      BY DEF n
    <2> DEFINE c == calls'
    <2>3. c = Append(calls, x)
      BY <2>1
    <2> HIDE DEF c
    <2>4. c \in Seq(Setters) /\ n \in Nat /\ c[n] = x
      BY <1>1, <2>2, <2>3, NewCall
    <2>5. \A i \in 1 .. Len(calls) : c[i] = calls[i] /\ i < n
      BY <1>1, <2>2, <2>3, NewCall
    <2>6. 1 .. Len(c) = 1 .. Len(calls) \cup {n}
      BY <1>1, <2>2, <2>3, NewCall
    <2>8. Calls(c, "form") = Calls(calls, "form") \cup {n}
      BY <1>1, <2>4, <2>5, <2>6 DEF Calls
    <2>9. Calls(c, "header") = Calls(calls, "header") /\ Calls(c, "body") = Calls(calls, "body")
      BY <1>1, <2>4, <2>5, <2>6 DEF Calls
    <2>7. \A l : Calls(calls, l) \subseteq 1 .. Len(calls)
      BY DEF Calls
    <2> QED
      BY <2>4, <2>5, <2>7, <2>8, <2>9 DEF c
  <1> HIDE DEF x, n
  <1>4. body_' \in Seq({"text"} \cup Pairs) /\ In(body_') = In(body_) \cup pairs
    <2>1. IsFiniteSet(pairs)
      BY ClientAssumption, FS_Subset DEF ClientAssumption
    <2>2. SetToSeq(pairs) \in Seq(pairs) /\ In(SetToSeq(pairs)) = pairs
      BY <2>1, ListsAll
    <2> DEFINE s == SetToSeq(pairs)
    <2> HIDE DEF s
    <2>3. s \in Seq({"text"} \cup Pairs)
      <3>1. s \in Seq(pairs)
        BY <2>2 DEF s
      <3>2. Len(s) \in Nat /\ s \in [1 .. Len(s) -> pairs]
        BY <3>1
      <3>3. s \in [1 .. Len(s) -> {"text"} \cup Pairs]
        BY <3>2
      <3> QED
        BY <3>2, <3>3
    <2>4. body_ \in Seq({"text"} \cup Pairs)
      BY DEF SetTypes
    <2> QED
      BY <2>2, <2>3, <2>4, <1>2, JoinedIn DEF s
  <1>5. Since(calls') = Since(calls) \cup {n}
    BY <1>3 DEF Since
  <1>6. Content(calls') = Content(calls) \cup pairs
    <2>1. \A i \in Since(calls) : i \in 1 .. Len(calls)
      BY <1>3 DEF Since
    <2>2. calls'[n].pairs = pairs /\ \A i \in Since(calls) : calls'[i].pairs = calls[i].pairs
      BY <2>1, <1>3 DEF x
    <2> DEFINE New == {calls'[i].pairs : i \in Since(calls')}
               Old == {calls[i].pairs : i \in Since(calls)}
    <2>3. New = Old \cup {pairs}
      BY <2>2, <1>5
    <2> HIDE DEF New, Old
    <2>4. UNION New = (UNION Old) \cup pairs
      BY <2>3
    <2>5. Calls(calls', "body") = Calls(calls, "body")
      BY <1>3
    <2> QED
      BY <2>4, <2>5 DEF Content, New, Old
  <1>7. SetTypes'
    BY <1>2, <1>3, <1>4 DEF SetTypes
  <1>8. \A y : Heads(calls', y) = Heads(calls, y) /\ Heads(calls, y) \subseteq 1 .. Len(calls)
    BY <1>3 DEF Heads
  <1>9. \A y \in DOMAIN headers_' : \E i \in Heads(calls', y) :
           headers_'[y] = calls'[i].val /\ \A j \in Heads(calls', y) : i <= j
    BY <1>2, <1>3, <1>8 DEF SetInv
  <1>10. \A i \in Calls(calls', "header") : calls'[i].key \in DOMAIN headers_'
    BY <1>2, <1>3 DEF SetInv
  <1>11. In(body_') = Content(calls') /\ Since(calls') # {}
    BY <1>4, <1>5, <1>6 DEF SetInv
  <1> QED
    BY <1>2, <1>7, <1>9, <1>10, <1>11 DEF SetInv

\* What the written request says, from what the setters left.
LEMMA RequestRight ==
  ASSUME SetTypes, SetInv, WrittenInv
  PROVE  RequestFaithful
  <1> DEFINE Sets(k)  == {i \in 1 .. Len(calls) : calls[i].set = k}
             since    == {i \in Sets("form") : \A j \in Sets("body") : j < i}
             heads(k) == {i \in Sets("header") : calls[i].key = k}
             first(k) == CHOOSE i \in heads(k) : \A j \in heads(k) : i <= j
             content  == {request.content[i] : i \in 1 .. Len(request.content)}
  <1> SUFFICES ASSUME Reading
               PROVE  /\ \A i \in Sets("header") :
                           <<calls[i].key, calls[first(calls[i].key)].val>> \in request.lines
                      /\ content = (IF Sets("body") # {} THEN {"text"} ELSE {})
                                     \cup UNION {calls[i].pairs : i \in since}
                      /\ content # {} =>
                           /\ <<"Content-Length", Len(request.content)>> \in request.lines
                           /\ <<"Content-Type", IF since = {} THEN "given" ELSE "urlencoded">>
                                \in request.lines
    BY DEF RequestFaithful
  <1>1. /\ request.lines = Lines \cup (IF body_ # <<>> THEN {<<"Content-Length", Len(body_)>>,
                                                             <<"Content-Type", mime_>>} ELSE {})
        /\ request.content = body_
    BY DEF WrittenInv, Message
  <1>2. /\ \A k : Sets(k) = Calls(calls, k)
        /\ \A k : heads(k) = Heads(calls, k)
        /\ since = Since(calls)
    BY DEF Calls, Heads, Since
  <1>3. content = In(body_)
    BY <1>1 DEF In
  <1>4. content = Content(calls)
    BY <1>3 DEF SetInv
  <1>5. ASSUME NEW i \in Sets("header")
        PROVE  <<calls[i].key, calls[first(calls[i].key)].val>> \in request.lines
    <2> DEFINE k == calls[i].key
    <2>1. k \in DOMAIN headers_
      <3>1. i \in Calls(calls, "header")
        BY <1>2
      <3>2. \A j \in Calls(calls, "header") : calls[j].key \in DOMAIN headers_
        BY DEF SetInv
      <3> QED
        BY <3>1, <3>2
    <2>2. PICK n \in Heads(calls, k) :
             headers_[k] = calls[n].val /\ \A j \in Heads(calls, k) : n <= j
      BY <2>1 DEF SetInv
    <2> HIDE DEF k
    <2>3. n \in heads(k) /\ \A j \in heads(k) : n <= j
      BY <2>2, <1>2
    <2>4. first(k) \in heads(k) /\ \A j \in heads(k) : first(k) <= j
      BY <2>3
    <2>5. \A j \in heads(k) : j \in Nat
      OBVIOUS
    <2> HIDE DEF first, heads
    <2>6. first(k) = n
      BY <2>3, <2>4, <2>5
    <2>7. <<k, headers_[k]>> \in Lines
      BY <2>1 DEF Lines, k
    <2> QED
      BY <2>2, <2>6, <2>7, <1>1 DEF k
  <1>6. ASSUME content # {}
        PROVE  /\ <<"Content-Length", Len(request.content)>> \in request.lines
               /\ <<"Content-Type", IF since = {} THEN "given" ELSE "urlencoded">> \in request.lines
    <2>1. body_ # <<>>
      BY <1>3, <1>6 DEF In
    <2>2. Since(calls) = {} => Calls(calls, "body") # {}
      BY <1>4, <1>6 DEF Content
    <2>3. mime_ = IF since = {} THEN "given" ELSE "urlencoded"
      BY <2>2, <1>2 DEF SetInv
    <2> QED
      BY <2>1, <2>3, <1>1
  <1>7. content = (IF Sets("body") # {} THEN {"text"} ELSE {}) \cup UNION {calls[i].pairs : i \in since}
    BY <1>2, <1>4 DEF Content
  <1> QED
    BY <1>5, <1>6, <1>7

-----------------------------------------------------------------------------
(* The initial state *)

LEMMA InitParser ==
  ASSUME Init
  PROVE  /\ parser.stop = "no" /\ parser.phase = "head" /\ parser.headers = [f \in {} |-> <<>>]
         /\ parser.field = <<>> /\ parser.value = <<>> /\ parser.body = <<>>
         /\ parser.status_code = <<>> /\ parser.is_complete \in {"no", "yes"}
         /\ parser = [status_code |-> <<>>, field |-> <<>>, value |-> <<>>, headers |-> parser.headers,
                      body |-> <<>>, is_complete |-> parser.is_complete, phase |-> "head", stop |-> "no"]
  <1>1. PICK garbage \in {"no", "yes"} : parser = NewParser(garbage)
    BY DEF Init
  <1> QED
    BY <1>1 DEF NewParser

LEMMA InitTypes == Init => Types
  <1> SUFFICES ASSUME Init PROVE Types
    OBVIOUS
  <1>1. calls = <<>> /\ body_ = <<>> /\ DOMAIN headers_ = {} /\ mime_ = ""
    BY DEF Init
  <1>2. SetTypes
    <2>1. headers_ = [k \in {} |-> "none"]
      BY DEF Init
    <2>2. headers_ \in [{} -> Vals]
      BY <2>1
    <2>3. <<>> \in Seq(Setters) /\ <<>> \in Seq({"text"} \cup Pairs)
      OBVIOUS
    <2> QED
      BY <2>2, <2>3, <1>1 DEF SetTypes
  <1>3. TypeOK
    <2>1. Start \in Places
      BY DEF Start, Place, Places, Kinds
    <2>2. inbox = <<>> /\ block = 0
      BY DEF Init
    <2>3. inbox \in Seq(Places) /\ block \in 0 .. Len(inbox)
      BY <2>2
    <2> QED
      BY <1>1, <2>1, <2>3, InitParser DEF Init, TypeOK
  <1>4. <<>> \in Seq(Bytes)
    OBVIOUS
  <1>5. parser.headers \in [DOMAIN parser.headers -> Seq(Bytes)]
    <2>1. DOMAIN parser.headers = {} /\ parser.headers = [f \in {} |-> <<>>]
      BY InitParser
    <2>2. parser.headers \in [{} -> Seq(Bytes)]
      BY <2>1
    <2> QED
      BY <2>1, <2>2
  <1>6. parser \in [status_code : Seq(Bytes), field : Seq(Bytes), value : Seq(Bytes),
                    headers : {parser.headers}, body : Seq(Bytes), is_complete : {"no", "yes"},
                    phase : {"head", "body"}, stop : {"no", "paused", "error"}]
    <2> DEFINE h == parser.headers
               c == parser.is_complete
    <2>1. parser = [status_code |-> <<>>, field |-> <<>>, value |-> <<>>, headers |-> h,
                    body |-> <<>>, is_complete |-> c, phase |-> "head", stop |-> "no"]
      BY InitParser
    <2>2. c \in {"no", "yes"}
      BY InitParser
    <2> HIDE DEF h, c
    <2>3. parser \in [status_code : Seq(Bytes), field : Seq(Bytes), value : Seq(Bytes),
                      headers : {h}, body : Seq(Bytes), is_complete : {"no", "yes"},
                      phase : {"head", "body"}, stop : {"no", "paused", "error"}]
      BY <2>1, <2>2, <1>4
    <2> QED
      BY <2>3 DEF h
  <1> QED
    BY <1>2, <1>3, <1>5, <1>6 DEF Types, ParserType

LEMMA InitSets == Init => SetInv /\ WrittenInv
  <1> SUFFICES ASSUME Init PROVE SetInv /\ WrittenInv
    OBVIOUS
  <1>1. Len(calls) = 0 /\ Len(body_) = 0 /\ DOMAIN headers_ = {} /\ mime_ = "" /\ pc = "build"
    BY DEF Init
  <1>2. 1 .. Len(calls) = {} /\ 1 .. Len(body_) = {}
    <2>1. 1 .. 0 = {}
      OBVIOUS
    <2> QED
      BY <2>1, <1>1, Zenon
  <1> HIDE DEF Init
  <1>3. Calls(calls, "header") = {} /\ Calls(calls, "body") = {} /\ Calls(calls, "form") = {}
    BY <1>2 DEF Calls
  <1>4. Since(calls) = {}
    BY <1>3 DEF Since
  <1>5. Content(calls) = {}
    <2>1. {calls[i].pairs : i \in {}} = {}
      OBVIOUS
    <2>2. UNION {calls[i].pairs : i \in {}} = {}
      BY <2>1
    <2> QED
      BY <2>2, <1>3, <1>4 DEF Content
  <1>6. In(body_) = {}
    BY <1>2 DEF In
  <1>7. SetInv
    BY <1>1, <1>3, <1>4, <1>5, <1>6 DEF SetInv
  <1> QED
    BY <1>1, <1>7 DEF WrittenInv, Reading

LEMMA InitAnswer == Init => QueueInv /\ FlowInv /\ LoopInv /\ HeaderInv
  <1> SUFFICES ASSUME Init PROVE QueueInv /\ FlowInv /\ LoopInv /\ HeaderInv
    OBVIOUS
  <1>1. /\ at.kind = "begin" /\ at = Start /\ sent = Start /\ inbox = <<>> /\ net = "none"
        /\ pc = "build" /\ block = 0 /\ ec = "no" /\ outcome = "pending" /\ resp \in Responses
        /\ parser.stop = "no" /\ parser.phase = "head" /\ parser.headers = [f \in {} |-> <<>>]
        /\ parser.field = <<>> /\ parser.value = <<>> /\ parser.body = <<>> /\ parser.status_code = <<>>
    BY InitParser DEF Init, Start, Place
  <1>2. Len(inbox) = 0 /\ Within(resp, Start)
    BY <1>1 DEF Within, Start, Place
  <1>3. QueueInv
    BY <1>1, <1>2 DEF QueueInv
  <1>4. ~Past /\ ~HeadRead /\ ~BadRead /\ BodyRead = 0
    BY <1>1 DEF Past, HeadRead, BadRead, BodyRead
  <1>5. SubSeq(resp.status, 1, 0) = <<>> /\ SubSeq(resp.body, 1, 0) = <<>>
    BY <1>1, AnswerParts, WholeString
  <1>6. FlowInv
    BY <1>1, <1>4, <1>5 DEF FlowInv
  <1>7. LoopInv
    BY <1>1 DEF LoopInv
  <1>8. Seen = {}
    BY <1>1, <1>4 DEF Seen, NameBegun
  <1>9. HeaderInv
    <2>1. Holds(resp, parser.headers, {})
      BY <1>1 DEF Holds
    <2>2. Strings
      BY <1>1 DEF Strings, Pending
    <2> QED
      BY <2>1, <2>2, <1>8 DEF HeaderInv
  <1> QED
    BY <1>3, <1>6, <1>7, <1>9

-----------------------------------------------------------------------------
(* What http_parser and the callbacks make of an item *)

LEMMA ByteThere ==
  ASSUME NEW r \in Responses, NEW p \in Places, Within(r, p),
         p.kind \in {"digit", "field", "value", "body"}
  PROVE  /\ Text(r, p) \in Seq(Bytes) /\ Len(Text(r, p)) \in Nat /\ p.pos \in 1 .. Len(Text(r, p))
         /\ Text(r, p)[p.pos] \in Bytes
  <1>1. Text(r, p) \in Seq(Bytes) /\ Len(Text(r, p)) \in Nat /\ p.pos \in 1 .. Len(Text(r, p))
    BY AnswerParts DEF Within, Text
  <1> QED
    BY <1>1, ElementOfSeq

\* A header that has a value enters headers_.
LEMMA Committed ==
  ASSUME NEW q, ParserType(q)
  PROVE  LET c == Commit(q) IN
         /\ ParserType(c)
         /\ c.status_code = q.status_code /\ c.body = q.body /\ c.phase = q.phase
         /\ c.is_complete = q.is_complete /\ c.stop = q.stop
         /\ q.value = <<>> => c = q
         /\ q.value # <<>> =>
              /\ c.field = <<>> /\ c.value = <<>>
              /\ DOMAIN c.headers = DOMAIN q.headers \cup {q.field}
              /\ c.headers[q.field] = q.value
              /\ \A f \in DOMAIN q.headers : f # q.field => c.headers[f] = q.headers[f]
  <1> DEFINE c == Commit(q)
             h == [f \in DOMAIN q.headers \cup {q.field} |->
                     IF f = q.field THEN q.value ELSE q.headers[f]]
  <1>1. CASE q.value = <<>>
    BY <1>1 DEF Commit
  <1>2. CASE q.value # <<>>
    <2>1. h \in [DOMAIN q.headers \cup {q.field} -> Seq(Bytes)]
      BY DEF ParserType
    <2>2. DOMAIN h = DOMAIN q.headers \cup {q.field} /\ h[q.field] = q.value
          /\ \A f \in DOMAIN q.headers : f # q.field => h[f] = q.headers[f]
      OBVIOUS
    <2>3. c = [q EXCEPT !.headers = h, !.field = <<>>, !.value = <<>>]
      BY <1>2 DEF Commit
    <2> HIDE DEF h, c
    <2>4. <<>> \in Seq(Bytes)
      OBVIOUS
    <2>5. /\ c.headers = h /\ c.field = <<>> /\ c.value = <<>> /\ c.status_code = q.status_code
          /\ c.body = q.body /\ c.phase = q.phase /\ c.is_complete = q.is_complete /\ c.stop = q.stop
          /\ c \in [status_code : Seq(Bytes), field : Seq(Bytes), value : Seq(Bytes), headers : {h},
                    body : Seq(Bytes), is_complete : {"no", "yes"}, phase : {"head", "body"},
                    stop : {"no", "paused", "error"}]
      BY <2>3, <2>4 DEF ParserType
    <2>6. ParserType(c)
      BY <2>1, <2>2, <2>5 DEF ParserType
    <2> QED
      BY <1>2, <2>2, <2>5, <2>6 DEF c
  <1> QED
    BY <1>1, <1>2

\* The message is over, as far as http_parser can tell.
Over(q, k) == k = "last" \/ (k \in {"end", "body"} /\ resp.framing = "length" /\ Len(q.body) = resp.length)

LEMMA Fed ==
  ASSUME NEW q, ParserType(q), q.stop = "no", resp \in Responses,
         NEW p \in Places, Within(resp, p), p.kind # "over"
  PROVE  LET e == Execute(q, p)
             b == Text(resp, p)[p.pos]
         IN  /\ ParserType(e)
             /\ e.status_code = IF p.kind = "digit" THEN Append(q.status_code, b) ELSE q.status_code
             /\ e.body = IF p.kind = "body" THEN Append(q.body, b) ELSE q.body
             /\ e.phase = IF p.kind = "end" THEN "body" ELSE q.phase
             /\ e.is_complete = IF p.kind = "begin" THEN "no"
                                ELSE IF Over(e, p.kind) THEN "yes" ELSE q.is_complete
             /\ e.stop = IF p.kind \in {"bad", "extra"} THEN "error"
                         ELSE IF Over(e, p.kind) THEN "paused" ELSE "no"
             /\ e.headers = IF p.kind \in {"field", "end"} THEN Commit(q).headers ELSE q.headers
             /\ e.field = IF p.kind = "field" THEN Append(Commit(q).field, b)
                          ELSE IF p.kind = "end" THEN Commit(q).field ELSE q.field
             /\ e.value = IF p.kind = "value" THEN Append(q.value, b)
                          ELSE IF p.kind \in {"field", "end"} THEN Commit(q).value ELSE q.value
  <1> DEFINE e == Execute(q, p)
             b == Text(resp, p)[p.pos]
             c == Commit(q)
  <1>1. p.kind \in {"digit", "field", "value", "body"} => b \in Bytes
    BY ByteThere
  <1>2. /\ ParserType(c) /\ c.status_code = q.status_code /\ c.body = q.body /\ c.phase = q.phase
        /\ c.is_complete = q.is_complete /\ c.stop = q.stop
    BY Committed
  <1>3. ASSUME NEW s \in Seq(Bytes), b \in Bytes PROVE Append(s, b) \in Seq(Bytes)
    BY <1>3
  <1> HIDE DEF b, c
  <1>4. CASE p.kind = "begin"
    <2>1. e = [q EXCEPT !.is_complete = "no"]
      BY <1>4 DEF Execute, on_message_begin
    <2> QED
      BY <2>1, <1>4 DEF ParserType, Over
  <1>5. CASE p.kind = "digit"
    <2>1. e = [q EXCEPT !.status_code = Append(@, b)]
      BY <1>5 DEF Execute, b
    <2>2. q.status_code \in Seq(Bytes)
      BY DEF ParserType
    <2>3. Append(q.status_code, b) \in Seq(Bytes)
      BY <2>2, <1>1, <1>3, <1>5
    <2> QED
      BY <2>1, <2>3, <1>5 DEF ParserType, Over, b
  <1>6. CASE p.kind = "field"
    <2>1. e = [c EXCEPT !.field = Append(@, b)]
      BY <1>6 DEF Execute, on_header_field, b, c
    <2>2. c.field \in Seq(Bytes)
      BY <1>2 DEF ParserType
    <2>3. Append(c.field, b) \in Seq(Bytes)
      BY <2>2, <1>1, <1>3, <1>6
    <2> QED
      BY <2>1, <2>3, <1>2, <1>6 DEF ParserType, Over, b, c
  <1>7. CASE p.kind = "value"
    <2>1. e = [q EXCEPT !.value = Append(@, b)]
      BY <1>7 DEF Execute, on_header_value, b
    <2>2. q.value \in Seq(Bytes)
      BY DEF ParserType
    <2>3. Append(q.value, b) \in Seq(Bytes)
      BY <2>2, <1>1, <1>3, <1>7
    <2> QED
      BY <2>1, <2>3, <1>7 DEF ParserType, Over, b
  <1>8. CASE p.kind = "end"
    <2> DEFINE d == [c EXCEPT !.phase = "body"]
    <2>1. e = IF resp.framing = "length" /\ Len(d.body) = resp.length
              THEN [d EXCEPT !.is_complete = "yes", !.stop = "paused"] ELSE d
      BY <1>8 DEF Execute, Complete, on_headers_complete, on_message_complete, c
    <2>2. /\ ParserType(d) /\ d.phase = "body" /\ d.body = c.body /\ d.status_code = c.status_code
          /\ d.is_complete = c.is_complete /\ d.stop = c.stop
          /\ d.headers = c.headers /\ d.field = c.field /\ d.value = c.value
      BY <1>2 DEF ParserType
    <2> HIDE DEF d
    <2>3. CASE resp.framing = "length" /\ Len(d.body) = resp.length
      <3>1. e = [d EXCEPT !.is_complete = "yes", !.stop = "paused"]
        BY <2>1, <2>3
      <3>2. /\ ParserType(e) /\ e.phase = d.phase /\ e.body = d.body /\ e.status_code = d.status_code
            /\ e.is_complete = "yes" /\ e.stop = "paused"
            /\ e.headers = d.headers /\ e.field = d.field /\ e.value = d.value
        BY <2>2, <3>1 DEF ParserType
      <3>3. Over(e, p.kind)
        BY <2>3, <3>2, <1>8 DEF Over
      <3> QED
        BY <2>2, <3>2, <3>3, <1>2, <1>8 DEF c
    <2>4. CASE ~(resp.framing = "length" /\ Len(d.body) = resp.length)
      <3>1. e = d
        BY <2>1, <2>4
      <3>2. ~Over(e, p.kind)
        BY <2>4, <3>1, <1>8 DEF Over
      <3> QED
        BY <2>2, <3>1, <3>2, <1>2, <1>8 DEF c
    <2> QED
      BY <2>3, <2>4
  <1>9. CASE p.kind = "body"
    <2> DEFINE d == [q EXCEPT !.body = Append(@, b)]
    <2>1. e = IF resp.framing = "length" /\ Len(d.body) = resp.length
              THEN [d EXCEPT !.is_complete = "yes", !.stop = "paused"] ELSE d
      BY <1>9 DEF Execute, Complete, on_body, on_message_complete, b
    <2>2. q.body \in Seq(Bytes)
      BY DEF ParserType
    <2>3. Append(q.body, b) \in Seq(Bytes)
      BY <2>2, <1>1, <1>3, <1>9
    <2>4. CASE resp.framing = "length" /\ Len(d.body) = resp.length
      <3>1. e = [d EXCEPT !.is_complete = "yes", !.stop = "paused"]
        BY <2>1, <2>4
      <3> QED
        BY <2>3, <2>4, <3>1, <1>9 DEF ParserType, Over, b
    <2>5. CASE ~(resp.framing = "length" /\ Len(d.body) = resp.length)
      <3>1. e = d
        BY <2>1, <2>5
      <3> QED
        BY <2>3, <2>5, <3>1, <1>9 DEF ParserType, Over, b
    <2> QED
      BY <2>4, <2>5
  <1>10. CASE p.kind = "last"
    <2>1. e = [q EXCEPT !.is_complete = "yes", !.stop = "paused"]
      BY <1>10 DEF Execute, on_message_complete
    <2> QED
      BY <2>1, <1>10 DEF ParserType, Over
  <1>11. CASE p.kind \in {"bad", "extra"}
    <2>1. e = [q EXCEPT !.stop = "error"]
      BY <1>11 DEF Execute
    <2> QED
      BY <2>1, <1>11 DEF ParserType, Over
  <1> QED
    BY <1>4, <1>5, <1>6, <1>7, <1>8, <1>9, <1>10, <1>11 DEF Places, Kinds

-----------------------------------------------------------------------------
(* Types *)

LEMMA TypeFacts ==
  ASSUME Types
  PROVE  /\ resp \in Responses /\ sent \in Places /\ at \in Places
         /\ inbox \in Seq(Places) /\ Len(inbox) \in Nat
         /\ block \in Nat /\ block <= Len(inbox) /\ ParserType(parser) /\ SetTypes
         /\ net \in {"none", "open", "eof", "error"} /\ ec \in {"no", "eof", "error"}
         /\ pc \in {"build", "write", "read", "parse", "done"}
         /\ outcome \in {"pending", "response", "HTTPClientError", "undefined"}
         /\ (outcome = "pending") = (pc # "done")
         /\ BufSz \in Nat /\ BufSz > 0
  <1>1. TypeOK /\ ParserType(parser) /\ SetTypes
    BY DEF Types
  <1>2. inbox \in Seq(Places) /\ block \in 0 .. Len(inbox)
    BY <1>1 DEF TypeOK
  <1>3. Len(inbox) \in Nat
    BY <1>2
  <1>4. block \in Nat /\ block <= Len(inbox)
    BY <1>2, <1>3
  <1>5. BufSz \in Nat /\ BufSz > 0
    BY ClientAssumption DEF ClientAssumption
  <1> QED
    BY <1>1, <1>2, <1>3, <1>4, <1>5 DEF TypeOK

\* Types, from what a step may change.
LEMMA TypesFrom ==
  ASSUME Types, UNCHANGED <<calls, headers_, body_, mime_, resp>>,
         sent' \in Places, at' \in Places, inbox' \in Seq(Places),
         block' \in Nat, Len(inbox') \in Nat, block' <= Len(inbox'), ParserType(parser'),
         net' \in {"none", "open", "eof", "error"}, ec' \in {"no", "eof", "error"},
         pc' \in {"build", "write", "read", "parse", "done"},
         outcome' \in {"pending", "response", "HTTPClientError", "undefined"},
         (outcome' = "pending") = (pc' # "done")
  PROVE  Types'
  <1>1. TypeOK /\ SetTypes
    BY DEF Types
  <1>2. SetTypes'
    BY <1>1 DEF SetTypes
  <1>3. parser'.is_complete \in {"no", "yes"} /\ parser'.stop \in {"no", "paused", "error"}
    BY DEF ParserType
  <1>4. block' \in 0 .. Len(inbox')
    OBVIOUS
  <1>5. DOMAIN headers_' \subseteq Keys /\ mime_' \in {"", "given", "urlencoded"} /\ resp' \in Responses
    BY <1>1 DEF TypeOK
  <1>6. TypeOK'
    BY <1>3, <1>4, <1>5 DEF TypeOK
  <1> QED
    BY <1>2, <1>6 DEF Types

\* The item that is parsed is the one at the place that the parser has reached.
LEMMA ItemTaken ==
  ASSUME Types, QueueInv, ParseItem
  PROVE  /\ Within(resp, at) /\ at.kind # "over"
         /\ Len(inbox) > 0 /\ inbox' \in Seq(Places) /\ Len(inbox') = Len(inbox) - 1
         /\ \A i \in 1 .. Len(inbox') : inbox'[i] = inbox[i + 1]
         /\ parser' = Execute(parser, at) /\ at' = After(resp, at)
         /\ block > 0 /\ block' = block - 1
         /\ pc = "parse" /\ UNCHANGED <<pc, url, calls, headers_, body_, mime_, request>>
         /\ UNCHANGED <<resp, net, sent, ec, outcome>>
  <1>1. /\ pc = "parse" /\ block > 0
        /\ parser' = Execute(parser, Head(inbox)) /\ at' = After(resp, Head(inbox))
        /\ inbox' = Tail(inbox) /\ block' = block - 1
        /\ UNCHANGED <<pc, url, calls, headers_, body_, mime_, request>>
        /\ UNCHANGED <<resp, net, sent, ec, outcome>>
    BY DEF ParseItem, req, peer
  <1>2. inbox \in Seq(Places) /\ Len(inbox) \in Nat /\ Len(inbox) > 0
    BY <1>1, TypeFacts
  <1>3. Head(inbox) = inbox[1] /\ 1 \in 1 .. Len(inbox)
    BY <1>2
  <1>4. Head(inbox) = at /\ Within(resp, at) /\ at.kind # "over"
    BY <1>3 DEF QueueInv
  <1>5. inbox' \in Seq(Places) /\ Len(inbox') = Len(inbox) - 1
        /\ \A i \in 1 .. Len(inbox') : inbox'[i] = inbox[i + 1]
    BY <1>1, <1>2
  <1> QED
    BY <1>1, <1>2, <1>4, <1>5

LEMMA ParseTypes ==
  ASSUME Types, QueueInv, ParseItem
  PROVE  Types'
  <1>1. at \in Places /\ resp \in Responses /\ Within(resp, at) /\ at.kind # "over"
        /\ parser' = Execute(parser, at) /\ at' = After(resp, at) /\ ParserType(parser)
    BY ItemTaken, TypeFacts
  <1>2. at' \in Places
    BY <1>1, NextPlace
  <1>3. ParserType(parser')
    <2>1. CASE parser.stop = "no"
      BY <1>1, <2>1, Fed
    <2>2. CASE parser.stop # "no"
      BY <1>1, <2>2 DEF Execute
    <2> QED
      BY <2>1, <2>2
  <1>4. /\ inbox' \in Seq(Places) /\ Len(inbox') \in Nat /\ block' \in Nat /\ block' <= Len(inbox')
        /\ UNCHANGED <<calls, headers_, body_, mime_, resp, sent, net, ec, pc, outcome>>
    BY ItemTaken, TypeFacts
  <1> QED
    BY <1>2, <1>3, <1>4, TypeFacts, TypesFrom

LEMMA ReadTypes ==
  ASSUME Types, ReadBlock, LoopInv
  PROVE  /\ Types'
         /\ pc = "read" /\ pc' = "parse"
         /\ UNCHANGED <<url, calls, headers_, body_, mime_, request, resp, net, sent, inbox, at, outcome>>
         /\ ec' \in {"no", net} /\ net # "none" /\ block' \in Nat
         /\ block' = 0 => ec' # "no" /\ parser' = ExecuteEof(parser)
         /\ block' # 0 => parser' = parser
  <1> DEFINE n == IF Len(inbox) < BufSz THEN Len(inbox) ELSE BufSz
  <1>1. block' = n /\ ec' = (IF n < BufSz THEN net ELSE "no")
        /\ parser' = (IF n = 0 THEN ExecuteEof(parser) ELSE parser)
        /\ UNCHANGED <<url, calls, headers_, body_, mime_, request, resp, net, sent, inbox, at, outcome>>
        /\ pc = "read" /\ pc' = "parse" /\ Available
    BY DEF ReadBlock, req, peer
  <1>2. n \in Nat /\ n <= Len(inbox) /\ (n < BufSz => net \in {"eof", "error"}) /\ (n = 0 => n < BufSz)
    BY <1>1, TypeFacts DEF Available, LoopInv
  <1> HIDE DEF n
  <1>3. ParserType(ExecuteEof(parser))
    BY TypeFacts DEF ExecuteEof, on_message_complete, ParserType
  <1>4. ParserType(parser')
    BY <1>1, <1>3, TypeFacts
  <1>5. ec' \in {"no", "eof", "error"} /\ (outcome' = "pending") = (pc' # "done")
    BY <1>1, <1>2, TypeFacts
  <1>6. Types'
    BY <1>1, <1>2, <1>4, <1>5, TypeFacts, TypesFrom
  <1> QED
    BY <1>1, <1>2, <1>6 DEF LoopInv

LEMMA BuildTypes ==
  ASSUME Types, SetInv, Build
  PROVE  Types' /\ SetInv'
  <1>1. UNCHANGED <<pc, url, request, peer, inbox, block, at, ec, parser, outcome>>
    BY DEF Build
  <1>2. SetTypes' /\ SetInv'
    <2>1. CASE \E k \in Keys, v \in Vals : setHeader(k, v)
      BY <2>1, HeaderSet DEF Types
    <2>2. CASE setBody("text")
      BY <2>2, BodySet DEF Types
    <2>3. CASE \E pairs \in SUBSET Pairs : setBodyURLEncoded(pairs)
      BY <2>3, FormSet DEF Types
    <2> QED
      BY <2>1, <2>2, <2>3 DEF Build
  <1>3. TypeOK'
    <2>1. DOMAIN headers_' \subseteq Keys /\ mime_' \in {"", "given", "urlencoded"}
      BY <1>2 DEF SetTypes
    <2>2. UNCHANGED <<pc, resp, net, sent, inbox, block, at, ec, parser, outcome>>
      BY <1>1 DEF peer
    <2>3. TypeOK /\ inbox \in Seq(Places) /\ block \in 0 .. Len(inbox)
      BY DEF Types, TypeOK
    <2>4. inbox' \in Seq(Places) /\ block' \in 0 .. Len(inbox')
      BY <2>2, <2>3
    <2>5. (outcome' = "pending") = (pc' # "done")
      BY <2>2, TypeFacts
    <2> QED
      BY <2>1, <2>2, <2>3, <2>4, <2>5 DEF TypeOK
  <1> QED
    BY <1>1, <1>2, <1>3 DEF Types

LEMMA SendTypes ==
  ASSUME Types, QueueInv, Send
  PROVE  Types'
  <1>1. inbox' = Append(inbox, sent) /\ sent' = After(resp, sent) /\ sent.kind # "over"
        /\ UNCHANGED <<calls, headers_, body_, mime_, resp, net, block, at, ec, parser, pc, outcome>>
    BY DEF Send, req
  <1>2. inbox' \in Seq(Places) /\ Len(inbox') = Len(inbox) + 1
    BY <1>1, TypeFacts
  <1>3. sent' \in Places
    BY <1>1, TypeFacts, NextPlace DEF QueueInv
  <1> QED
    BY <1>1, <1>2, <1>3, TypeFacts, TypesFrom

\* What a connection that breaks leaves of the items.
LEMMA Kept ==
  ASSUME Types, Reset
  PROVE  \E n \in Nat :
           /\ inbox' \in Seq(Places) /\ Len(inbox') = n /\ n <= Len(inbox) /\ block <= n
           /\ \A i \in 1 .. n : inbox'[i] = inbox[i] /\ i \in 1 .. Len(inbox)
  <1>1. PICK n \in block .. Len(inbox) : inbox' = SubSeq(inbox, 1, n)
    BY DEF Reset
  <1>2. n \in Nat /\ n <= Len(inbox) /\ block <= n /\ inbox \in Seq(Places) /\ Len(inbox) \in Nat
    BY TypeFacts
  <1>3. inbox' \in Seq(Places) /\ Len(inbox') = n /\ \A i \in 1 .. n : inbox'[i] = inbox[i]
    BY <1>1, <1>2
  <1>4. \A i \in 1 .. n : i \in 1 .. Len(inbox)
    BY <1>2
  <1> QED
    BY <1>2, <1>3, <1>4

LEMMA ResetTypes ==
  ASSUME Types, Reset
  PROVE  Types'
  <1>1. /\ net' = "error"
        /\ UNCHANGED <<calls, headers_, body_, mime_, resp, sent, block, at, ec, parser, pc, outcome>>
    BY DEF Reset, req
  <1>2. inbox' \in Seq(Places) /\ Len(inbox') \in Nat /\ block <= Len(inbox')
    BY Kept
  <1> QED
    BY <1>1, <1>2, TypeFacts, TypesFrom

LEMMA TypesStep ==
  ASSUME Types, SetInv, QueueInv, LoopInv, [Next]_vars
  PROVE  Types'
  <1>1. CASE Build
    BY <1>1, BuildTypes
  <1>2. CASE Connect
    <2>1. /\ net' \in {net, "open"} /\ pc' \in {"write", "done"} /\ pc = "build"
          /\ (pc' = "done" => outcome' = "HTTPClientError") /\ (pc' # "done" => outcome' = outcome)
          /\ UNCHANGED <<calls, headers_, body_, mime_, resp, sent, inbox, block, at, ec, parser>>
      BY <1>2 DEF Connect, End, req
    <2>2. (outcome' = "pending") = (pc' # "done")
      BY <2>1, TypeFacts
    <2> QED
      BY <2>1, <2>2, TypeFacts, TypesFrom
  <1>3. CASE Write
    <2>1. /\ pc' \in {"read", "done"} /\ pc = "write"
          /\ (pc' = "done" => outcome' \in {"HTTPClientError", "undefined"})
          /\ (pc' # "done" => outcome' = outcome)
          /\ UNCHANGED <<calls, headers_, body_, mime_, resp, net, sent, inbox, block, at, ec, parser>>
      BY <1>3 DEF Write, End, req, peer
    <2>2. (outcome' = "pending") = (pc' # "done")
      BY <2>1, TypeFacts
    <2> QED
      BY <2>1, <2>2, TypeFacts, TypesFrom
  <1>4. CASE Send
    BY <1>4, SendTypes
  <1>5. CASE Close
    <2>1. /\ net' = "eof"
          /\ UNCHANGED <<calls, headers_, body_, mime_, resp, sent, inbox, block, at, ec, parser, pc, outcome>>
      BY <1>5 DEF Close, req
    <2> QED
      BY <2>1, TypeFacts, TypesFrom
  <1>6. CASE Reset
    BY <1>6, ResetTypes
  <1>7. CASE ReadBlock
    BY <1>7, ReadTypes
  <1>8. CASE ParseItem
    BY <1>8, ParseTypes
  <1>9. CASE EndTurn
    <2>1. /\ pc' \in {"read", "done"} /\ pc = "parse"
          /\ (pc' = "done" => outcome' \in {"HTTPClientError", "response"})
          /\ (pc' # "done" => outcome' = outcome)
          /\ UNCHANGED <<calls, headers_, body_, mime_, resp, net, sent, inbox, block, at, ec, parser>>
      BY <1>9 DEF EndTurn, End, req, peer
    <2>2. (outcome' = "pending") = (pc' # "done")
      BY <2>1, TypeFacts
    <2> QED
      BY <2>1, <2>2, TypeFacts, TypesFrom
  <1>10. CASE UNCHANGED vars
    <2>1. UNCHANGED <<calls, headers_, body_, mime_, resp, net, sent, inbox, block, at, ec, parser, pc, outcome>>
      BY <1>10 DEF vars, req, peer
    <2> QED
      BY <2>1, TypeFacts, TypesFrom
  <1> QED
    BY <1>1, <1>2, <1>3, <1>4, <1>5, <1>6, <1>7, <1>8, <1>9, <1>10 DEF Next, readResponse

-----------------------------------------------------------------------------
(* The items on their way, the request and the loop *)

LEMMA SendQueue ==
  ASSUME Types, QueueInv, Send
  PROVE  QueueInv'
  <1>1. /\ inbox' = Append(inbox, sent) /\ sent' = After(resp, sent) /\ sent.kind # "over"
        /\ net = "open" /\ pc \in {"read", "parse"} /\ UNCHANGED <<resp, net, at, pc>>
    BY DEF Send, Reading
  <1> DEFINE n == Len(inbox)
  <1>2. n \in Nat /\ inbox \in Seq(Places) /\ sent \in Places /\ resp \in Responses
    BY TypeFacts
  <1>3. Len(inbox') = n + 1 /\ inbox'[n + 1] = sent /\ \A i \in 1 .. n : inbox'[i] = inbox[i]
    BY <1>1, <1>2
  <1>4. sent = IF n = 0 THEN at ELSE After(resp, inbox[n])
    <2>1. (inbox = <<>>) <=> (n = 0)
      BY <1>2
    <2> QED
      BY <2>1, <1>1 DEF QueueInv
  <1>5. Within(resp, sent) /\ Within(resp, at) /\ Within(resp, After(resp, sent))
    BY <1>1, <1>2, NextPlace DEF QueueInv
  <1>6. ASSUME NEW i \in 1 .. n + 1
        PROVE  /\ Within(resp, inbox'[i]) /\ inbox'[i].kind # "over"
               /\ inbox'[i] = (IF i = 1 THEN at ELSE After(resp, inbox'[i - 1]))
    <2>1. CASE i = n + 1
      <3>1. n # 0 => inbox'[n] = inbox[n]
        BY <1>2, <1>3
      <3> QED
        BY <2>1, <3>1, <1>1, <1>2, <1>3, <1>4, <1>5
    <2>2. CASE i # n + 1
      <3>1. i \in 1 .. n /\ (i # 1 => i - 1 \in 1 .. n)
        BY <2>2, <1>2
      <3> QED
        BY <3>1, <1>3 DEF QueueInv
    <2> QED
      BY <2>1, <2>2
  <1>7. inbox' # <<>>
    BY <1>1, <1>2
  <1> HIDE DEF n
  <1> QED
    BY <1>1, <1>2, <1>3, <1>5, <1>6, <1>7 DEF QueueInv

LEMMA ParseQueue ==
  ASSUME Types, QueueInv, ParseItem
  PROVE  QueueInv'
  <1>1. /\ Within(resp, at) /\ at.kind # "over" /\ resp \in Responses /\ at \in Places
        /\ Len(inbox) > 0 /\ Len(inbox) \in Nat /\ Len(inbox') = Len(inbox) - 1
        /\ \A i \in 1 .. Len(inbox') : inbox'[i] = inbox[i + 1]
        /\ at' = After(resp, at) /\ pc = "parse"
        /\ UNCHANGED <<pc, resp, net, sent>>
    BY ItemTaken, TypeFacts
  <1>2. Within(resp, at')
    BY <1>1, NextPlace
  <1>3. inbox[1] = at
    BY <1>1 DEF QueueInv
  <1>4. ASSUME NEW i \in 1 .. Len(inbox')
        PROVE  /\ Within(resp, inbox'[i]) /\ inbox'[i].kind # "over"
               /\ inbox'[i] = (IF i = 1 THEN at' ELSE After(resp, inbox'[i - 1]))
    <2>1. i \in Nat /\ i + 1 \in 1 .. Len(inbox) /\ i + 1 # 1 /\ (i + 1) - 1 = i
      BY <1>1
    <2>2. /\ Within(resp, inbox[i + 1]) /\ inbox[i + 1].kind # "over"
          /\ inbox[i + 1] = After(resp, inbox[i])
      BY <2>1 DEF QueueInv
    <2>3. i # 1 => i - 1 \in 1 .. Len(inbox') /\ (i - 1) + 1 = i
      BY <1>1
    <2>4. i # 1 => inbox'[i - 1] = inbox[i]
      BY <2>3, <1>1
    <2> QED
      BY <2>2, <2>4, <1>1, <1>3
  <1>5. net' = "open" => sent' = (IF inbox' = <<>> THEN at' ELSE After(resp', inbox'[Len(inbox')]))
    <2> SUFFICES ASSUME net = "open"
                 PROVE  sent = (IF inbox' = <<>> THEN at' ELSE After(resp, inbox'[Len(inbox')]))
      BY <1>1
    <2>1. sent = After(resp, inbox[Len(inbox)])
      <3>1. inbox # <<>>
        BY <1>1
      <3> QED
        BY <3>1 DEF QueueInv
    <2>2. CASE inbox' = <<>>
      <3>1. Len(inbox) = 1
        BY <2>2, <1>1
      <3> QED
        BY <3>1, <2>1, <2>2, <1>1, <1>3
    <2>3. CASE inbox' # <<>>
      <3>1. inbox' \in Seq(Places)
        BY ItemTaken
      <3>2. Len(inbox') \in 1 .. Len(inbox') /\ Len(inbox') + 1 = Len(inbox)
        BY <3>1, <2>3, <1>1
      <3> QED
        BY <3>2, <2>1, <2>3, <1>1
    <2> QED
      BY <2>2, <2>3
  <1> QED
    BY <1>1, <1>2, <1>4, <1>5 DEF QueueInv

LEMMA QueueStep ==
  ASSUME Types, QueueInv, LoopInv, [Next]_vars
  PROVE  QueueInv'
  <1>1. CASE Send
    BY <1>1, SendQueue
  <1>2. CASE ParseItem
    BY <1>2, ParseQueue
  <1>3. CASE Reset
    <2>1. net' = "error" /\ pc \in {"read", "parse"} /\ UNCHANGED <<resp, at, sent, pc>>
      BY <1>3 DEF Reset, Reading
    <2>2. PICK n \in Nat : Len(inbox') = n /\ \A i \in 1 .. n : inbox'[i] = inbox[i] /\ i \in 1 .. Len(inbox)
      BY <1>3, Kept
    <2>3. \A i \in 1 .. n : i # 1 => i - 1 \in 1 .. n
      BY <2>2
    <2> QED
      BY <2>1, <2>2, <2>3 DEF QueueInv
  <1>4. CASE Connect
    <2>1. pc = "build" /\ UNCHANGED <<resp, at, sent, inbox, block>>
      BY <1>4 DEF Connect
    <2>2. inbox = <<>> /\ at = sent /\ at = Start /\ sent = Start /\ block = 0
      BY <2>1 DEF QueueInv
    <2> QED
      BY <2>1, <2>2 DEF QueueInv
  <1>5. CASE Build \/ Write \/ Close \/ ReadBlock \/ EndTurn \/ UNCHANGED vars
    <2>1. /\ UNCHANGED <<resp, at, sent, inbox>>
          /\ net' = net \/ net' = "eof"
          /\ pc' \in {"build", "write"} => pc' = pc /\ block' = block
      BY <1>5 DEF Build, Write, Close, ReadBlock, EndTurn, End, vars, peer, Reading
    <2> QED
      BY <2>1 DEF QueueInv
  <1> QED
    BY <1>1, <1>2, <1>3, <1>4, <1>5 DEF Next, readResponse

LEMMA SetStep ==
  ASSUME Types, SetInv, WrittenInv, LoopInv, [Next]_vars
  PROVE  SetInv' /\ WrittenInv'
  <1>1. CASE Build
    <2>1. pc' = "build"
      BY <1>1 DEF Build
    <2> QED
      BY <1>1, <2>1, BuildTypes DEF WrittenInv, Reading
  <1>2. CASE ~Build
    <2>1. UNCHANGED <<calls, headers_, body_, mime_>>
      BY <1>2 DEF Next, Connect, Write, readResponse, ReadBlock, ParseItem, EndTurn,
                  Send, Close, Reset, vars, req
    <2>2. SetInv'
      BY <2>1 DEF SetInv
    <2>3. Message' = Message
      BY <2>1 DEF Message, Lines
    <2>4. CASE Write
      <3>1. Reading' => request' = Message
        BY <2>4 DEF Write, End, Reading
      <3> QED
        BY <2>2, <2>3, <3>1 DEF WrittenInv
    <2>5. CASE ~Write
      <3>1. UNCHANGED request /\ (Reading' => Reading)
        BY <1>2, <2>5 DEF Next, Connect, readResponse, ReadBlock, ParseItem, EndTurn,
                          Send, Close, Reset, vars, Reading, End
      <3> QED
        BY <2>2, <2>3, <3>1 DEF WrittenInv
    <2> QED
      BY <2>4, <2>5
  <1> QED
    BY <1>1, <1>2

\* Which place follows which.
LEMMA Order ==
  ASSUME NEW r \in Responses, NEW p \in Places, Within(r, p), p.kind # "over"
  PROVE  LET n == After(r, p) IN
         /\ n \in Places /\ Within(r, n) /\ n.kind # "begin"
         /\ p.kind = "begin" => n = Place("digit", 0, 1)
         /\ p.kind = "digit" =>
              /\ p.pos \in Nat /\ p.pos > 0 /\ p.pos <= Len(r.status)
              /\ n = IF p.pos < Len(r.status) THEN Place("digit", 0, p.pos + 1) ELSE HeaderPlace(r, 1)
         /\ p.kind = "field" =>
              /\ p.no \in 1 .. Len(r.headers) /\ p.pos \in 1 .. Len(r.headers[p.no].name)
              /\ n = IF p.pos < Len(r.headers[p.no].name) THEN Place("field", p.no, p.pos + 1)
                     ELSE IF r.headers[p.no].value # <<>> THEN Place("value", p.no, 1)
                     ELSE HeaderPlace(r, p.no + 1)
         /\ p.kind = "value" =>
              /\ p.no \in 1 .. Len(r.headers) /\ p.pos \in 1 .. Len(r.headers[p.no].value)
              /\ n = IF p.pos < Len(r.headers[p.no].value) THEN Place("value", p.no, p.pos + 1)
                     ELSE HeaderPlace(r, p.no + 1)
         /\ p.kind = "end" => n = BodyPlace(r, 1)
         /\ p.kind = "body" => p.pos \in Nat /\ p.pos > 0 /\ p.pos <= Len(r.body) /\ n = BodyPlace(r, p.pos + 1)
         /\ p.kind \in {"last", "bad"} => n = ExtraPlace(r, 1)
         /\ p.kind = "extra" => n = ExtraPlace(r, p.pos + 1)
  <1> DEFINE n == After(r, p)
  <1>1. n \in Places /\ Within(r, n)
    BY NextPlace
  <1>2. p \in [kind : Kinds, no : Nat, pos : Nat]
    BY DEF Places
  <1>3. p.kind \notin {"digit", "field", "value", "body"} => ~(p.pos < Len(Text(r, p)))
    BY <1>2 DEF Text, Kinds
  <1>4. p.kind = "begin" => n = Place("digit", 0, 1)
    BY <1>3 DEF After
  <1>5. ASSUME p.kind = "digit"
        PROVE  /\ p.pos \in Nat /\ p.pos > 0 /\ p.pos <= Len(r.status)
               /\ n = IF p.pos < Len(r.status) THEN Place("digit", 0, p.pos + 1) ELSE HeaderPlace(r, 1)
    <2>1. Text(r, p) = r.status /\ p.pos \in 1 .. Len(r.status) /\ p.no = 0 /\ Len(r.status) \in Nat
      BY <1>5, AnswerParts DEF Text, Within
    <2>2. [p EXCEPT !.pos = @ + 1] = Place("digit", 0, p.pos + 1)
      BY <2>1, <1>2, <1>5 DEF Place
    <2> QED
      BY <2>1, <2>2, <1>5 DEF After
  <1>6. ASSUME p.kind = "field"
        PROVE  /\ p.no \in 1 .. Len(r.headers) /\ p.pos \in 1 .. Len(r.headers[p.no].name)
               /\ n = IF p.pos < Len(r.headers[p.no].name) THEN Place("field", p.no, p.pos + 1)
                     ELSE IF r.headers[p.no].value # <<>> THEN Place("value", p.no, 1)
                     ELSE HeaderPlace(r, p.no + 1)
    <2>1. Text(r, p) = r.headers[p.no].name /\ p.no \in 1 .. Len(r.headers) /\ p.pos \in 1 .. Len(Text(r, p))
      BY <1>6 DEF Text, Within
    <2>2. [p EXCEPT !.pos = @ + 1] = Place("field", p.no, p.pos + 1)
      BY <1>2, <1>6 DEF Place
    <2> QED
      BY <2>1, <2>2, <1>6 DEF After
  <1>7. ASSUME p.kind = "value"
        PROVE  /\ p.no \in 1 .. Len(r.headers) /\ p.pos \in 1 .. Len(r.headers[p.no].value)
               /\ n = IF p.pos < Len(r.headers[p.no].value) THEN Place("value", p.no, p.pos + 1)
                      ELSE HeaderPlace(r, p.no + 1)
    <2>1. Text(r, p) = r.headers[p.no].value /\ p.no \in 1 .. Len(r.headers) /\ p.pos \in 1 .. Len(Text(r, p))
      BY <1>7 DEF Text, Within
    <2>2. [p EXCEPT !.pos = @ + 1] = Place("value", p.no, p.pos + 1)
      BY <1>2, <1>7 DEF Place
    <2> QED
      BY <2>1, <2>2, <1>7 DEF After
  <1>8. p.kind = "end" => n = BodyPlace(r, 1)
    BY <1>3 DEF After
  <1>9. ASSUME p.kind = "body"
        PROVE  p.pos \in Nat /\ p.pos > 0 /\ p.pos <= Len(r.body) /\ n = BodyPlace(r, p.pos + 1)
    <2>1. Text(r, p) = r.body /\ p.pos \in 1 .. Len(r.body) /\ p.no = 0 /\ Len(r.body) \in Nat
      BY <1>9, AnswerParts DEF Text, Within
    <2>2. [p EXCEPT !.pos = @ + 1] = Place("body", 0, p.pos + 1)
      BY <2>1, <1>2, <1>9 DEF Place
    <2>3. CASE p.pos < Len(r.body)
      BY <2>1, <2>2, <2>3 DEF After, BodyPlace
    <2>4. CASE ~(p.pos < Len(r.body))
      BY <2>1, <2>4, <1>9 DEF After
    <2> QED
      BY <2>1, <2>3, <2>4
  <1>10. p.kind \in {"last", "bad"} => n = ExtraPlace(r, 1)
    BY <1>3 DEF After
  <1>11. p.kind = "extra" => n = ExtraPlace(r, p.pos + 1)
    BY <1>3 DEF After
  <1>12. n.kind # "begin"
    <2>1. \A i \in Nat : HeaderPlace(r, i).kind # "begin" /\ ExtraPlace(r, i).kind # "begin"
                          /\ BodyPlace(r, i).kind # "begin"
      BY DEF HeaderPlace, ExtraPlace, BodyPlace, Place
    <2>2. \A k, i, j : Place(k, i, j).kind = k
      BY DEF Place
    <2>3. CASE p.kind \in {"begin", "digit", "field", "value"}
      <3>1. 1 \in Nat /\ p.no + 1 \in Nat
        BY <1>2
      <3> QED
        BY <2>1, <2>2, <2>3, <3>1, <1>4, <1>5, <1>6, <1>7
    <2>4. CASE p.kind \notin {"begin", "digit", "field", "value"}
      <3>1. 1 \in Nat /\ p.pos + 1 \in Nat
        BY <1>2
      <3> QED
        BY <2>1, <2>4, <3>1, <1>2, <1>8, <1>9, <1>10, <1>11 DEF Kinds
    <2> QED
      BY <2>3, <2>4
  <1> QED
    BY <1>1, <1>4, <1>5, <1>6, <1>7, <1>8, <1>9, <1>10, <1>11, <1>12

LEMMA LoopStep ==
  ASSUME Types, QueueInv, FlowInv, LoopInv, [Next]_vars
  PROVE  LoopInv'
  <1>1. CASE Build
    BY <1>1 DEF Build, LoopInv, peer
  <1>2. CASE Connect
    <2>1. /\ pc = "build" /\ pc' \in {"write", "done"} /\ UNCHANGED <<at, block, ec, parser>>
          /\ outcome' \in {outcome, "HTTPClientError"}
      BY <1>2 DEF Connect, End
    <2>2. at = Start /\ outcome = "pending"
      BY <2>1, TypeFacts DEF QueueInv
    <2> QED
      BY <2>1, <2>2 DEF LoopInv
  <1>3. CASE Write
    <2>1. /\ pc = "write" /\ pc' \in {"read", "done"} /\ UNCHANGED <<net, at, block, ec, parser>>
          /\ outcome' \in {outcome, "HTTPClientError", "undefined"} /\ (pc' = "read" => net = "open")
      BY <1>3 DEF Write, End, peer
    <2>2. at = Start /\ outcome = "pending"
      BY <2>1, TypeFacts DEF QueueInv
    <2> QED
      BY <2>1, <2>2 DEF LoopInv
  <1>4. CASE Send \/ Close \/ Reset
    <2>1. pc \in {"read", "parse"} /\ net' # "none" /\ UNCHANGED <<pc, at, block, ec, parser, outcome>>
      BY <1>4 DEF Send, Close, Reset, Reading
    <2> QED
      BY <2>1 DEF LoopInv
  <1>5. CASE ReadBlock
    <2>1. outcome' = "pending" /\ pc' = "parse" /\ net' # "none" /\ block' \in Nat
      BY <1>5, ReadTypes, TypeFacts
    <2>2. block' = 0 => ec' # "no"
      BY <1>5, ReadTypes
    <2> QED
      BY <2>1, <2>2 DEF LoopInv
  <1>6. CASE ParseItem
    <2>1. pc' = "parse" /\ outcome' = "pending" /\ net' = net /\ net # "none"
      BY <1>6, ItemTaken, TypeFacts DEF LoopInv
    <2>2. at'.kind # "begin"
      BY <1>6, ItemTaken, TypeFacts, Order
    <2>3. at' # Start
      BY <2>2 DEF Start, Place
    <2> QED
      BY <2>1, <2>3 DEF LoopInv
  <1>7. CASE EndTurn
    <2>1. pc = "parse" /\ block = 0 /\ UNCHANGED <<net, at, block, ec, parser>>
      BY <1>7 DEF EndTurn, peer
    <2>2. outcome = "pending"
      BY <2>1, TypeFacts
    <2>3. CASE parse(parser) = "ERROR" /\ End("HTTPClientError")
      <3>1. parser.stop = "error"
        BY <2>3 DEF parse
      <3> QED
        BY <2>1, <2>3, <3>1 DEF LoopInv, End
    <2>4. CASE parse(parser) # "ERROR" /\ ReadsOn(ec, parse(parser)) /\ pc' = "read" /\ UNCHANGED outcome
      <3>1. parser.stop # "error" /\ parser.is_complete # "yes" /\ ec = "no"
        BY <2>4 DEF parse, ReadsOn
      <3>2. parser.stop = "no"
        BY <3>1, TypeFacts DEF FlowInv, ParserType
      <3> QED
        BY <2>1, <2>2, <2>4, <3>1, <3>2 DEF LoopInv
    <2>5. CASE parse(parser) # "ERROR" /\ ~ReadsOn(ec, parse(parser)) /\ End("response")
      <3>1. parser.stop # "error" /\ (ec = "no" => parser.is_complete = "yes")
        BY <2>5 DEF parse, ReadsOn
      <3>2. ec = "no" => parser.stop = "paused"
        <4> SUFFICES ASSUME ec = "no" PROVE parser.stop # "no"
          BY <3>1, TypeFacts DEF ParserType
        <4>1. at # Start
          BY <2>1 DEF LoopInv
        <4> QED
          BY <4>1, <3>1 DEF FlowInv
      <3> QED
        BY <2>1, <2>5, <3>1, <3>2 DEF LoopInv, End
    <2> QED
      BY <1>7, <2>3, <2>4, <2>5 DEF EndTurn
  <1>8. CASE UNCHANGED vars
    BY <1>8 DEF vars, peer, LoopInv
  <1> QED
    BY <1>1, <1>2, <1>3, <1>4, <1>5, <1>6, <1>7, <1>8 DEF Next, readResponse

-----------------------------------------------------------------------------
(* How far the parser is *)

\* FlowInv does not look at the rest of the state.
LEMMA FlowSame ==
  ASSUME FlowInv, UNCHANGED <<parser, at, resp, block, ec>>
  PROVE  FlowInv'
  BY DEF FlowInv, BadRead, HeadRead, BodyRead, Past

LEMMA ReadFlow ==
  ASSUME Types, LoopInv, FlowInv, ReadBlock
  PROVE  FlowInv'
  <1>1. /\ pc = "read" /\ UNCHANGED <<resp, at>>
        /\ block' = 0 => ec' # "no" /\ parser' = ExecuteEof(parser)
        /\ block' # 0 => parser' = parser
    BY ReadTypes
  <1>2. parser.stop = "no"
    BY <1>1 DEF LoopInv
  <1>3. (Past' <=> Past) /\ (BadRead' <=> BadRead) /\ (HeadRead' <=> HeadRead) /\ BodyRead' = BodyRead
    BY <1>1 DEF Past, BadRead, HeadRead, BodyRead
  <1>4. CASE parser' = parser
    BY <1>1, <1>2, <1>3, <1>4 DEF FlowInv
  <1>5. CASE parser' # parser
    <2>1. block' = 0 /\ ec' # "no" /\ parser.phase = "body"
          /\ parser' = [parser EXCEPT !.is_complete = "yes", !.stop = "paused"]
      BY <1>1, <1>5 DEF ExecuteEof, on_message_complete
    <2>2. /\ parser'.is_complete = "yes" /\ parser'.stop = "paused"
          /\ parser'.status_code = parser.status_code /\ parser'.body = parser.body
      BY <2>1, TypeFacts DEF ParserType
    <2> QED
      BY <1>1, <1>2, <1>3, <2>1, <2>2 DEF FlowInv
  <1> QED
    BY <1>4, <1>5

\* A parser that has stopped ignores what follows.
LEMMA StoppedFlow ==
  ASSUME Types, QueueInv, FlowInv, ParseItem, parser.stop # "no"
  PROVE  /\ FlowInv' /\ parser' = parser
         /\ at.kind = "extra" /\ at'.kind \in {"extra", "over"}
  <1>1. parser' = parser /\ resp' = resp /\ block > 0 /\ at.kind # "over"
    BY ItemTaken DEF Execute
  <1>2. at.kind = "extra"
    <2>1. parser.stop \in {"paused", "error"}
      BY TypeFacts DEF ParserType
    <2>2. Past
      BY <2>1, <1>1, TypeFacts DEF FlowInv, BadRead
    <2> QED
      BY <2>2, <1>1 DEF Past
  <1>3. at'.kind \in {"extra", "over"}
    <2>1. at' = ExtraPlace(resp, at.pos + 1)
      BY <1>2, ItemTaken, TypeFacts, Order
    <2> QED
      BY <2>1 DEF ExtraPlace, Place
  <1>4. (Past' <=> Past) /\ (BadRead' <=> BadRead) /\ (HeadRead' <=> HeadRead) /\ BodyRead' = BodyRead
        /\ Past'
    BY <1>1, <1>2, <1>3 DEF Past, BadRead, HeadRead, BodyRead
  <1>5. FlowInv'
    BY <1>1, <1>2, <1>3, <1>4 DEF FlowInv
  <1> QED
    BY <1>1, <1>2, <1>3, <1>5

\* The status, the headers: nothing of the body is there yet.
LEMMA HeadFlow ==
  ASSUME Types, QueueInv, FlowInv, ParseItem, parser.stop = "no",
         at.kind \in {"begin", "digit", "field", "value"}
  PROVE  FlowInv'
  <1> DEFINE b == Text(resp, at)[at.pos]
  <1>1. /\ resp \in Responses /\ at \in Places /\ Within(resp, at) /\ at.kind # "over" /\ ParserType(parser)
        /\ parser' = Execute(parser, at) /\ at' = After(resp, at) /\ resp' = resp
    BY ItemTaken, TypeFacts
  <1>2. /\ parser'.status_code = IF at.kind = "digit" THEN Append(parser.status_code, b)
                                 ELSE parser.status_code
        /\ parser'.body = parser.body /\ parser'.phase = parser.phase /\ parser'.stop = "no"
        /\ parser'.is_complete = IF at.kind = "begin" THEN "no" ELSE parser.is_complete
    BY <1>1, Fed DEF Over
  <1>3. at'.kind \in {"digit", "field", "value", "end"} \/ (at'.kind = "bad" /\ resp.bad = "headers")
    <2>1. ASSUME NEW i \in Nat
          PROVE  \/ HeaderPlace(resp, i).kind \in {"field", "end"}
                 \/ HeaderPlace(resp, i).kind = "bad" /\ resp.bad = "headers"
      <3>1. CASE i <= Len(resp.headers)
        BY <3>1 DEF HeaderPlace, Place
      <3>2. CASE ~(i <= Len(resp.headers)) /\ resp.bad = "headers"
        BY <3>2 DEF HeaderPlace, Place
      <3>3. CASE ~(i <= Len(resp.headers)) /\ resp.bad # "headers"
        BY <3>3 DEF HeaderPlace, Place
      <3> QED
        BY <3>1, <3>2, <3>3
    <2>2. 1 \in Nat /\ at.no + 1 \in Nat
      BY <1>1 DEF Places
    <2>3. \A k, i, j : Place(k, i, j).kind = k
      BY DEF Place
    <2>4. CASE at.kind = "begin"
      BY <2>3, <2>4, <1>1, Order
    <2>5. CASE at.kind = "digit"
      BY <2>1, <2>2, <2>3, <2>5, <1>1, Order
    <2>6. CASE at.kind = "field"
      BY <2>1, <2>2, <2>3, <2>6, <1>1, Order
    <2>7. CASE at.kind = "value"
      BY <2>1, <2>2, <2>3, <2>7, <1>1, Order
    <2> QED
      BY <2>4, <2>5, <2>6, <2>7
  <1>4. ~HeadRead /\ ~HeadRead' /\ ~Past' /\ ~BadRead' /\ BodyRead' = 0 /\ BodyRead = 0
    BY <1>1, <1>3 DEF HeadRead, Past, BadRead, BodyRead
  <1>5. parser'.status_code = SubSeq(resp.status, 1, IF at'.kind = "begin" THEN 0
                                                     ELSE IF at'.kind = "digit" THEN at'.pos - 1
                                                     ELSE Len(resp.status))
    <2>1. CASE at.kind = "begin"
      <3>1. at'.kind = "digit" /\ at'.pos = 1
        BY <2>1, <1>1, Order DEF Place
      <3> QED
        BY <3>1, <2>1, <1>2 DEF FlowInv
    <2>2. CASE at.kind = "digit"
      <3>1. /\ at.pos \in Nat /\ at.pos > 0 /\ at.pos <= Len(resp.status)
            /\ at' = IF at.pos < Len(resp.status) THEN Place("digit", 0, at.pos + 1)
                     ELSE HeaderPlace(resp, 1)
        BY <2>2, <1>1, Order
      <3>2. parser.status_code = SubSeq(resp.status, 1, at.pos - 1) /\ b = resp.status[at.pos]
        BY <2>2 DEF FlowInv, Text
      <3>3. parser'.status_code = SubSeq(resp.status, 1, at.pos)
        <4> DEFINE m == at.pos - 1
        <4>1. m \in Nat /\ m < Len(resp.status) /\ m + 1 = at.pos /\ resp.status \in Seq(Bytes)
          BY <3>1, <1>1, AnswerParts
        <4>2. Append(SubSeq(resp.status, 1, m), resp.status[m + 1]) = SubSeq(resp.status, 1, m + 1)
          BY <4>1, PartGrows
        <4> QED
          BY <4>1, <4>2, <3>2, <2>2, <1>2
      <3>4. CASE at.pos < Len(resp.status)
        BY <3>1, <3>3, <3>4 DEF Place
      <3>5. CASE ~(at.pos < Len(resp.status))
        <4>1. at'.kind \notin {"begin", "digit"} /\ at.pos = Len(resp.status)
          BY <3>1, <3>5, <1>1, AnswerParts DEF HeaderPlace, Place
        <4> QED
          BY <4>1, <3>3
      <3> QED
        BY <3>4, <3>5
    <2>3. CASE at.kind \in {"field", "value"}
      <3>1. at'.kind \notin {"begin", "digit"}
        BY <2>3, <1>1, Order DEF HeaderPlace, Place
      <3> QED
        BY <3>1, <2>3, <1>2 DEF FlowInv
    <2> QED
      BY <2>1, <2>2, <2>3
  <1>6. at.kind # "begin" => at # Start /\ parser.is_complete = "no"
    BY DEF FlowInv, Start, Place
  <1>7. parser'.is_complete = "no"
    BY <1>2, <1>6
  <1> QED
    BY <1>1, <1>2, <1>4, <1>5, <1>7 DEF FlowInv

\* What follows byte i - 1 of the body.
LEMMA BodyNext ==
  ASSUME NEW r \in Responses, NEW i \in Nat, i > 0, i <= Len(r.body) + 1, r.bad # "headers"
  PROVE  LET n == BodyPlace(r, i) IN
         /\ i <= Len(r.body) => n.kind = "body" /\ n.pos = i
         /\ i > Len(r.body) =>
              \/ n.kind = "bad" /\ r.bad = "body"
              \/ n.kind = "last" /\ r.bad = "no" /\ r.framing = "chunked"
              \/ n.kind = "extra" /\ r.bad = "no" /\ r.framing = "length" /\ Len(r.body) = r.length
              \/ n.kind = "over" /\ r.bad = "no" /\ r.framing # "chunked"
  <1>1. CASE i <= Len(r.body)
    BY <1>1, AnswerParts DEF BodyPlace, Place
  <1>2. CASE ~(i <= Len(r.body))
    BY <1>2, AnswerParts DEF BodyPlace, ExtraPlace, Place
  <1> QED
    BY <1>1, <1>2

\* The end of the headers and the body.
LEMMA BodyFlow ==
  ASSUME Types, QueueInv, FlowInv, ParseItem, parser.stop = "no", at.kind \in {"end", "body"}
  PROVE  FlowInv'
  <1> DEFINE i == IF at.kind = "body" THEN at.pos + 1 ELSE 1
             done == resp.framing = "length" /\ Len(parser'.body) = resp.length
  <1>1. /\ resp \in Responses /\ at \in Places /\ Within(resp, at) /\ at.kind # "over" /\ ParserType(parser)
        /\ parser' = Execute(parser, at) /\ at' = After(resp, at) /\ resp' = resp
    BY ItemTaken, TypeFacts
  <1>2. /\ parser'.status_code = parser.status_code
        /\ parser'.body = IF at.kind = "body" THEN Append(parser.body, resp.body[at.pos]) ELSE parser.body
        /\ parser'.phase = IF at.kind = "end" THEN "body" ELSE parser.phase
        /\ parser'.is_complete = IF done THEN "yes" ELSE parser.is_complete
        /\ parser'.stop = IF done THEN "paused" ELSE "no"
    BY <1>1, Fed DEF Over, Text
  <1>3. i \in Nat /\ i > 0 /\ i <= Len(resp.body) + 1 /\ at' = BodyPlace(resp, i) /\ resp.bad # "headers"
        /\ Len(resp.body) \in Nat /\ resp.length \in Nat
        /\ (resp.framing = "length" => Len(resp.body) <= resp.length)
    BY <1>1, Order, AnswerParts DEF Within
  <1>4. parser'.body = SubSeq(resp.body, 1, i - 1) /\ Len(parser'.body) = i - 1
    <2>1. resp.body \in Seq(Bytes)
      BY <1>1, AnswerParts
    <2>2. CASE at.kind = "end"
      <3>1. BodyRead = 0
        BY <2>2 DEF BodyRead, HeadRead, Past
      <3>2. parser.body = SubSeq(resp.body, 1, 0)
        BY <3>1 DEF FlowInv
      <3>3. SubSeq(resp.body, 1, 0) = <<>>
        BY <2>1, WholeString
      <3> QED
        BY <3>2, <3>3, <2>2, <1>2
    <2>3. CASE at.kind = "body"
      <3>1. at.pos \in Nat /\ at.pos > 0 /\ at.pos <= Len(resp.body)
        BY <2>3, <1>1, Order
      <3>2. parser.body = SubSeq(resp.body, 1, at.pos - 1)
        BY <2>3 DEF FlowInv, BodyRead
      <3> DEFINE m == at.pos - 1
      <3>3. m \in Nat /\ m < Len(resp.body) /\ m + 1 = at.pos /\ i - 1 = m + 1
        BY <3>1, <2>3, <1>3
      <3>4. Append(SubSeq(resp.body, 1, m), resp.body[m + 1]) = SubSeq(resp.body, 1, m + 1)
            /\ Len(SubSeq(resp.body, 1, m)) = m /\ SubSeq(resp.body, 1, m) \in Seq(Bytes)
        BY <2>1, <3>3, PartGrows
      <3>5. parser.body = SubSeq(resp.body, 1, m)
        BY <3>2
      <3>6. parser'.body = Append(parser.body, resp.body[m + 1])
        BY <3>3, <2>3, <1>2
      <3>7. Len(parser'.body) = m + 1
        BY <3>4, <3>5, <3>6
      <3> QED
        BY <3>3, <3>4, <3>5, <3>6, <3>7
    <2> QED
      BY <2>2, <2>3
  <1> HIDE DEF i
  <1>5. /\ i <= Len(resp.body) => at'.kind = "body" /\ at'.pos = i
        /\ i > Len(resp.body) =>
             \/ at'.kind = "bad" /\ resp.bad = "body"
             \/ at'.kind = "last" /\ resp.bad = "no" /\ resp.framing = "chunked"
             \/ at'.kind = "extra" /\ resp.bad = "no" /\ resp.framing = "length" /\ Len(resp.body) = resp.length
             \/ at'.kind = "over" /\ resp.bad = "no" /\ resp.framing # "chunked"
    BY <1>1, <1>3, BodyNext
  <1>6. HeadRead' /\ ~BadRead' /\ BodyRead' = i - 1
        /\ (Past' <=> at'.kind \in {"extra", "over"}) /\ at'.kind \notin {"begin", "digit"}
    BY <1>1, <1>3, <1>5 DEF HeadRead, BadRead, BodyRead, Past
  <1>7. parser'.phase = "body" /\ (~done => parser'.is_complete = "no")
    <2>1. at # Start /\ (at.kind = "body" => HeadRead)
      BY <1>1 DEF Start, Place, HeadRead
    <2> QED
      BY <2>1, <1>2 DEF FlowInv
  <1>8. done => Past'
    <2> SUFFICES ASSUME done PROVE at'.kind \in {"extra", "over"}
      BY <1>6
    <2>1. i > Len(resp.body) /\ resp.framing = "length"
      BY <1>3, <1>4
    <2>2. resp.bad # "body"
      BY <2>1, <1>1, AnswerParts
    <2> QED
      BY <2>1, <2>2, <1>5
  <1>9. ~done => (resp.framing = "length" => Len(parser'.body) < resp.length)
    BY <1>3, <1>4
  <1>10. ~done => (Past' => at'.kind = "over" /\ resp.framing # "chunked")
    <2> SUFFICES ASSUME ~done, at'.kind \in {"extra", "over"}
                 PROVE  at'.kind = "over" /\ resp.framing # "chunked"
      BY <1>6
    <2>1. i > Len(resp.body) /\ i - 1 = Len(resp.body)
      BY <1>3, <1>5
    <2> QED
      BY <2>1, <1>4, <1>5
  <1>11. parser'.status_code = SubSeq(resp.status, 1, Len(resp.status))
    BY <1>2 DEF FlowInv
  <1> QED
    BY <1>1, <1>2, <1>4, <1>6, <1>7, <1>8, <1>9, <1>10, <1>11 DEF FlowInv

LEMMA FlowStep ==
  ASSUME Types, QueueInv, FlowInv, LoopInv, [Next]_vars
  PROVE  FlowInv'
  <1>1. CASE ReadBlock
    BY <1>1, ReadFlow
  <1>2. CASE ParseItem
    <2>1. CASE parser.stop # "no"
      BY <1>2, <2>1, StoppedFlow
    <2>2. CASE parser.stop = "no" /\ at.kind \in {"begin", "digit", "field", "value"}
      BY <1>2, <2>2, HeadFlow
    <2>3. CASE parser.stop = "no" /\ at.kind \in {"end", "body"}
      BY <1>2, <2>3, BodyFlow
    <2>4. CASE parser.stop = "no" /\ at.kind \in {"last", "bad", "extra"}
      <3>1. /\ resp \in Responses /\ at \in Places /\ Within(resp, at) /\ at.kind # "over"
            /\ ParserType(parser) /\ parser' = Execute(parser, at) /\ at' = After(resp, at) /\ resp' = resp
        BY <1>2, ItemTaken, TypeFacts
      <3>2. at.kind # "extra"
        BY <2>4 DEF FlowInv, Past
      <3>3. at'.kind \in {"extra", "over"}
        BY <3>1, <3>2, <2>4, Order DEF ExtraPlace, Place
      <3>4. /\ parser'.status_code = parser.status_code /\ parser'.body = parser.body
            /\ parser'.stop = (IF at.kind = "bad" THEN "error" ELSE "paused")
            /\ at.kind = "last" => parser'.is_complete = "yes"
        BY <3>1, <3>2, <2>4, Fed DEF Over
      <3>5. parser'.status_code = SubSeq(resp.status, 1, Len(resp.status))
        BY <2>4, <3>4 DEF FlowInv
      <3>6. CASE at.kind = "last"
        <4>1. resp.bad = "no"
          BY <3>1, <3>6 DEF Within
        <4>2. HeadRead' /\ Past' /\ ~BadRead' /\ BodyRead' = Len(resp.body) /\ BodyRead = Len(resp.body)
          BY <3>1, <3>3, <3>6, <4>1 DEF HeadRead, Past, BadRead, BodyRead
        <4> QED
          BY <3>1, <3>3, <3>4, <3>5, <3>6, <4>2, <2>4 DEF FlowInv
      <3>7. CASE at.kind = "bad"
        <4>1. resp.bad # "no"
          BY <3>1, <3>7 DEF Within
        <4>2. BadRead'
          BY <3>1, <3>3, <4>1 DEF BadRead, Past
        <4> QED
          BY <3>1, <3>3, <3>4, <3>5, <3>7, <4>2 DEF FlowInv
      <3> QED
        BY <2>4, <3>2, <3>6, <3>7
    <2> QED
      BY <1>2, <2>1, <2>2, <2>3, <2>4, ItemTaken, TypeFacts DEF Places, Kinds
  <1>3. CASE ~ReadBlock /\ ~ParseItem
    <2>1. UNCHANGED <<parser, at, resp, block, ec>>
      BY <1>3 DEF Next, readResponse, Build, Connect, Write, Send, Close, Reset, EndTurn, vars, peer
    <2> QED
      BY <2>1, FlowSame
  <1> QED
    BY <1>1, <1>2, <1>3

-----------------------------------------------------------------------------
(* The headers *)

\* The first header whose end http_parser has not come to at place p.
Before(r, p) ==
  IF p.kind \in {"begin", "digit"} THEN 1
  ELSE IF p.kind = "field" /\ p.pos = 1 THEN p.no - 1
  ELSE IF p.kind \in {"field", "value"} THEN p.no
  ELSE IF p.kind = "end" \/ r.bad = "headers" THEN Len(r.headers)
  ELSE Len(r.headers) + 1
First(r, k) == {n \in 1 .. Len(r.headers) : n < k}

SeenFirst == Seen = First(resp, Before(resp, at))

LEMMA SeenBefore == Types /\ Within(resp, at) => SeenFirst
  <1> SUFFICES ASSUME Types, Within(resp, at) PROVE SeenFirst
    OBVIOUS
  <1> DEFINE k == Before(resp, at)
             m == Len(resp.headers)
  <1>1. /\ at \in [kind : Kinds, no : Nat, pos : Nat] /\ m \in Nat
        /\ resp.bad \in {"no", "headers", "body"}
    BY TypeFacts, AnswerParts DEF Places
  <1>2. at.kind \in {"field", "value"} => at.no \in Nat /\ at.no > 0 /\ at.no <= m /\ at.pos \in Nat /\ at.pos > 0
    <2>1. at.kind \in {"field", "value"} => at.no \in 1 .. m /\ at.pos \in 1 .. Len(Text(resp, at))
      BY DEF Within
    <2> QED
      BY <2>1, <1>1
  <1>3. k \in Nat
    BY <1>1, <1>2 DEF Before
  <1>4. ASSUME NEW n \in 1 .. m
        PROVE  HeadRead \/ NameBegun(n + 1) <=> n < k
    <2>1. CASE at.kind \in {"begin", "digit"}
      BY <2>1, <1>1, <1>4 DEF Before, HeadRead, NameBegun, Past
    <2>2. CASE at.kind \in {"field", "value"}
      BY <2>2, <1>1, <1>2, <1>4 DEF Before, HeadRead, NameBegun, Past
    <2>3. CASE at.kind \notin {"begin", "digit", "field", "value"} /\ ~HeadRead
      <3>1. k = m
        BY <2>3, <1>1 DEF Before, HeadRead, Past, Kinds, Within
      <3>2. NameBegun(n + 1) <=> n + 1 <= m
        BY <2>3 DEF NameBegun
      <3> QED
        BY <3>1, <3>2, <2>3, <1>1, <1>4
    <2>4. CASE HeadRead
      <3>1. at.kind \notin {"begin", "digit", "field", "value", "end"} /\ resp.bad # "headers"
        BY <2>4 DEF HeadRead, Past, Within
      <3>2. k = m + 1
        BY <3>1 DEF Before
      <3> QED
        BY <3>2, <2>4, <1>1, <1>4
    <2> QED
      BY <2>1, <2>2, <2>3, <2>4
  <1> QED
    BY <1>3, <1>4 DEF Seen, First, SeenFirst

\* A header that is added to those before it is the last with its name.
LEMMA HeaderAdded ==
  ASSUME NEW r \in Responses, NEW n \in 1 .. Len(r.headers), NEW h, NEW g,
         Holds(r, h, First(r, n)),
         DOMAIN g = DOMAIN h \cup {r.headers[n].name}, g[r.headers[n].name] = r.headers[n].value,
         \A f \in DOMAIN h : f # r.headers[n].name => g[f] = h[f]
  PROVE  Holds(r, g, First(r, n + 1))
  <1>1. Len(r.headers) \in Nat /\ n \in Nat /\ n > 0
    BY AnswerParts
  <1>2. First(r, n + 1) = First(r, n) \cup {n}
    BY <1>1 DEF First
  <1>3. \A m \in First(r, n) : m \in Nat /\ m < n
    BY <1>1 DEF First
  <1>4. DOMAIN g = {r.headers[m].name : m \in First(r, n + 1)}
    BY <1>2 DEF Holds
  <1>5. ASSUME NEW f \in DOMAIN g
        PROVE  \E i \in First(r, n + 1) :
                 /\ r.headers[i].name = f /\ g[f] = r.headers[i].value
                 /\ \A m \in First(r, n + 1) : r.headers[m].name = f => m <= i
    <2>1. CASE f = r.headers[n].name
      BY <2>1, <1>1, <1>2, <1>3
    <2>2. CASE f # r.headers[n].name
      <3>1. f \in DOMAIN h /\ g[f] = h[f]
        BY <2>2, <1>5
      <3>2. PICK i \in First(r, n) :
               /\ r.headers[i].name = f /\ h[f] = r.headers[i].value
               /\ \A m \in First(r, n) : r.headers[m].name = f => m <= i
        BY <3>1 DEF Holds
      <3> QED
        BY <3>1, <3>2, <2>2, <1>2
    <2> QED
      BY <2>1, <2>2
  <1> QED
    BY <1>4, <1>5 DEF Holds

LEMMA SeenBeforeNext == Types' /\ Within(resp, at)' => SeenFirst'
  BY SeenBefore, PTL

\* What HeaderInv says, by the place.
HeaderAt ==
  /\ Holds(resp, parser.headers, First(resp, Before(resp, at)))
  /\ parser.stop = "no" => Strings

LEMMA HeaderFrom ==
  ASSUME Types', QueueInv', (Valued /\ parser.stop # "error" => HeaderAt)'
  PROVE  HeaderInv'
  <1>1. SeenFirst'
    BY SeenBeforeNext DEF QueueInv
  <1> QED
    BY <1>1 DEF SeenFirst, HeaderInv, HeaderAt

LEMMA HeaderThere ==
  ASSUME Types, QueueInv, HeaderInv, Valued, parser.stop # "error"
  PROVE  HeaderAt
  <1>1. SeenFirst
    BY SeenBefore DEF QueueInv
  <1> QED
    BY <1>1 DEF SeenFirst, HeaderInv, HeaderAt

\* Where the place after the last byte of a header is.
LEMMA HeaderNext ==
  ASSUME NEW r \in Responses, NEW n \in Nat, n > 0, n <= Len(r.headers) + 1
  PROVE  LET p == HeaderPlace(r, n) IN
         /\ p.kind \in {"field", "end", "bad"} /\ Before(r, p) = n - 1
         /\ p.kind = "field" => p.no = n /\ p.pos = 1 /\ n <= Len(r.headers)
         /\ p.kind = "end" => n = Len(r.headers) + 1
  <1>1. Len(r.headers) \in Nat
    BY AnswerParts
  <1>2. CASE n <= Len(r.headers)
    <2>1. HeaderPlace(r, n) = [kind |-> "field", no |-> n, pos |-> 1]
      BY <1>2 DEF HeaderPlace, Place
    <2> QED
      BY <2>1, <1>1, <1>2 DEF Before
  <1>3. CASE ~(n <= Len(r.headers)) /\ r.bad = "headers"
    <2>1. HeaderPlace(r, n) = [kind |-> "bad", no |-> 0, pos |-> 0]
      BY <1>3 DEF HeaderPlace, Place
    <2> QED
      BY <2>1, <1>1, <1>3 DEF Before
  <1>4. CASE ~(n <= Len(r.headers)) /\ r.bad # "headers"
    <2>1. HeaderPlace(r, n) = [kind |-> "end", no |-> 0, pos |-> 0]
      BY <1>4 DEF HeaderPlace, Place
    <2> QED
      BY <2>1, <1>1, <1>4 DEF Before
  <1> QED
    BY <1>2, <1>3, <1>4

\* Before the headers.
LEMMA LineHeader ==
  ASSUME Types, QueueInv, ParseItem, parser.stop = "no", HeaderAt, at.kind \in {"begin", "digit"}
  PROVE  HeaderAt'
  <1>1. /\ resp \in Responses /\ at \in Places /\ Within(resp, at) /\ at.kind # "over" /\ ParserType(parser)
        /\ parser' = Execute(parser, at) /\ at' = After(resp, at) /\ resp' = resp
    BY ItemTaken, TypeFacts
  <1>2. /\ parser'.headers = parser.headers /\ parser'.field = parser.field /\ parser'.value = parser.value
    BY <1>1, Fed
  <1>3. parser.field = <<>> /\ parser.value = <<>>
        /\ Holds(resp, parser.headers, First(resp, 1)) /\ Before(resp, at) = 1
    BY DEF HeaderAt, Strings, Pending, Before
  <1>4. First(resp, 1) = {} /\ First(resp, 0) = {} /\ Len(resp.headers) \in Nat
    BY <1>1, AnswerParts DEF First
  <1>5. at' = Place("digit", 0, 1) \/ at' = Place("digit", 0, at.pos + 1) \/ at' = HeaderPlace(resp, 1)
    BY <1>1, Order
  <1>6. CASE at'.kind = "digit"
    <2>1. Before(resp, at') = 1
      BY <1>6 DEF Before
    <2>2. Strings'
      BY <1>2, <1>3, <1>6 DEF Strings, Pending
    <2> QED
      BY <2>1, <2>2, <1>1, <1>2, <1>3 DEF HeaderAt
  <1>7. CASE at' = HeaderPlace(resp, 1)
    <2>1. /\ at'.kind \in {"field", "end", "bad"} /\ Before(resp, at') = 0
          /\ at'.kind = "field" => at'.no = 1 /\ at'.pos = 1
          /\ at'.kind = "end" => Len(resp.headers) = 0
      BY <1>1, <1>4, <1>7, HeaderNext
    <2>2. Strings'
      BY <2>1, <1>1, <1>2, <1>3 DEF Strings, Pending
    <2> QED
      BY <2>1, <2>2, <1>1, <1>2, <1>3, <1>4 DEF HeaderAt
  <1> QED
    BY <1>5, <1>6, <1>7 DEF Place

\* The header before the next name or the end of the headers enters headers_.
LEMMA HeaderEnters ==
  ASSUME Types, Valued, NEW n \in Nat, n <= Len(resp.headers), Pending(n),
         Holds(resp, parser.headers, First(resp, n))
  PROVE  /\ Holds(resp, Commit(parser).headers, First(resp, n + 1))
         /\ Commit(parser).field = <<>> /\ Commit(parser).value = <<>>
  <1>1. resp \in Responses /\ ParserType(parser) /\ Len(resp.headers) \in Nat
    BY TypeFacts, AnswerParts
  <1>2. CASE n = 0
    <2>1. First(resp, n) = {} /\ First(resp, n + 1) = {}
      BY <1>1, <1>2 DEF First
    <2>2. parser.field = <<>> /\ parser.value = <<>> /\ Commit(parser) = parser
      BY <1>1, <1>2, Committed DEF Pending
    <2> QED
      BY <2>1, <2>2, <1>2
  <1>3. CASE n # 0
    <2>1. n \in 1 .. Len(resp.headers)
      BY <1>1, <1>3
    <2>2. parser.field = resp.headers[n].name /\ parser.value = resp.headers[n].value /\ parser.value # <<>>
      BY <2>1, <1>3 DEF Pending, Valued
    <2>3. LET c == Commit(parser) IN
          /\ c.field = <<>> /\ c.value = <<>>
          /\ DOMAIN c.headers = DOMAIN parser.headers \cup {parser.field}
          /\ c.headers[parser.field] = parser.value
          /\ \A f \in DOMAIN parser.headers : f # parser.field => c.headers[f] = parser.headers[f]
      BY <1>1, <2>2, Committed
    <2>4. Holds(resp, Commit(parser).headers, First(resp, n + 1))
      <3> DEFINE h == parser.headers
                 g == Commit(parser).headers
      <3>1. /\ DOMAIN g = DOMAIN h \cup {resp.headers[n].name}
            /\ g[resp.headers[n].name] = resp.headers[n].value
            /\ \A f \in DOMAIN h : f # resp.headers[n].name => g[f] = h[f]
            /\ Holds(resp, h, First(resp, n))
        BY <2>2, <2>3
      <3> HIDE DEF h, g
      <3>2. Holds(resp, g, First(resp, n + 1))
        BY <1>1, <2>1, <3>1, HeaderAdded
      <3> QED
        BY <3>2 DEF g
    <2> QED
      BY <2>3, <2>4
  <1> QED
    BY <1>2, <1>3

LEMMA FieldHeader ==
  ASSUME Types, QueueInv, ParseItem, parser.stop = "no", Valued, HeaderAt, at.kind = "field"
  PROVE  HeaderAt'
  <1> DEFINE n == at.no
             name == resp.headers[n].name
  <1>1. /\ resp \in Responses /\ at \in Places /\ Within(resp, at) /\ at.kind # "over" /\ ParserType(parser)
        /\ parser' = Execute(parser, at) /\ at' = After(resp, at) /\ resp' = resp
    BY ItemTaken, TypeFacts
  <1>2. /\ parser'.headers = Commit(parser).headers /\ parser'.value = Commit(parser).value
        /\ parser'.field = Append(Commit(parser).field, name[at.pos])
    <2>1. Text(resp, at) = name
      BY DEF Text
    <2> DEFINE e == Execute(parser, at)
    <2>2. /\ e.headers = Commit(parser).headers /\ e.value = Commit(parser).value
          /\ e.field = Append(Commit(parser).field, Text(resp, at)[at.pos])
      BY <1>1, Fed
    <2> QED
      BY <2>1, <2>2, <1>1
  <1>3. /\ n \in 1 .. Len(resp.headers) /\ at.pos \in 1 .. Len(name)
        /\ at' = IF at.pos < Len(name) THEN Place("field", n, at.pos + 1)
                 ELSE IF resp.headers[n].value # <<>> THEN Place("value", n, 1)
                 ELSE HeaderPlace(resp, n + 1)
    BY <1>1, Order
  <1> HIDE DEF n
  <1>4. name \in Seq(Bytes) /\ resp.headers[n].value \in Seq(Bytes) /\ resp.headers[n].value # <<>>
        /\ Len(resp.headers) \in Nat
    BY <1>1, <1>3, AnswerParts DEF Valued
  <1> HIDE DEF name
  <1>5. Len(name) \in Nat
    BY <1>4
  <1>6. /\ Len(resp.headers) \in Nat /\ n \in Nat /\ n > 0 /\ name \in Seq(Bytes) /\ Len(name) \in Nat
        /\ resp.headers[n].value \in Seq(Bytes)
        /\ at.pos \in Nat /\ at.pos > 0 /\ at.pos <= Len(name) /\ resp.headers[n].value # <<>>
    BY <1>3, <1>4, <1>5
  <1>7. /\ Holds(resp, Commit(parser).headers, First(resp, n))
        /\ Commit(parser).field = SubSeq(name, 1, at.pos - 1) /\ Commit(parser).value = <<>>
    <2>1. CASE at.pos = 1
      <3> DEFINE m == n - 1
      <3>1. m \in Nat /\ m <= Len(resp.headers) /\ m + 1 = n
        BY <1>3, <1>6
      <3>2. Pending(m) /\ Holds(resp, parser.headers, First(resp, m))
        BY <2>1 DEF HeaderAt, Strings, Before, n
      <3> HIDE DEF m
      <3>3. /\ Holds(resp, Commit(parser).headers, First(resp, m + 1))
            /\ Commit(parser).field = <<>> /\ Commit(parser).value = <<>>
        BY <3>1, <3>2, HeaderEnters
      <3>4. SubSeq(name, 1, 0) = <<>>
        BY <1>6, WholeString
      <3> QED
        BY <3>1, <3>3, <3>4, <2>1
    <2>2. CASE at.pos # 1
      <3>1. parser.value = <<>> /\ parser.field = SubSeq(name, 1, at.pos - 1)
            /\ Holds(resp, parser.headers, First(resp, n))
        BY <2>2, <1>6 DEF HeaderAt, Strings, Before, n, name
      <3> QED
        BY <3>1, <1>1, Committed
    <2> QED
      BY <2>1, <2>2
  <1>8. parser'.field = SubSeq(name, 1, at.pos) /\ parser'.value = <<>>
    <2> DEFINE m == at.pos - 1
    <2>1. m \in Nat /\ m < Len(name) /\ m + 1 = at.pos
      BY <1>6
    <2>2. Append(SubSeq(name, 1, m), name[m + 1]) = SubSeq(name, 1, m + 1)
      BY <2>1, <1>6, PartGrows
    <2> QED
      BY <2>1, <2>2, <1>2, <1>7
  <1>9. CASE at.pos < Len(name)
    <2>1. at'.kind = "field" /\ at'.no = n /\ at'.pos = at.pos + 1
      BY <1>3, <1>9 DEF Place
    <2>2. Before(resp, at') = n
      BY <2>1, <1>6 DEF Before
    <2>3. Strings'
      BY <2>1, <1>1, <1>6, <1>8 DEF Strings, name
    <2> QED
      BY <2>2, <2>3, <1>1, <1>2, <1>7 DEF HeaderAt
  <1>10. CASE ~(at.pos < Len(name))
    <2>1. at'.kind = "value" /\ at'.no = n /\ at'.pos = 1 /\ at.pos = Len(name)
      BY <1>3, <1>6, <1>10 DEF Place
    <2>2. Before(resp, at') = n
      BY <2>1 DEF Before
    <2>3. parser'.field = name /\ parser'.value = SubSeq(resp.headers[n].value, 1, 0)
      BY <2>1, <1>6, <1>8, WholeString
    <2>4. Strings'
      BY <2>1, <2>3, <1>1 DEF Strings, name
    <2> QED
      BY <2>2, <2>4, <1>1, <1>2, <1>7 DEF HeaderAt
  <1> QED
    BY <1>9, <1>10

LEMMA ValueHeader ==
  ASSUME Types, QueueInv, ParseItem, parser.stop = "no", HeaderAt, at.kind = "value"
  PROVE  HeaderAt'
  <1> DEFINE n == at.no
             value == resp.headers[n].value
  <1>1. /\ resp \in Responses /\ at \in Places /\ Within(resp, at) /\ at.kind # "over" /\ ParserType(parser)
        /\ parser' = Execute(parser, at) /\ at' = After(resp, at) /\ resp' = resp
    BY ItemTaken, TypeFacts
  <1>2. /\ parser'.headers = parser.headers /\ parser'.field = parser.field
        /\ parser'.value = Append(parser.value, value[at.pos])
    BY <1>1, Fed DEF Text
  <1>3. /\ n \in 1 .. Len(resp.headers) /\ at.pos \in 1 .. Len(value)
        /\ at' = IF at.pos < Len(value) THEN Place("value", n, at.pos + 1) ELSE HeaderPlace(resp, n + 1)
    BY <1>1, Order
  <1> HIDE DEF n
  <1>4. value \in Seq(Bytes) /\ Len(resp.headers) \in Nat
    BY <1>1, <1>3, AnswerParts
  <1> HIDE DEF value
  <1>5. Len(value) \in Nat
    BY <1>4
  <1>6. /\ Len(resp.headers) \in Nat /\ n \in Nat /\ n > 0 /\ n <= Len(resp.headers)
        /\ value \in Seq(Bytes) /\ Len(value) \in Nat
        /\ at.pos \in Nat /\ at.pos > 0 /\ at.pos <= Len(value)
    BY <1>3, <1>4, <1>5
  <1>7. /\ parser.field = resp.headers[n].name /\ parser.value = SubSeq(value, 1, at.pos - 1)
        /\ Holds(resp, parser.headers, First(resp, n))
    BY DEF HeaderAt, Strings, Before, n, value
  <1>8. parser'.value = SubSeq(value, 1, at.pos)
    <2> DEFINE m == at.pos - 1
    <2>1. m \in Nat /\ m < Len(value) /\ m + 1 = at.pos
      BY <1>6
    <2>2. Append(SubSeq(value, 1, m), value[m + 1]) = SubSeq(value, 1, m + 1)
      BY <2>1, <1>6, PartGrows
    <2> QED
      BY <2>1, <2>2, <1>2, <1>7
  <1>9. CASE at.pos < Len(value)
    <2>1. at'.kind = "value" /\ at'.no = n /\ at'.pos = at.pos + 1
      BY <1>3, <1>9 DEF Place
    <2>2. Before(resp, at') = n
      BY <2>1 DEF Before
    <2>3. at'.pos - 1 = at.pos
      BY <2>1, <1>6
    <2>4. Strings'
      BY <2>1, <2>3, <1>1, <1>2, <1>7, <1>8 DEF Strings, value
    <2> QED
      BY <2>2, <2>4, <1>1, <1>2, <1>7 DEF HeaderAt
  <1>10. CASE ~(at.pos < Len(value))
    <2> DEFINE m == n + 1
    <2>1. at' = HeaderPlace(resp, m) /\ at.pos = Len(value) /\ m \in Nat /\ m > 0
          /\ m <= Len(resp.headers) + 1 /\ m - 1 = n
      BY <1>3, <1>6, <1>10
    <2> HIDE DEF m
    <2>2. /\ at'.kind \in {"field", "end", "bad"} /\ Before(resp, at') = m - 1
          /\ at'.kind = "field" => at'.no = m /\ at'.pos = 1
          /\ at'.kind = "end" => m = Len(resp.headers) + 1
      <3> DEFINE p == HeaderPlace(resp, m)
      <3>1. /\ p.kind \in {"field", "end", "bad"} /\ Before(resp, p) = m - 1
            /\ p.kind = "field" => p.no = m /\ p.pos = 1
            /\ p.kind = "end" => m = Len(resp.headers) + 1
        BY <2>1, <1>1, HeaderNext
      <3> QED
        BY <2>1, <3>1
    <2>3. /\ Before(resp, at') = n
          /\ at'.kind = "field" => at'.no - 1 = n /\ at'.pos = 1
          /\ at'.kind = "end" => Len(resp.headers) = n
      BY <2>1, <2>2, <1>6
    <2>4. parser'.field = resp.headers[n].name /\ parser'.value = value
      BY <2>1, <1>2, <1>6, <1>7, <1>8, WholeString
    <2>5. Strings'
      BY <2>2, <2>3, <2>4, <1>1, <1>6 DEF Strings, Pending, value
    <2> QED
      BY <2>3, <2>5, <1>1, <1>2, <1>7 DEF HeaderAt
  <1> QED
    BY <1>9, <1>10

\* The end of the headers, and what follows.
LEMMA BodyHeader ==
  ASSUME Types, QueueInv, FlowInv, ParseItem, parser.stop = "no", parser'.stop # "error", Valued, HeaderAt,
         at.kind \in {"end", "body", "last", "bad", "extra"}
  PROVE  HeaderAt'
  <1>1. /\ resp \in Responses /\ at \in Places /\ Within(resp, at) /\ at.kind # "over" /\ ParserType(parser)
        /\ parser' = Execute(parser, at) /\ at' = After(resp, at) /\ resp' = resp
    BY ItemTaken, TypeFacts
  <1>2. at.kind \in {"end", "body", "last"}
    BY <1>1, Fed
  <1>3. parser'.headers = IF at.kind = "end" THEN Commit(parser).headers ELSE parser.headers
    BY <1>1, <1>2, Fed
  <1>4. Len(resp.headers) \in Nat /\ resp.bad # "headers"
    BY <1>1, <1>2, AnswerParts DEF Within
  <1>5. at'.kind \in {"body", "bad", "last", "extra", "over"}
    <2>1. ASSUME NEW i \in Nat
          PROVE  /\ BodyPlace(resp, i).kind \in {"body", "bad", "last", "extra", "over"}
                 /\ ExtraPlace(resp, i).kind \in {"extra", "over"}
      BY DEF BodyPlace, ExtraPlace, Place
    <2>2. 1 \in Nat /\ at.pos + 1 \in Nat
      BY <1>1 DEF Places
    <2> QED
      BY <2>1, <2>2, <1>1, <1>2, Order
  <1>6. Before(resp, at') = Len(resp.headers) + 1
    BY <1>4, <1>5 DEF Before
  <1>7. Strings'
    BY <1>5 DEF Strings
  <1>8. Holds(resp, parser'.headers, First(resp, Len(resp.headers) + 1))
    <2>1. CASE at.kind = "end"
      <3> DEFINE n == Len(resp.headers)
      <3>1. Pending(n) /\ Holds(resp, parser.headers, First(resp, n))
        BY <2>1 DEF HeaderAt, Strings, Before
      <3>2. n \in Nat /\ n <= Len(resp.headers)
        BY <1>4
      <3>3. Holds(resp, Commit(parser).headers, First(resp, n + 1))
        BY <3>1, <3>2, HeaderEnters
      <3> QED
        BY <3>3, <2>1, <1>3
    <2>2. CASE at.kind # "end"
      BY <2>2, <1>2, <1>3, <1>4 DEF HeaderAt, Before
    <2> QED
      BY <2>1, <2>2
  <1> QED
    BY <1>1, <1>6, <1>7, <1>8 DEF HeaderAt

LEMMA HeaderStep ==
  ASSUME Types, QueueInv, FlowInv, LoopInv, HeaderInv, [Next]_vars, Types', QueueInv', FlowInv'
  PROVE  HeaderInv'
  <1> SUFFICES ASSUME Valued', parser'.stop # "error" PROVE HeaderAt'
    BY HeaderFrom
  <1>1. CASE ParseItem
    <2>1. Valued /\ resp' = resp /\ at \in Places /\ at.kind # "over"
      BY <1>1, ItemTaken, TypeFacts DEF Valued
    <2>2. CASE parser.stop # "no"
      <3>1. parser' = parser /\ at.kind = "extra" /\ at'.kind \in {"extra", "over"}
        BY <1>1, <2>2, StoppedFlow
      <3>2. HeaderAt /\ resp.bad = "no"
        BY <3>1, <2>1, HeaderThere DEF FlowInv, BadRead, Past
      <3>3. Before(resp, at') = Before(resp, at)
        BY <3>1, <3>2 DEF Before
      <3> QED
        BY <2>1, <2>2, <3>1, <3>2, <3>3 DEF HeaderAt
    <2>3. CASE parser.stop = "no"
      <3>1. HeaderAt
        BY <2>1, <2>3, HeaderThere
      <3> QED
        BY <3>1, <2>1, <2>3, <1>1, LineHeader, FieldHeader, ValueHeader, BodyHeader DEF Places, Kinds
    <2> QED
      BY <2>2, <2>3
  <1>2. CASE ReadBlock
    <2>1. /\ UNCHANGED <<resp, at>> /\ parser.stop = "no"
          /\ parser' \in {parser, ExecuteEof(parser)}
      BY <1>2, ReadTypes DEF LoopInv
    <2>2. UNCHANGED <<resp, at, parser.headers, parser.field, parser.value>>
      BY <2>1, TypeFacts DEF ExecuteEof, on_message_complete, ParserType
    <2>3. HeaderAt
      BY <2>1, HeaderThere DEF Valued
    <2> QED
      BY <2>1, <2>2, <2>3 DEF HeaderAt, Strings, Pending
  <1>3. CASE ~ReadBlock /\ ~ParseItem
    <2>1. UNCHANGED <<parser, at, resp>>
      BY <1>3 DEF Next, readResponse, Build, Connect, Write, Send, Close, Reset, EndTurn, vars, peer
    <2>2. HeaderAt
      BY <2>1, HeaderThere DEF Valued
    <2> QED
      BY <2>1, <2>2 DEF HeaderAt, Strings, Pending
  <1> QED
    BY <1>1, <1>2, <1>3

-----------------------------------------------------------------------------
(* The results *)

LEMMA InductiveHolds == Spec => []Inductive
  <1>1. Init => Inductive
    BY InitTypes, InitSets, InitAnswer DEF Inductive
  <1>2. Inductive /\ [Next]_vars => Inductive'
    <2> SUFFICES ASSUME Inductive, [Next]_vars PROVE Inductive'
      OBVIOUS
    <2>1. Types /\ QueueInv /\ FlowInv /\ LoopInv /\ HeaderInv /\ SetInv /\ WrittenInv
      BY DEF Inductive
    <2>2. Types'
      BY <2>1, TypesStep
    <2>3. QueueInv'
      BY <2>1, QueueStep
    <2>4. FlowInv'
      BY <2>1, FlowStep
    <2>5. LoopInv'
      BY <2>1, LoopStep
    <2>6. HeaderInv'
      BY <2>1, <2>2, <2>3, <2>4, HeaderStep
    <2>7. SetInv' /\ WrittenInv'
      BY <2>1, SetStep
    <2> QED
      BY <2>2, <2>3, <2>4, <2>5, <2>6, <2>7 DEF Inductive
  <1> QED
    BY <1>1, <1>2, PTL DEF Spec

LEMMA ResponseRight ==
  ASSUME Types, QueueInv, FlowInv, LoopInv, HeaderInv
  PROVE  ResponseFaithful
  <1> SUFFICES ASSUME outcome = "response", \A n \in 1 .. Len(resp.headers) : resp.headers[n].value # <<>>
               PROVE  /\ IsPrefix(parser.status_code, resp.status)
                      /\ at.kind \notin {"begin", "digit"} => parser.status_code = resp.status
                      /\ DOMAIN parser.headers = {resp.headers[n].name : n \in Seen}
                      /\ \A f \in DOMAIN parser.headers :
                           \E n \in Named(f) : /\ parser.headers[f] = resp.headers[n].value
                                               /\ \A m \in Named(f) : m <= n
                      /\ parser.body = SubSeq(resp.body, 1, BodyRead)
    BY DEF ResponseFaithful
  <1>1. parser.stop # "error" /\ Valued
    BY DEF LoopInv, Valued
  <1>2. parser.body = SubSeq(resp.body, 1, BodyRead)
    BY <1>1 DEF FlowInv
  <1>3. Holds(resp, parser.headers, Seen)
    BY <1>1 DEF HeaderInv
  <1>4. resp.status \in Seq(Bytes) /\ Len(resp.status) \in Nat
    BY TypeFacts, AnswerParts
  <1>5. at.kind \notin {"begin", "digit"} => parser.status_code = resp.status
    BY <1>4, WholeString DEF FlowInv
  <1>6. IsPrefix(parser.status_code, resp.status)
    <2> DEFINE k == IF at.kind = "begin" THEN 0
                    ELSE IF at.kind = "digit" THEN at.pos - 1 ELSE Len(resp.status)
    <2>1. k \in Nat /\ k <= Len(resp.status)
      BY <1>4, TypeFacts DEF QueueInv, Within
    <2>2. parser.status_code = SubSeq(resp.status, 1, k)
      BY DEF FlowInv
    <2> HIDE DEF k
    <2>3. ASSUME NEW s \in Seq(Bytes), NEW n \in Nat, n <= Len(s)
          PROVE  IsPrefix(SubSeq(s, 1, n), s)
      <3>1. SubSeq(s, 1, n) \in Seq(Bytes) /\ Len(SubSeq(s, 1, n)) = n /\ Len(s) \in Nat
        BY <2>3
      <3>2. SubSeq(SubSeq(s, 1, n), 1, Len(SubSeq(s, 1, n))) = SubSeq(s, 1, n)
        BY <3>1, WholeString
      <3> QED
        BY <3>1, <3>2, <2>3 DEF IsPrefix
    <2> QED
      BY <2>1, <2>2, <2>3, <1>4
  <1> QED
    BY <1>2, <1>3, <1>5, <1>6 DEF Holds, Named

LEMMA CutRight ==
  ASSUME Types, FlowInv, LoopInv
  PROVE  CutOnlyByPeer
  <1> SUFFICES ASSUME outcome = "response", ec = "no"
               PROVE  HeadRead /\ parser.body = resp.body /\ (resp.framing = "chunked" => LastRead)
    BY DEF CutOnlyByPeer
  <1>1. parser.stop = "paused"
    BY DEF LoopInv
  <1>2. HeadRead /\ Past /\ ~BadRead /\ parser.body = SubSeq(resp.body, 1, BodyRead)
    BY <1>1 DEF FlowInv
  <1>3. resp.bad = "no"
    BY <1>2 DEF BadRead
  <1>4. BodyRead = Len(resp.body)
    BY <1>2 DEF BodyRead, Past
  <1>5. resp.body \in Seq(Bytes)
    BY TypeFacts, AnswerParts
  <1> QED
    BY <1>2, <1>3, <1>4, <1>5, WholeString DEF LastRead

LEMMA RefusalRight ==
  ASSUME Types, FlowInv, LoopInv
  PROVE  MalformedRefused
  <1> SUFFICES ASSUME pc = "done", at # Start PROVE (outcome = "HTTPClientError") <=> BadRead
    BY DEF MalformedRefused
  <1>1. outcome \in {"response", "HTTPClientError"}
    BY TypeFacts DEF LoopInv
  <1>2. outcome = "response" => ~BadRead
    BY DEF LoopInv, FlowInv
  <1>3. outcome = "HTTPClientError" => BadRead
    BY DEF LoopInv, FlowInv
  <1> QED
    BY <1>1, <1>2, <1>3

\* HTTPClientRequest and readResponse(): what the caller set is what the peer gets,
\* and what the peer sent, as far as it was read, is what the caller gets.
THEOREM ExchangeIsFaithful == Spec => []ExchangeFaithful
  <1>1. Inductive => ExchangeFaithful
    <2> SUFFICES ASSUME Inductive PROVE RequestFaithful /\ ResponseFaithful
      BY DEF ExchangeFaithful
    <2>1. Types /\ QueueInv /\ FlowInv /\ LoopInv /\ HeaderInv /\ SetInv /\ WrittenInv
      BY DEF Inductive
    <2>2. SetTypes
      BY <2>1 DEF Types
    <2> QED
      BY <2>1, <2>2, RequestRight, ResponseRight
  <1> QED
    BY <1>1, InductiveHolds, PTL

\* The loop of readResponse(): it goes on after a block exactly when the message is
\* not complete and the connection has not ended, and throws on a refused byte alone.
THEOREM OutcomeIsRight == Spec => []OutcomeRight
  <1>1. Inductive => OutcomeRight
    <2> SUFFICES ASSUME Inductive PROVE TypeOK /\ CutOnlyByPeer /\ MalformedRefused
      BY DEF OutcomeRight
    <2>1. Types /\ FlowInv /\ LoopInv
      BY DEF Inductive
    <2> QED
      BY <2>1, CutRight, RefusalRight DEF Types
  <1> QED
    BY <1>1, InductiveHolds, PTL
=============================================================================
