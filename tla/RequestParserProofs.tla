-------------------------- MODULE RequestParserProofs --------------------------
(* What the callbacks of RequestParser collect, for every request and however the chunks *)
(* of it are cut.                                                                        *)
EXTENDS RequestParser, SequenceTheorems, TLAPS

\* What a request is made of.
LEMMA RequestParts ==
  ASSUME TypeOK
  PROVE  /\ req.blanks \in Nat
         /\ req.url \in Seq(Bytes) /\ Len(req.url) \in Nat /\ Len(req.url) > 0
         /\ req.headers \in Seq([name : Seq(Bytes), value : Seq(Bytes)])
         /\ Len(req.headers) \in Nat
         /\ req.body \in Seq(Bytes) /\ Len(req.body) \in Nat
         /\ req.bad \in {"no", "headers", "body"}
         /\ \A i \in 1 .. Len(req.headers) :
               /\ req.headers[i].name \in Seq(Bytes) /\ req.headers[i].value \in Seq(Bytes)
               /\ Len(req.headers[i].name) \in Nat /\ Len(req.headers[i].name) > 0
               /\ Len(req.headers[i].value) \in Nat
  <1>1. req \in Requests
    BY DEF TypeOK
  <1>2. /\ req.blanks \in Nat
        /\ req.url \in Seq(Bytes) /\ Len(req.url) > 0
        /\ req.headers \in Seq([name : Seq(Bytes), value : Seq(Bytes)])
        /\ \A i \in 1 .. Len(req.headers) : Len(req.headers[i].name) > 0
        /\ req.body \in Seq(Bytes)
        /\ req.bad \in {"no", "headers", "body"}
    BY <1>1, RequestsAssumption DEF RequestsAssumption
  <1>3. ASSUME NEW i \in 1 .. Len(req.headers)
        PROVE  req.headers[i].name \in Seq(Bytes) /\ req.headers[i].value \in Seq(Bytes)
    <2>1. req.headers[i] \in [name : Seq(Bytes), value : Seq(Bytes)]
      BY <1>2, ElementOfSeq
    <2> QED
      BY <2>1
  <1>4. ASSUME NEW s \in Seq(Bytes) PROVE Len(s) \in Nat
    OBVIOUS
  <1> QED
    BY <1>2, <1>3, <1>4

\* The byte after the first p bytes of an element is a byte of it.
LEMMA NextByte ==
  ASSUME NEW s \in Seq(Bytes), NEW p \in Nat, p < Len(s)
  PROVE  s[p + 1] \in Bytes
  <1>1. p + 1 \in 1 .. Len(s)
    OBVIOUS
  <1> QED
    BY <1>1, ElementOfSeq

\* A part that ends at byte p and the byte after it are the part that ends there: what a
\* callback that appends makes of consecutive parts.
LEMMA PartGrows ==
  ASSUME NEW s \in Seq(Bytes), NEW k \in Nat, NEW p \in Nat, k <= p, p < Len(s)
  PROVE  /\ Append(SubSeq(s, k + 1, p), s[p + 1]) = SubSeq(s, k + 1, p + 1)
         /\ Append(SubSeq(s, k + 1, p), s[p + 1]) \in Seq(Bytes)
         /\ Append(<<>>, s[p + 1]) = SubSeq(s, p + 1, p + 1)
         /\ s[p + 1] \in Bytes
  <1>1. p + 1 \in 1 .. Len(s) /\ k + 1 \in 1 .. Len(s) /\ p + 1 \in k + 1 .. Len(s)
    OBVIOUS
  <1>2. s[p + 1] \in Bytes
    BY <1>1
  <1>3. SubSeq(s, k + 1, p + 1) = SubSeq(s, k + 1, p) \o <<s[p + 1]>>
    BY <1>1, SubSeqRecursiveSecond, (p + 1) - 1 = p
  <1>4. SubSeq(s, p + 1, p + 1) = SubSeq(s, p + 1, p) \o <<s[p + 1]>>
    BY <1>1, SubSeqRecursiveSecond, (p + 1) - 1 = p
  <1>5. SubSeq(s, k + 1, p) \in Seq(Bytes)
    <2>1. \A i \in k + 1 .. p : s[i] \in Bytes
      BY <1>1
    <2> QED
      BY <2>1, SubSeqProperties
  <1>6. SubSeq(s, p + 1, p) = <<>>
    BY SubSeqEmpty
  <1>7. /\ Append(SubSeq(s, k + 1, p), s[p + 1]) = SubSeq(s, k + 1, p) \o <<s[p + 1]>>
        /\ Append(SubSeq(s, k + 1, p), s[p + 1]) \in Seq(Bytes)
    <2>1. PICK u \in Seq(Bytes) : u = SubSeq(s, k + 1, p)
      BY <1>5
    <2>2. PICK b \in Bytes : b = s[p + 1]
      BY <1>2
    <2>3. Append(u, b) = u \o <<b>> /\ Append(u, b) \in Seq(Bytes)
      BY AppendIsConcat, AppendProperties
    <2> QED
      BY <2>1, <2>2, <2>3
  <1>8. Append(<<>>, s[p + 1]) = <<>> \o <<s[p + 1]>>
    BY <1>2, AppendIsConcat, <<>> \in Seq(Bytes)
  <1> QED
    BY <1>2, <1>3, <1>4, <1>6, <1>7, <1>8

\* The same for a part of which only the end is known.
LEMMA SuffixGrows ==
  ASSUME NEW s \in Seq(Bytes), NEW p \in Nat, p < Len(s), NEW u,
         \E k \in 0 .. p : u = SubSeq(s, k + 1, p)
  PROVE  \E k \in 0 .. p + 1 : Append(u, s[p + 1]) = SubSeq(s, k + 1, p + 1)
  <1>1. PICK k \in 0 .. p : u = SubSeq(s, k + 1, p)
    OBVIOUS
  <1>2. k \in Nat /\ k <= p /\ k \in 0 .. p + 1
    BY <1>1
  <1>3. Append(SubSeq(s, k + 1, p), s[p + 1]) = SubSeq(s, k + 1, p + 1)
    BY <1>2, PartGrows
  <1> QED
    BY <1>1, <1>2, <1>3

\* A header that is complete enters headers_ under its own name.
LEMMA CommitType ==
  ASSUME TypeOK, Commit
  PROVE  DOMAIN headers_' \subseteq Seq(Bytes) /\ \A f \in DOMAIN headers_' : headers_'[f] \in Seq(Bytes)
  <1>1. CASE current_header_value_ # <<>>
    <2>1. headers_' = Committed(current_header_field_, current_header_value_)
      BY <1>1 DEF Commit
    <2> QED
      BY <2>1 DEF TypeOK, Committed
  <1>2. CASE current_header_value_ = <<>>
    BY <1>2 DEF TypeOK, Commit
  <1> QED
    BY <1>1, <1>2

-----------------------------------------------------------------------------
\* No callback leaves the types: every byte it takes is a byte of the element it is in.
LEMMA NextType == TypeOK /\ WireInv /\ [Next]_vars => TypeOK'
  <1> SUFFICES ASSUME TypeOK, WireInv, [Next]_vars PROVE TypeOK'
    BY DEF TypeOK
  <1> USE RequestParts DEF TypeOK, WireInv, wire, chunk, parts
  <1>1. ASSUME Blank PROVE TypeOK'
    BY <1>1 DEF Blank, Running, Consume
  <1>2. ASSUME on_message_begin PROVE TypeOK'
    BY <1>2 DEF on_message_begin, Running, Consume, Enter
  <1>3. ASSUME on_url PROVE TypeOK'
    BY <1>3 DEF on_url, Running, Consume
  <1>4. ASSUME EndOfUrl PROVE TypeOK'
    BY <1>4 DEF EndOfUrl, Running, Consume, Enter
  <1>5. ASSUME on_header_field PROVE TypeOK'
    <2>1. hdr \in 1 .. Len(req.headers) /\ pos < Len(req.headers[hdr].name)
      BY <1>5 DEF on_header_field
    <2>2. req.headers[hdr].name \in Seq(Bytes) /\ pos \in Nat
      BY <2>1
    <2>3. req.headers[hdr].name[pos + 1] \in Bytes
      BY <2>1, <2>2, NextByte
    <2>4. current_header_field_' \in Seq(Bytes) /\ current_header_value_' \in Seq(Bytes)
      BY <1>5, <2>3, AppendProperties DEF on_header_field
    <2>5. DOMAIN headers_' \subseteq Seq(Bytes) /\ \A f \in DOMAIN headers_' : headers_'[f] \in Seq(Bytes)
      BY <1>5, CommitType DEF on_header_field
    <2> QED
      BY <1>5, <2>4, <2>5 DEF on_header_field, Running, Consume
  <1>6. ASSUME EndOfField PROVE TypeOK'
    BY <1>6 DEF EndOfField, Running, Consume, Enter
  <1>7. ASSUME on_header_value PROVE TypeOK'
    <2>1. hdr \in 1 .. Len(req.headers) /\ pos < Len(req.headers[hdr].value)
      BY <1>7 DEF on_header_value
    <2>2. req.headers[hdr].value \in Seq(Bytes) /\ pos \in Nat
      BY <2>1
    <2>3. req.headers[hdr].value[pos + 1] \in Bytes
      BY <2>1, <2>2, NextByte
    <2>4. current_header_value_' \in Seq(Bytes)
      BY <1>7, <2>3, AppendProperties DEF on_header_value
    <2> QED
      BY <1>7, <2>4 DEF on_header_value, Running, Consume
  <1>8. ASSUME EndOfValue PROVE TypeOK'
    BY <1>8 DEF EndOfValue, Running, Consume, Enter
  <1>9. ASSUME on_headers_complete PROVE TypeOK'
    <2>1. DOMAIN headers_' \subseteq Seq(Bytes) /\ \A f \in DOMAIN headers_' : headers_'[f] \in Seq(Bytes)
      BY <1>9, CommitType DEF on_headers_complete
    <2>2. current_header_field_' \in Seq(Bytes) /\ current_header_value_' \in Seq(Bytes)
      BY <1>9, <<>> \in Seq(Bytes) DEF on_headers_complete
    <2> QED
      BY <1>9, <2>1, <2>2 DEF on_headers_complete, Running, Consume, Enter
  <1>10. ASSUME on_body PROVE TypeOK'
    BY <1>10 DEF on_body, Running, Consume
  <1>11. ASSUME on_message_complete PROVE TypeOK'
    BY <1>11 DEF on_message_complete, Running
  <1>12. ASSUME Malformed PROVE TypeOK'
    BY <1>12 DEF Malformed, Running, Consume
  <1>13. ASSUME Return PROVE TypeOK'
    BY <1>13 DEF Return, Running
  <1>14. ASSUME NextChunkAfterError PROVE TypeOK'
    BY <1>14 DEF NextChunkAfterError
  <1>15. CASE UNCHANGED vars
    BY <1>15 DEF vars
  <1> QED
    BY <1>1, <1>2, <1>3, <1>4, <1>5, <1>6, <1>7, <1>8, <1>9, <1>10, <1>11, <1>12, <1>13, <1>14,
          <1>15 DEF Next, Answered

\* The next byte stays in the element that phase names.
LEMMA NextWire == Inductive /\ [Next]_vars => WireInv'
  <1> SUFFICES ASSUME TypeOK, WireInv, [Next]_vars PROVE WireInv'
    BY DEF Inductive
  <1> USE RequestParts DEF TypeOK, WireInv, wire, chunk, parts
  <1>1. ASSUME Blank PROVE WireInv'
    BY <1>1 DEF Blank, Running, Consume
  <1>2. ASSUME on_message_begin PROVE WireInv'
    BY <1>2 DEF on_message_begin, Running, Consume, Enter
  <1>3. ASSUME on_url PROVE WireInv'
    BY <1>3 DEF on_url, Running, Consume
  <1>4. ASSUME EndOfUrl PROVE WireInv'
    <2>1. /\ phase = "url" /\ req' = req /\ hdr' = hdr /\ pos' = 0
          /\ phase' = IF req.headers = <<>> THEN "end" ELSE "field"
      BY <1>4 DEF EndOfUrl, Enter
    <2>2. hdr = 1 /\ Len(req.headers) \in Nat /\ (req.headers = <<>> <=> Len(req.headers) = 0)
      BY <2>1
    <2>3. CASE Len(req.headers) = 0
      BY <2>1, <2>2, <2>3
    <2>4. CASE Len(req.headers) # 0
      <3>1. 1 \in 1 .. Len(req.headers) /\ phase' = "field"
        BY <2>1, <2>2, <2>4
      <3>2. Len(req.headers[1].name) \in Nat
        BY <3>1
      <3> QED
        BY <2>1, <2>2, <3>1, <3>2
    <2> QED
      BY <2>3, <2>4
  <1>5. ASSUME on_header_field PROVE WireInv'
    BY <1>5 DEF on_header_field, Running, Consume, Commit, Committed
  <1>6. ASSUME EndOfField PROVE WireInv'
    <2>1. phase = "field" /\ req' = req /\ hdr' = hdr /\ pos' = 0 /\ phase' = "value"
      BY <1>6 DEF EndOfField, Enter
    <2>2. hdr <= Len(req.headers) /\ hdr \in 1 .. Len(req.headers)
      BY <2>1
    <2>3. Len(req.headers[hdr].value) \in Nat
      BY <2>2
    <2> QED
      BY <2>1, <2>2, <2>3
  <1>7. ASSUME on_header_value PROVE WireInv'
    BY <1>7 DEF on_header_value, Running, Consume
  <1>8. ASSUME EndOfValue PROVE WireInv'
    <2>1. hdr \in 1 .. Len(req.headers) /\ hdr' = hdr + 1 /\ req' = req /\ pos' = 0
      BY <1>8 DEF EndOfValue, Enter
    <2>2. CASE hdr = Len(req.headers)
      BY <1>8, <2>1, <2>2 DEF EndOfValue, Enter
    <2>3. CASE hdr # Len(req.headers)
      <3>1. hdr' \in 1 .. Len(req.headers) /\ phase' = "field"
        BY <1>8, <2>1, <2>3 DEF EndOfValue, Enter
      <3>2. Len(req.headers[hdr'].name) \in Nat
        BY <3>1
      <3> QED
        BY <2>1, <3>1, <3>2
    <2> QED
      BY <2>2, <2>3
  <1>9. ASSUME on_headers_complete PROVE WireInv'
    BY <1>9 DEF on_headers_complete, Running, Consume, Enter, Commit, Committed
  <1>10. ASSUME on_body PROVE WireInv'
    BY <1>10 DEF on_body, Running, Consume
  <1>11. ASSUME on_message_complete PROVE WireInv'
    BY <1>11 DEF on_message_complete, Running
  <1>12. ASSUME Malformed PROVE WireInv'
    BY <1>12 DEF Malformed, Running, Consume
  <1>13. ASSUME Return PROVE WireInv'
    BY <1>13 DEF Return, Running
  <1>14. ASSUME NextChunkAfterError PROVE WireInv'
    BY <1>14 DEF NextChunkAfterError
  <1>15. CASE UNCHANGED vars
    BY <1>15 DEF vars
  <1> QED
    BY <1>1, <1>2, <1>3, <1>4, <1>5, <1>6, <1>7, <1>8, <1>9, <1>10, <1>11, <1>12, <1>13, <1>14,
          <1>15 DEF Next, Answered

\* is_complete_ is set by the last byte of a message only.
LEMMA NextComplete == Inductive /\ [Next]_vars => CompleteInv'
  <1> SUFFICES ASSUME TypeOK, WireInv, CompleteInv, [Next]_vars PROVE CompleteInv'
    BY DEF Inductive
  <1> USE RequestParts DEF TypeOK, WireInv, CompleteInv, wire, chunk, parts
  <1>1. ASSUME Blank PROVE CompleteInv'
    BY <1>1 DEF Blank, Running, Consume
  <1>2. ASSUME on_message_begin PROVE CompleteInv'
    BY <1>2 DEF on_message_begin, Running, Consume, Enter
  <1>3. ASSUME on_url PROVE CompleteInv'
    BY <1>3 DEF on_url, Running, Consume
  <1>4. ASSUME EndOfUrl PROVE CompleteInv'
    BY <1>4 DEF EndOfUrl, Running, Consume, Enter
  <1>5. ASSUME on_header_field PROVE CompleteInv'
    BY <1>5 DEF on_header_field, Running, Consume, Commit, Committed
  <1>6. ASSUME EndOfField PROVE CompleteInv'
    BY <1>6 DEF EndOfField, Running, Consume, Enter
  <1>7. ASSUME on_header_value PROVE CompleteInv'
    BY <1>7 DEF on_header_value, Running, Consume
  <1>8. ASSUME EndOfValue PROVE CompleteInv'
    BY <1>8 DEF EndOfValue, Running, Consume, Enter
  <1>9. ASSUME on_headers_complete PROVE CompleteInv'
    BY <1>9 DEF on_headers_complete, Running, Consume, Enter, Commit, Committed
  <1>10. ASSUME on_body PROVE CompleteInv'
    BY <1>10 DEF on_body, Running, Consume
  <1>11. ASSUME on_message_complete PROVE CompleteInv'
    BY <1>11 DEF on_message_complete, Running
  <1>12. ASSUME Malformed PROVE CompleteInv'
    BY <1>12 DEF Malformed, Running, Consume
  <1>13. ASSUME Return PROVE CompleteInv'
    BY <1>13 DEF Return, Running
  <1>14. ASSUME NextChunkAfterError PROVE CompleteInv'
    BY <1>14 DEF NextChunkAfterError
  <1>15. CASE UNCHANGED vars
    BY <1>15 DEF vars
  <1> QED
    BY <1>1, <1>2, <1>3, <1>4, <1>5, <1>6, <1>7, <1>8, <1>9, <1>10, <1>11, <1>12, <1>13, <1>14,
          <1>15 DEF Next, Answered

\* on_body appends the next byte of the body, and nothing else touches body_.
LEMMA NextBody == Inductive /\ [Next]_vars => BodyFaithful'
  <1> SUFFICES ASSUME TypeOK, WireInv, BodyFaithful, [Next]_vars PROVE BodyFaithful'
    BY DEF Inductive
  <1> USE RequestParts DEF TypeOK, WireInv, BodyFaithful, wire, chunk, parts
  <1>1. ASSUME Blank PROVE BodyFaithful'
    BY <1>1 DEF Blank, Running, Consume
  <1>2. ASSUME on_message_begin PROVE BodyFaithful'
    BY <1>2 DEF on_message_begin, Running, Consume, Enter
  <1>3. ASSUME on_url PROVE BodyFaithful'
    BY <1>3 DEF on_url, Running, Consume
  <1>4. ASSUME EndOfUrl PROVE BodyFaithful'
    BY <1>4 DEF EndOfUrl, Running, Consume, Enter
  <1>5. ASSUME on_header_field PROVE BodyFaithful'
    BY <1>5 DEF on_header_field, Running, Consume, Commit, Committed
  <1>6. ASSUME EndOfField PROVE BodyFaithful'
    BY <1>6 DEF EndOfField, Running, Consume, Enter
  <1>7. ASSUME on_header_value PROVE BodyFaithful'
    BY <1>7 DEF on_header_value, Running, Consume
  <1>8. ASSUME EndOfValue PROVE BodyFaithful'
    BY <1>8 DEF EndOfValue, Running, Consume, Enter
  <1>9. ASSUME on_headers_complete PROVE BodyFaithful'
    BY <1>9 DEF on_headers_complete, Running, Consume, Enter, Commit, Committed
  <1>10. ASSUME on_body PROVE BodyFaithful'
    BY <1>10, PartGrows DEF on_body, Running, Consume
  <1>11. ASSUME on_message_complete PROVE BodyFaithful'
    BY <1>11 DEF on_message_complete, Running
  <1>12. ASSUME Malformed PROVE BodyFaithful'
    BY <1>12 DEF Malformed, Running, Consume
  <1>13. ASSUME Return PROVE BodyFaithful'
    BY <1>13 DEF Return, Running
  <1>14. ASSUME NextChunkAfterError PROVE BodyFaithful'
    BY <1>14 DEF NextChunkAfterError
  <1>15. CASE UNCHANGED vars
    BY <1>15 DEF vars
  <1> QED
    BY <1>1, <1>2, <1>3, <1>4, <1>5, <1>6, <1>7, <1>8, <1>9, <1>10, <1>11, <1>12, <1>13, <1>14,
          <1>15 DEF Next, Answered

\* The parts of the url that lie in one chunk are adjacent.
LEMMA NextUrl == Inductive /\ [Next]_vars => UrlInv'
  <1> SUFFICES ASSUME TypeOK, WireInv, UrlInv, [Next]_vars PROVE UrlInv'
    BY DEF Inductive
  <1> USE RequestParts DEF TypeOK, WireInv, UrlInv, wire, chunk, parts
  <1>1. ASSUME Blank PROVE UrlInv'
    BY <1>1 DEF Blank, Running, Consume
  <1>2. ASSUME on_message_begin PROVE UrlInv'
    BY <1>2 DEF on_message_begin, Running, Consume, Enter
  <1>3. ASSUME on_url PROVE UrlInv'
    <2>1. pos < Len(req.url) /\ pos \in Nat /\ pos' = pos + 1 /\ req' = req
      BY <1>3 DEF on_url
    <2>2. CASE mark = "none"
      <3>1. url_' = SubSeq(req.url, pos + 1, pos + 1)
        BY <1>3, <2>1, <2>2, PartGrows DEF on_url
      <3>2. pos \in 0 .. pos'
        BY <2>1
      <3> QED
        BY <2>1, <3>1, <3>2
    <2>3. CASE mark = "set"
      <3>1. \E k \in 0 .. pos : url_ = SubSeq(req.url, k + 1, pos)
        BY <1>3, <2>3 DEF on_url
      <3>2. url_' = Append(url_, req.url[pos + 1])
        BY <1>3, <2>3 DEF on_url
      <3>3. \E k \in 0 .. pos + 1 : url_' = SubSeq(req.url, k + 1, pos + 1)
        <4>1. req.url \in Seq(Bytes)
          OBVIOUS
        <4>2. \E k \in 0 .. pos + 1 : Append(url_, req.url[pos + 1]) = SubSeq(req.url, k + 1, pos + 1)
          BY <2>1, <3>1, <4>1, SuffixGrows, ZenonT(30)
        <4> QED
          BY <3>2, <4>2
      <3> QED
        BY <2>1, <3>3
    <2> QED
      BY <2>2, <2>3
  <1>4. ASSUME EndOfUrl PROVE UrlInv'
    BY <1>4 DEF EndOfUrl, Running, Consume, Enter
  <1>5. ASSUME on_header_field PROVE UrlInv'
    BY <1>5 DEF on_header_field, Running, Consume, Commit, Committed
  <1>6. ASSUME EndOfField PROVE UrlInv'
    BY <1>6 DEF EndOfField, Running, Consume, Enter
  <1>7. ASSUME on_header_value PROVE UrlInv'
    BY <1>7 DEF on_header_value, Running, Consume
  <1>8. ASSUME EndOfValue PROVE UrlInv'
    BY <1>8 DEF EndOfValue, Running, Consume, Enter
  <1>9. ASSUME on_headers_complete PROVE UrlInv'
    BY <1>9 DEF on_headers_complete, Running, Consume, Enter, Commit, Committed
  <1>10. ASSUME on_body PROVE UrlInv'
    BY <1>10 DEF on_body, Running, Consume
  <1>11. ASSUME on_message_complete PROVE UrlInv'
    BY <1>11 DEF on_message_complete, Running
  <1>12. ASSUME Malformed PROVE UrlInv'
    BY <1>12 DEF Malformed, Running, Consume
  <1>13. ASSUME Return PROVE UrlInv'
    BY <1>13 DEF Return, Running
  <1>14. ASSUME NextChunkAfterError PROVE UrlInv'
    BY <1>14 DEF NextChunkAfterError
  <1>15. CASE UNCHANGED vars
    BY <1>15 DEF vars
  <1> QED
    BY <1>1, <1>2, <1>3, <1>4, <1>5, <1>6, <1>7, <1>8, <1>9, <1>10, <1>11, <1>12, <1>13, <1>14,
          <1>15 DEF Next, Answered

\* The url that is kept is what lies in the last chunk it has a part in.
LEMMA NextSuffix == Inductive /\ [Next]_vars => UrlIsSuffix'
  <1> SUFFICES ASSUME TypeOK, WireInv, UrlInv, UrlIsSuffix, [Next]_vars PROVE UrlIsSuffix'
    BY DEF Inductive
  <1> USE RequestParts DEF TypeOK, WireInv, UrlIsSuffix, wire, chunk, parts
  <1>1. ASSUME Blank PROVE UrlIsSuffix'
    BY <1>1 DEF Blank, Running, Consume
  <1>2. ASSUME on_message_begin PROVE UrlIsSuffix'
    BY <1>2 DEF on_message_begin, Running, Consume, Enter
  <1>3. ASSUME on_url PROVE UrlIsSuffix'
    BY <1>3 DEF on_url, Running, Consume
  <1>4. ASSUME EndOfUrl PROVE UrlIsSuffix'
    <2>1. pos = Len(req.url) /\ req' = req
      BY <1>4 DEF EndOfUrl
    <2>2. CASE mark = "none"
      <3>1. Len(req.url) \in 0 .. Len(req.url) /\ Len(req.url) + 1 \in Int /\ Len(req.url) \in Int
        OBVIOUS
      <3>2. SubSeq(req.url, Len(req.url) + 1, Len(req.url)) = <<>>
        BY <3>1, SubSeqEmpty
      <3> QED
        BY <1>4, <2>1, <2>2, <3>1, <3>2 DEF EndOfUrl
    <2>3. CASE mark = "set"
      BY <1>4, <2>1, <2>3 DEF EndOfUrl, UrlInv
    <2> QED
      BY <2>2, <2>3
  <1>5. ASSUME on_header_field PROVE UrlIsSuffix'
    BY <1>5 DEF on_header_field, Running, Consume, Commit, Committed
  <1>6. ASSUME EndOfField PROVE UrlIsSuffix'
    BY <1>6 DEF EndOfField, Running, Consume, Enter
  <1>7. ASSUME on_header_value PROVE UrlIsSuffix'
    BY <1>7 DEF on_header_value, Running, Consume
  <1>8. ASSUME EndOfValue PROVE UrlIsSuffix'
    BY <1>8 DEF EndOfValue, Running, Consume, Enter
  <1>9. ASSUME on_headers_complete PROVE UrlIsSuffix'
    BY <1>9 DEF on_headers_complete, Running, Consume, Enter, Commit, Committed
  <1>10. ASSUME on_body PROVE UrlIsSuffix'
    BY <1>10 DEF on_body, Running, Consume
  <1>11. ASSUME on_message_complete PROVE UrlIsSuffix'
    BY <1>11 DEF on_message_complete, Running
  <1>12. ASSUME Malformed PROVE UrlIsSuffix'
    BY <1>12 DEF Malformed, Running, Consume
  <1>13. ASSUME Return PROVE UrlIsSuffix'
    BY <1>13 DEF Return, Running
  <1>14. ASSUME NextChunkAfterError PROVE UrlIsSuffix'
    BY <1>14 DEF NextChunkAfterError
  <1>15. CASE UNCHANGED vars
    BY <1>15 DEF vars
  <1> QED
    BY <1>1, <1>2, <1>3, <1>4, <1>5, <1>6, <1>7, <1>8, <1>9, <1>10, <1>11, <1>12, <1>13, <1>14,
          <1>15 DEF Next, Answered

-----------------------------------------------------------------------------
\* A header that is committed after the k - 1 before it: under its name the value of the
\* k-th counts, under every other name what counted before.
LEMMA HeldGrows ==
  ASSUME TypeOK, NEW k \in 1 .. Len(req.headers), HeadersHeld(k - 1), req' = req,
         headers_' = Committed(req.headers[k].name, req.headers[k].value)
  PROVE  HeadersHeld(k)'
  <1> DEFINE n == req.headers[k].name
  <1>1. k \in Nat /\ k - 1 \in Nat /\ Len(req.headers) \in Nat
    BY RequestParts
  <1>2. Names(k) = Names(k - 1) \cup {n}
    <2>1. \A i : i \in 1 .. k <=> i \in 1 .. k - 1 \/ i = k
      BY <1>1
    <2> QED
      BY <2>1 DEF Names
  <1>3. DOMAIN headers_ = Names(k - 1)
    BY DEF HeadersHeld
  <1>4. headers_' = [f \in Names(k) |-> IF f = n THEN req.headers[k].value ELSE headers_[f]]
    BY <1>2, <1>3 DEF Committed
  <1>5. headers_' = [f \in Names(k) |-> headers_'[f]]
    BY <1>4
  <1>6. ASSUME NEW f \in Names(k)
        PROVE  \E i \in 1 .. k : LastOf(f, i, k) /\ headers_'[f] = req.headers[i].value
    <2>1. CASE f = n
      <3>1. LastOf(f, k, k) /\ k \in 1 .. k
        BY <1>1, <2>1 DEF LastOf
      <3> QED
        BY <1>4, <2>1, <3>1
    <2>2. CASE f # n
      <3>1. f \in Names(k - 1)
        BY <1>2, <2>2
      <3>2. PICK i \in 1 .. k - 1 : LastOf(f, i, k - 1) /\ headers_[f] = req.headers[i].value
        BY <3>1 DEF HeadersHeld
      <3>3. \A j \in i + 1 .. k : j \in i + 1 .. k - 1 \/ j = k
        BY <1>1
      <3>4. LastOf(f, i, k) /\ i \in 1 .. k
        BY <1>1, <2>2, <3>2, <3>3 DEF LastOf
      <3> QED
        BY <1>4, <2>2, <3>2, <3>4
    <2> QED
      BY <2>1, <2>2
  <1> QED
    BY <1>5, <1>6 DEF HeadersHeld, Names, LastOf

\* What Commit makes of the headers read so far: all of them are held.
LEMMA CommitHolds ==
  ASSUME TypeOK, AllValued, NEW k \in 0 .. Len(req.headers), HeadersRead(k), Commit, req' = req
  PROVE  /\ HeadersHeld(k)'
         /\ k = 0 => current_header_field_ = <<>> /\ current_header_value_ = <<>>
         /\ k > 0 => current_header_value_ # <<>>
  <1>1. CASE k = 0
    BY <1>1 DEF HeadersRead, HeadersHeld, Commit, Names, LastOf
  <1>2. CASE k > 0
    <2>1. k \in 1 .. Len(req.headers)
      BY <1>2, RequestParts
    <2>2. /\ HeadersHeld(k - 1) /\ current_header_field_ = req.headers[k].name
          /\ current_header_value_ = req.headers[k].value /\ req.headers[k].value # <<>>
      BY <1>2, <2>1 DEF HeadersRead, AllValued
    <2>3. headers_' = Committed(req.headers[k].name, req.headers[k].value)
      BY <2>2 DEF Commit
    <2>4. HeadersHeld(k)'
      BY <2>1, <2>2, <2>3, HeldGrows
    <2> QED
      BY <1>2, <2>2, <2>4
  <1> QED
    BY <1>1, <1>2

\* The whole of a name or value is its part from the first byte to the last, and the part
\* before the first byte is empty.
LEMMA WholePart ==
  ASSUME NEW s \in Seq(Bytes)
  PROVE  SubSeq(s, 1, Len(s)) = s /\ SubSeq(s, 1, 0) = <<>>
  BY SubSeqFull, SubSeqEmpty

\* A part from the first byte on grows by the byte after it.
LEMMA PrefixGrows ==
  ASSUME NEW s \in Seq(Bytes), NEW p \in Nat, p < Len(s)
  PROVE  Append(SubSeq(s, 1, p), s[p + 1]) = SubSeq(s, 1, p + 1)
  <1>1. Append(SubSeq(s, 0 + 1, p), s[p + 1]) = SubSeq(s, 0 + 1, p + 1)
    BY PartGrows
  <1> QED
    BY <1>1

\* Headers that are held stay so while headers_ is left alone.
LEMMA HeldKept ==
  ASSUME NEW k, HeadersHeld(k), req' = req, headers_' = headers_
  PROVE  HeadersHeld(k)'
  BY DEF HeadersHeld, Names, LastOf

\* A step that leaves the headers and the position alone says nothing new of them.
LEMMA HeaderKept ==
  HeaderInv /\ UNCHANGED <<req, phase, hdr, pos, current_header_field_, current_header_value_,
                         headers_>> => HeaderInv'
  <1> SUFFICES ASSUME HeaderInv, AllValued',
                      UNCHANGED <<req, phase, hdr, pos, current_header_field_,
                                  current_header_value_, headers_>>
               PROVE  HeaderInv'
    BY DEF HeaderInv
  <1>1. AllValued
    BY DEF AllValued
  <1>2. \A k : (HeadersHeld(k) => HeadersHeld(k)') /\ (HeadersRead(k) => HeadersRead(k)')
    BY HeldKept DEF HeadersRead
  <1> QED
    BY <1>1, <1>2 DEF HeaderInv

\* on_header_field: the first byte of a name commits the header before it, every later one
\* continues the name.
LEMMA FieldStep == TypeOK /\ WireInv /\ HeaderInv /\ on_header_field => HeaderInv'
  <1> SUFFICES ASSUME TypeOK, WireInv, HeaderInv, on_header_field, AllValued' PROVE HeaderInv'
    BY DEF HeaderInv
  <1> DEFINE n == req.headers[hdr].name
  <1>1. /\ phase = "field" /\ phase' = "field" /\ pos < Len(n) /\ pos' = pos + 1 /\ req' = req
        /\ hdr' = hdr /\ current_header_value_' = <<>> /\ Commit
        /\ current_header_field_' =
             Append(IF current_header_value_ # <<>> THEN <<>> ELSE current_header_field_, n[pos + 1])
    BY DEF on_header_field
  <1>2. hdr \in 1 .. Len(req.headers) /\ pos \in Nat /\ hdr - 1 \in 0 .. Len(req.headers)
    BY <1>1, RequestParts DEF TypeOK, WireInv
  <1>3. n \in Seq(Bytes)
    BY <1>2, RequestParts
  <1>4. AllValued
    BY <1>1 DEF AllValued
  <1>5. CASE pos = 0
    <2>1. HeadersRead(hdr - 1)
      BY <1>1, <1>4, <1>5 DEF HeaderInv
    <2>2. PICK k \in 0 .. Len(req.headers) : k = hdr - 1
      BY <1>2
    <2>3. HeadersRead(k)
      BY <2>1, <2>2
    <2>4. /\ HeadersHeld(k)'
          /\ k = 0 => current_header_field_ = <<>> /\ current_header_value_ = <<>>
          /\ k > 0 => current_header_value_ # <<>>
      BY <1>1, <1>4, <2>3, CommitHolds
    <2>5. HeadersHeld(hdr - 1)'
      BY <1>1, <2>2, <2>4
    <2>6. current_header_field_' = Append(<<>>, n[pos + 1])
      <3>1. k = 0 \/ k > 0
        BY <1>2, <2>2
      <3>2. CASE k = 0
        BY <1>1, <2>4, <3>2
      <3>3. CASE k > 0
        BY <1>1, <2>4, <3>3
      <3> QED
        BY <3>1, <3>2, <3>3
    <2>7. Append(SubSeq(n, 1, pos), n[pos + 1]) = SubSeq(n, 1, pos + 1)
      BY <1>1, <1>2, <1>3, PrefixGrows
    <2>8. SubSeq(n, 1, pos) = <<>>
      BY <1>3, <1>5, WholePart
    <2>9. current_header_field_' = SubSeq(n, 1, pos + 1)
      BY <2>6, <2>7, <2>8
    <2>10. pos' > 0 /\ pos' # 0
      BY <1>1, <1>2
    <2>11. current_header_field_' = SubSeq(req'.headers[hdr'].name, 1, pos')
      BY <1>1, <2>9
    <2> QED
      BY <1>1, <2>5, <2>10, <2>11 DEF HeaderInv
  <1>6. CASE pos > 0
    <2>1. /\ HeadersHeld(hdr - 1) /\ current_header_field_ = SubSeq(n, 1, pos)
          /\ current_header_value_ = <<>>
      BY <1>1, <1>4, <1>6 DEF HeaderInv
    <2>2. headers_' = headers_
      BY <1>1, <2>1 DEF Commit
    <2>3. HeadersHeld(hdr - 1)'
      BY <1>1, <2>1, <2>2, HeldKept
    <2>4. Append(SubSeq(n, 1, pos), n[pos + 1]) = SubSeq(n, 1, pos + 1)
      BY <1>1, <1>2, <1>3, PrefixGrows
    <2>5. current_header_field_' = SubSeq(n, 1, pos + 1)
      BY <1>1, <2>1, <2>4
    <2>6. pos' > 0
      BY <1>1, <1>2
    <2> QED
      BY <1>1, <2>3, <2>5, <2>6 DEF HeaderInv
  <1> QED
    BY <1>2, <1>5, <1>6

\* on_header_value continues the value of the header whose name was read.
LEMMA ValueStep == TypeOK /\ WireInv /\ HeaderInv /\ on_header_value => HeaderInv'
  <1> SUFFICES ASSUME TypeOK, WireInv, HeaderInv, on_header_value, AllValued' PROVE HeaderInv'
    BY DEF HeaderInv
  <1> DEFINE v == req.headers[hdr].value
  <1>1. /\ phase = "value" /\ phase' = "value" /\ pos < Len(v) /\ pos' = pos + 1 /\ req' = req
        /\ hdr' = hdr /\ headers_' = headers_ /\ current_header_field_' = current_header_field_
        /\ current_header_value_' = Append(current_header_value_, v[pos + 1])
    BY DEF on_header_value
  <1>2. hdr \in 1 .. Len(req.headers) /\ pos \in Nat
    BY <1>1, RequestParts DEF TypeOK, WireInv
  <1>3. v \in Seq(Bytes)
    BY <1>2, RequestParts
  <1>4. /\ HeadersHeld(hdr - 1) /\ current_header_field_ = req.headers[hdr].name
        /\ current_header_value_ = SubSeq(v, 1, pos)
    BY <1>1 DEF HeaderInv, AllValued
  <1>5. HeadersHeld(hdr - 1)'
    BY <1>1, <1>4, HeldKept
  <1>6. Append(SubSeq(v, 1, pos), v[pos + 1]) = SubSeq(v, 1, pos + 1)
    BY <1>1, <1>2, <1>3, PrefixGrows
  <1>7. current_header_value_' = SubSeq(v, 1, pos + 1)
    BY <1>1, <1>4, <1>6
  <1> QED
    BY <1>1, <1>4, <1>5, <1>7 DEF HeaderInv

\* Between two elements nothing is collected: what was read of a name or a value is all of it.
LEMMA BetweenElements ==
  TypeOK /\ WireInv /\ HeaderInv /\ (EndOfUrl \/ EndOfField \/ EndOfValue) => HeaderInv'
  <1> SUFFICES ASSUME TypeOK, WireInv, HeaderInv, EndOfUrl \/ EndOfField \/ EndOfValue, AllValued'
               PROVE  HeaderInv'
    BY DEF HeaderInv
  <1>1. /\ req' = req /\ headers_' = headers_
        /\ current_header_field_' = current_header_field_
        /\ current_header_value_' = current_header_value_
    BY DEF EndOfUrl, EndOfField, EndOfValue, parts
  <1>2. AllValued
    BY <1>1 DEF AllValued
  <1>3. \A k : (HeadersHeld(k) => HeadersHeld(k)') /\ (HeadersRead(k) => HeadersRead(k)')
    BY <1>1, HeldKept DEF HeadersRead
  <1>4. CASE EndOfUrl
    <2>1. HeadersRead(0) /\ hdr = 1 /\ hdr' = 1 /\ pos' = 0
      BY <1>2, <1>4 DEF EndOfUrl, Enter, HeaderInv, WireInv
    <2>2. HeadersRead(0)'
      BY <1>3, <2>1
    <2>3. CASE req.headers = <<>>
      <3>1. phase' = "end" /\ Len(req'.headers) = 0
        BY <1>1, <1>4, <2>3 DEF EndOfUrl, Enter
      <3> QED
        BY <2>2, <3>1 DEF HeaderInv
    <2>4. CASE req.headers # <<>>
      <3>1. phase' = "field" /\ hdr' - 1 = 0
        BY <1>4, <2>1, <2>4 DEF EndOfUrl, Enter
      <3> QED
        BY <2>1, <2>2, <3>1 DEF HeaderInv
    <2> QED
      BY <2>3, <2>4
  <1>5. CASE EndOfField
    <2>1. /\ phase = "field" /\ phase' = "value" /\ hdr' = hdr /\ pos' = 0
          /\ pos = Len(req.headers[hdr].name)
      BY <1>5 DEF EndOfField, Enter
    <2>2. hdr \in 1 .. Len(req.headers)
      BY <2>1, RequestParts DEF TypeOK, WireInv
    <2>3. req.headers[hdr].name \in Seq(Bytes) /\ req.headers[hdr].value \in Seq(Bytes) /\ pos > 0
      BY <2>1, <2>2, RequestParts
    <2>4. /\ HeadersHeld(hdr - 1) /\ current_header_value_ = <<>>
          /\ current_header_field_ = SubSeq(req.headers[hdr].name, 1, pos)
      BY <1>2, <2>1, <2>3 DEF HeaderInv
    <2>5. /\ current_header_field_ = req.headers[hdr].name
          /\ current_header_value_ = SubSeq(req.headers[hdr].value, 1, 0)
      BY <2>1, <2>3, <2>4, WholePart
    <2>6. HeadersHeld(hdr - 1)'
      BY <1>3, <2>1, <2>4
    <2> QED
      BY <1>1, <2>1, <2>5, <2>6 DEF HeaderInv
  <1>6. CASE EndOfValue
    <2>1. /\ phase = "value" /\ hdr' = hdr + 1 /\ pos' = 0
          /\ pos = Len(req.headers[hdr].value)
          /\ phase' = IF hdr = Len(req.headers) THEN "end" ELSE "field"
      BY <1>6 DEF EndOfValue, Enter
    <2>2. hdr \in 1 .. Len(req.headers) /\ hdr > 0 /\ hdr' - 1 = hdr
      BY <2>1, RequestParts DEF TypeOK, WireInv
    <2>3. req.headers[hdr].value \in Seq(Bytes)
      BY <2>2, RequestParts
    <2>4. /\ HeadersHeld(hdr - 1) /\ current_header_field_ = req.headers[hdr].name
          /\ current_header_value_ = SubSeq(req.headers[hdr].value, 1, pos)
      BY <1>2, <2>1 DEF HeaderInv
    <2>5. HeadersRead(hdr)
      BY <2>1, <2>2, <2>3, <2>4, WholePart DEF HeadersRead
    <2> QED
      BY <1>1, <1>3, <2>1, <2>2, <2>5 DEF HeaderInv
  <1> QED
    BY <1>4, <1>5, <1>6

\* on_headers_complete commits the last header.
LEMMA LastHeaderStep == TypeOK /\ WireInv /\ HeaderInv /\ on_headers_complete => HeaderInv'
  <1> SUFFICES ASSUME TypeOK, HeaderInv, on_headers_complete, AllValued' PROVE HeaderInv'
    BY DEF HeaderInv
  <1>1. phase = "end" /\ phase' = "body" /\ req' = req /\ Commit
    BY DEF on_headers_complete, Enter
  <1>2. AllValued
    BY <1>1 DEF AllValued
  <1>3. Len(req.headers) \in 0 .. Len(req.headers)
    BY RequestParts
  <1>4. HeadersRead(Len(req.headers))
    BY <1>1, <1>2 DEF HeaderInv
  <1>5. HeadersHeld(Len(req.headers))'
    BY <1>1, <1>2, <1>3, <1>4, CommitHolds
  <1> QED
    BY <1>1, <1>5 DEF HeaderInv

\* headers_ and the header being read follow the message.
LEMMA NextHeader == Inductive /\ [Next]_vars => HeaderInv'
  <1> SUFFICES ASSUME TypeOK, WireInv, HeaderInv, [Next]_vars PROVE HeaderInv'
    BY DEF Inductive
  <1> USE DEF HeaderInv, HeadersRead, HeadersHeld, Names, LastOf, AllValued, wire, chunk, parts
  <1>1. ASSUME Blank PROVE HeaderInv'
    BY <1>1 DEF Blank, Running, Consume
  <1>2. ASSUME on_message_begin PROVE HeaderInv'
    BY <1>2 DEF on_message_begin, Running, Consume, Enter
  <1>3. ASSUME on_url PROVE HeaderInv'
    BY <1>3 DEF on_url, Running, Consume
  <1>4. ASSUME EndOfUrl PROVE HeaderInv'
    BY <1>4, BetweenElements
  <1>5. ASSUME on_header_field PROVE HeaderInv'
    BY <1>5, FieldStep
  <1>6. ASSUME EndOfField PROVE HeaderInv'
    BY <1>6, BetweenElements
  <1>7. ASSUME on_header_value PROVE HeaderInv'
    BY <1>7, ValueStep
  <1>8. ASSUME EndOfValue PROVE HeaderInv'
    BY <1>8, BetweenElements
  <1>9. ASSUME on_headers_complete PROVE HeaderInv'
    BY <1>9, LastHeaderStep
  <1>10. ASSUME on_body PROVE HeaderInv'
    BY <1>10 DEF on_body, Running, Consume
  <1>11. ASSUME on_message_complete PROVE HeaderInv'
    BY <1>11 DEF on_message_complete, Running
  <1>12. ASSUME Malformed PROVE HeaderInv'
    BY <1>12, HeaderKept DEF Malformed, wire, parts
  <1>13. ASSUME Return PROVE HeaderInv'
    BY <1>13, HeaderKept DEF Return, wire, parts
  <1>14. ASSUME NextChunkAfterError PROVE HeaderInv'
    BY <1>14, HeaderKept DEF NextChunkAfterError, wire, parts
  <1>15. CASE UNCHANGED vars
    BY <1>15, HeaderKept DEF vars, wire, parts
  <1> QED
    BY <1>1, <1>2, <1>3, <1>4, <1>5, <1>6, <1>7, <1>8, <1>9, <1>10, <1>11, <1>12, <1>13, <1>14,
          <1>15 DEF Next, Answered

-----------------------------------------------------------------------------
\* The constructor's state, whatever is_complete_ holds.
LEMMA InitInductive == Init => Inductive
  <1> SUFFICES ASSUME Init PROVE Inductive
    OBVIOUS
  <1>1. TypeOK
    <2>1. Len(req.headers) \in Nat
      BY RequestsAssumption DEF RequestsAssumption, Init
    <2>2. 1 \in 1 .. Len(req.headers) + 1 /\ <<>> \in Seq(Bytes)
      BY <2>1
    <2>3. DOMAIN headers_ = {}
      BY DEF Init
    <2> QED
      BY <2>2, <2>3 DEF Init, TypeOK
  <1>2. WireInv /\ CompleteInv /\ UrlInv /\ UrlIsSuffix
    BY <1>1, RequestParts DEF Init, WireInv, CompleteInv, UrlInv, UrlIsSuffix
  <1>3. BodyFaithful
    BY <1>1, RequestParts, WholePart DEF Init, BodyFaithful
  <1>4. HeadersHeld(0)
    <2>1. Names(0) = {}
      BY DEF Names
    <2> QED
      BY <2>1 DEF Init, HeadersHeld
  <1>5. HeaderInv
    BY <1>4 DEF Init, HeaderInv, HeadersRead
  <1> QED
    BY <1>1, <1>2, <1>3, <1>5 DEF Inductive

\* The inductive invariant holds in every reachable state.
THEOREM Invariance == Spec => []Inductive
  <1>1. Inductive /\ [Next]_vars => Inductive'
    BY NextType, NextWire, NextComplete, NextBody, NextUrl, NextSuffix, NextHeader DEF Inductive
  <1> QED
    BY InitInductive, <1>1, PTL DEF Spec

\* The body handed on is the body that was sent, however the chunks are cut.
THEOREM BodyArrives == Spec => []BodyFaithful
  <1>1. Inductive => BodyFaithful
    BY DEF Inductive
  <1> QED
    BY <1>1, Invariance, PTL

\* What is taken for the url is the end of the url, however the chunks are cut.
THEOREM UrlEndArrives == Spec => []UrlIsSuffix
  <1>1. Inductive => UrlIsSuffix
    BY DEF Inductive
  <1> QED
    BY <1>1, Invariance, PTL

\* parse() answers OK at the end of a well-formed message only, when no empty line precedes it.
THEOREM OkMeansComplete == Spec => []MessageEnds
  <1>1. ASSUME Inductive PROVE MessageEnds
    <2>1. TypeOK /\ CompleteInv
      BY <1>1 DEF Inductive
    <2>2. req.bad \in {"no", "headers", "body"}
      BY <2>1, RequestParts
    <2> QED
      BY <2>1, <2>2 DEF MessageEnds, EndOfMessageDetected, CompleteInv, TypeOK
  <1> QED
    BY <1>1, Invariance, PTL

\* Of a name that occurs, the last occurrence is one index, so the map is what it says.
LEMMA HeldIsMap == ASSUME TypeOK, HeadersHeld(Len(req.headers)) PROVE headers_ = HeaderMap(Len(req.headers))
  <1> DEFINE k == Len(req.headers)
             Last(f, i) == /\ req.headers[i].name = f
                           /\ \A j \in i + 1 .. k : req.headers[j].name # f
  <1>1. k \in Nat
    BY RequestParts
  <1>2. ASSUME NEW f \in Names(k)
        PROVE  headers_[f] = req.headers[CHOOSE i \in 1 .. k : Last(f, i)].value
    <2>1. PICK i \in 1 .. k : Last(f, i) /\ headers_[f] = req.headers[i].value
      BY <1>2 DEF HeadersHeld, LastOf
    <2>2. ASSUME NEW j \in 1 .. k, Last(f, j) PROVE j = i
      <3>1. ~(j > i) /\ ~(i > j)
        BY <1>1, <2>1, <2>2
      <3> QED
        BY <1>1, <3>1
    <2>3. (CHOOSE j \in 1 .. k : Last(f, j)) = i
      <3> HIDE DEF Last
      <3> QED
        BY <2>1, <2>2
    <2> QED
      BY <2>1, <2>3
  <1>3. HeaderMap(k) = [f \in Names(k) |-> req.headers[CHOOSE i \in 1 .. k : Last(f, i)].value]
    BY DEF HeaderMap
  <1>4. headers_ = [f \in Names(k) |-> headers_[f]]
    BY DEF HeadersHeld
  <1> QED
    BY <1>2, <1>3, <1>4

\* A request whose headers all have values reaches the handler with exactly its headers.
THEOREM HeadersArrive == Spec => []HeadersFaithful
  <1>1. ASSUME Inductive PROVE HeadersFaithful
    <2>1. SUFFICES ASSUME phase = "done", AllValued PROVE headers_ = HeaderMap(Len(req.headers))
      BY DEF HeadersFaithful
    <2>2. TypeOK /\ HeadersHeld(Len(req.headers))
      BY <1>1, <2>1 DEF Inductive, HeaderInv
    <2> QED
      BY <2>2, HeldIsMap
  <1> QED
    BY <1>1, Invariance, PTL
=============================================================================
