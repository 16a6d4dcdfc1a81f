-------------------------- MODULE RequestDecoding --------------------------
(***************************************************************************)
(* From a parsed message to the dictionaries of a request                  *)
(* (request_parser.cpp, decode_message and below; url_encode, url_decode   *)
(* and split of util.cpp).  A string is a sequence of characters; a        *)
(* percent-encoded character is one element of it, such as "%2F", and so   *)
(* is the end of a line, "CRLF".                                           *)
(***************************************************************************)
EXTENDS Naturals, SequencesExt

CONSTANTS
    Fields,       \* form fields whose part is a value
    FileFields,   \* form fields whose part has a filename
    MaxUpload,    \* file_upload_max_size
    MaxInt        \* the largest number that stoi() can return

\* Characters that have a percent-encoded form here, and that form.
Escape == ("/" :> "%2F") @@ ("." :> "%2E") @@ ("&" :> "%26") @@ ("=" :> "%3D") @@ ("+" :> "%2B")
Escaped == [e \in Range(Escape) |-> CHOOSE c \in DOMAIN Escape : Escape[c] = e]
\* What becomes of the percent sign of an encoded character.
Twice == ("%2F" :> "%252F") @@ ("%2E" :> "%252E") @@ ("%26" :> "%2526")
           @@ ("%3D" :> "%253D") @@ ("%2B" :> "%252B")

\* A bug: the plus sign is left alone.
url_decodeNoPlus(s) == [k \in 1 .. Len(s) |-> IF s[k] \in DOMAIN Escaped THEN Escaped[s[k]] ELSE s[k]]

url_decode(s) ==
    [k \in 1 .. Len(s) |->
        CASE s[k] = "+" -> " "
          [] s[k] \in DOMAIN Escaped -> Escaped[s[k]]
          [] OTHER -> s[k]]

url_encode(s) ==
    [k \in 1 .. Len(s) |->
        CASE s[k] = " " -> "+"
          [] s[k] = "EOF" -> "%FF"
          [] s[k] \in DOMAIN Escape \ {"."} -> Escape[s[k]]
          [] s[k] \in DOMAIN Twice -> Twice[s[k]]
          [] OTHER -> s[k]]

\* What lies between delimiters; split() leaves the empty tokens out.
Pieces(s, c) ==
    LET add(acc, x) == IF x = c THEN Append(acc, <<>>) ELSE Append(Front(acc), Append(Last(acc), x))
    IN  FoldLeft(add, <<<<>>>>, s)
split(s, c) == SelectSeq(Pieces(s, c), LAMBDA t : t # <<>>)

\* Assignment to an element of a dictionary.
Assign(dict, k, v) == (k :> v) @@ dict
Empty == [k \in {} |-> <<>>]

\* Position of the first c in s, 0 when there is none.
Find(s, c) == SelectInSeq(s, LAMBDA x : x = c)

Dot == <<".">>
DotDot == <<".", ".">>

\* A bug: a leading ".." is kept.
normalize_pathKeeps(src) ==
    LET next(dst, seg) ==
          CASE seg = Dot -> dst
            [] seg = DotDot /\ dst # <<>> -> Front(dst)
            [] OTHER -> Append(dst, seg)
    IN  FoldLeft(next, <<>>, split(src, "/"))

\* The path as the sequence of its segments, "." and ".." resolved.
normalize_path(src) ==
    LET next(dst, seg) ==
          CASE seg = Dot -> dst
            [] seg = DotDot -> IF dst = <<>> THEN dst ELSE Front(dst)
            [] OTHER -> Append(dst, seg)
    IN  FoldLeft(next, <<>>, split(src, "/"))

\* parse_url(): the query is decoded as a whole, then split.
parse_query(query) ==
    LET set(dict, arg) ==
          LET pos == Find(arg, "=")
          IN  CASE pos > 1 -> Assign(dict, SubSeq(arg, 1, pos - 1), SubSeq(arg, pos + 1, Len(arg)))
                [] pos = 0 -> Assign(dict, arg, <<>>)
                [] pos = 1 -> dict
    IN  FoldLeft(set, Empty, split(url_decode(query), "&"))

\* parse_cookie(): blanks before the name are skipped.
parse_cookie(dict, data) ==
    LET pos   == Find(data, "=")
        blank == Len(data) - Len(FoldLeft(LAMBDA acc, x : IF acc = <<>> /\ x = " " THEN acc
                                                          ELSE Append(acc, x), <<>>, data))
    IN  Assign(dict, SubSeq(data, blank + 1, pos - 1), SubSeq(data, pos + 1, Len(data)))

\* parse_cookies() fails on a header with a piece that has no "=".
CookiesParse(data) == \A p \in ToSet(Pieces(data, ";")) : Contains(p, "=")
parse_cookies(data) == FoldLeft(parse_cookie, Empty, Pieces(data, ";"))

\* get_next_line(): up to the end of a line, and n characters at most.  At the
\* end of the stream get() yields EOF, which is stored as a byte.
get_next_line(strm, n) ==
    LET end  == Find(strm, "CRLF")
        line == IF end = 0 THEN Append(strm, "EOF") ELSE SubSeq(strm, 1, end - 1)
    IN  SubSeq(line, 1, Min({n, Len(line)}))

\* parse_form_data(), application/x-www-form-urlencoded: it reads as much as the
\* Content-Length says, stops at the first piece without "=", and names and
\* values pass through url_encode.
parse_form_urlencoded(body, content_length) ==
    LET pieces == Pieces(get_next_line(body, content_length), "&")
        bad == SelectInSeq(pieces, LAMBDA p : ~Contains(p, "="))
        set(dict, p) == LET pos == Find(p, "=")
                        IN  Assign(dict, url_encode(SubSeq(p, 1, pos - 1)),
                                         url_encode(SubSeq(p, pos + 1, Len(p))))
    IN  FoldLeft(set, Empty, IF bad = 0 THEN pieces ELSE SubSeq(pieces, 1, bad - 1))

\* parse_mime_data(): a field is always stored, a file only up to the limit.
\* POST_ and FILE_ are one dictionary here.
Store(dict, fld, data) ==
    IF fld \in FileFields /\ Len(data) > MaxUpload THEN dict ELSE Assign(dict, fld, data)

\* parse_multipart_data() and parse_mime_data() on the bytes after the first
\* boundary: "cut" stands for CRLF--, "bnd" for what must follow it; when
\* something else follows, both are dropped.  A field's name stands for the
\* header lines of its part.
parse_mime_data(st, c) ==
    CASE st.mode = "head" -> IF c \in Fields \cup FileFields
                               THEN [st EXCEPT !.mode = "data", !.fld = c, !.data = <<>>]
                               ELSE [st EXCEPT !.mode = "done"]
      [] st.mode = "data" /\ c = "cut" -> [st EXCEPT !.mode = "cut"]
      [] st.mode = "data" /\ c # "cut" -> [st EXCEPT !.data = Append(@, c)]
      [] st.mode = "cut" /\ c = "bnd" -> [st EXCEPT !.mode = "head", !.dict = Store(@, st.fld, st.data)]
      [] st.mode = "cut" /\ c # "bnd" -> [st EXCEPT !.mode = "data"]
      [] st.mode = "done" -> st

\* The first line of a multipart body, which should be two dashes and the
\* boundary; comparing from the third character throws when there is only one.
FirstLine(body) == get_next_line(body, 1000)
FirstLineThrows(body) == Len(FirstLine(body)) = 1

\* Without the boundary in the first line nothing is stored.  The EOF at the end of
\* the stream is stored as a byte of the part.
parse_multipart_data(body) ==
    LET line == FirstLine(body)
        end == FoldLeft(parse_mime_data,
                        [mode |-> "head", fld |-> "", data |-> <<>>, dict |-> Empty],
                        SubSeq(body, Len(line) + 2, Len(body)))
    IN  CASE Len(line) < 3 \/ line[3] # "bnd" -> Empty
          [] OTHER ->
             CASE end.mode = "data" -> Store(end.dict, end.fld, Append(end.data, "EOF"))
               [] end.mode = "cut"  -> Store(end.dict, end.fld, end.data)
               [] OTHER -> end.dict
=============================================================================
