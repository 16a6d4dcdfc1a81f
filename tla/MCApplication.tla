--------------------------- MODULE MCApplication ---------------------------
(* Small applications and requests for Application. *)
EXTENDS Application

Seg(c) == <<c>>
AnySeg == {Seg(c) : c \in {"a", "b", "u", "c", "en", "fr", "xx"}} \cup {<<"a", "a">>, <<"a", ".">>, <<".", "a">>}
Sub(lit, name, text, words, q, rest, groups) ==
    [lit |-> lit, name |-> name, text |-> text, words |-> words, q |-> q, rest |-> rest, groups |-> groups]
Chars(c) == Sub(TRUE, "", Seg(c), {Seg(c)}, FALSE, FALSE, 0)
CharsQ(c) == Sub(TRUE, "", <<c, c, "?">>, {Seg(c), <<c, c>>}, TRUE, FALSE, 0)   \* aa?
Param(x) == Sub(FALSE, x, <<>>, AnySeg, FALSE, FALSE, 0)
ParamQ(x) == Sub(FALSE, x, <<>>, AnySeg, TRUE, FALSE, 0)
Rest(x) == Sub(FALSE, x, <<".*">>, AnySeg, FALSE, TRUE, 0)
Group(x) == Sub(FALSE, x, <<"(a|b)">>, {Seg("a"), Seg("b")}, FALSE, FALSE, 1)
Route(m, pattern, mws, h) == [methods |-> m, pattern |-> pattern, mws |-> mws, handler |-> h]
Group_(prefix, mws, routes, children) ==
    [prefix |-> prefix, mws |-> mws, routes |-> routes, children |-> children]

G == {"GET"}
GP == {"GET", "POST"}

\* Optional elements, routes that overlap, a wildcard, a regex with groups.
Flat ==
    [globals |-> <<"log">>, blueprints |-> <<>>,
     routes |-> <<Route(G, <<Chars("a"), ParamQ("x"), Chars("b")>>, <<>>, "opt"),
                  Route({"POST"}, <<Param("x")>>, <<>>, "post"),
                  Route(G, <<CharsQ("a")>>, <<"csrf">>, "maybe"),
                  Route(G, <<Param("x"), ParamQ("y")>>, <<>>, "two"),
                  Route(G, <<Group("x"), Param("y"), Param("z")>>, <<>>, "groups"),
                  Route(GP, <<Rest("f")>>, <<>>, "file")>>]

\* Groups within groups, one of them refused by its middleware.
Nested ==
    [globals |-> <<"log", "csrf">>,
     routes |-> <<Route(GP, <<Chars("a")>>, <<"locale">>, "home"),
                  Route(G, <<Param("_locale"), Chars("a")>>, <<"locale">>, "local")>>,
     blueprints |->
       <<Group_(<<Chars("u")>>, <<"auth">>, <<Route(G, <<>>, <<>>, "user")>>,
           <<Group_(<<Chars("c")>>, <<"admin">>, <<Route(G, <<Param("x")>>, <<"own">>, "nested")>>,
                <<Group_(<<Chars("b")>>, <<"deep">>, <<Route(G, <<>>, <<>>, "inmost")>>, <<>>)>>),
             Group_(<<Chars("b")>>, <<"deny">>, <<Route(G, <<Chars("b")>>, <<>>, "denied")>>, <<>>)>>)>>]

MCApps == {Flat, Nested}
MCSupported == <<<<"en">>, <<"fr", "FR">>>>
MCFallback == <<"el">>

---------------------------------------------------------------------------
Quiet == [sure |-> TRUE, dict |-> Empty]
Plain == [method |-> "GET", url |-> "fine", path |-> <<"/", "a">>, query |-> <<>>, cookie |-> "none",
          cookies |-> <<>>, accept |-> <<>>, type |-> "none", body |-> <<>>, length |-> 0,
          meantGET |-> Quiet, meantPOST |-> Quiet, meantCOOKIE |-> Empty]

\* Paths: every short one with dots and slashes, plain and encoded.
PathChars == {"/", "a", ".", "%2E", "%2F"}
Paths == {<<"/">> \o p : p \in UNION {[1 .. n -> PathChars] : n \in 0 .. 4}}
SegPaths ==
    {FlattenSeq([k \in 1 .. Len(s) |-> <<"/", s[k]>>]) :
        s \in UNION {[1 .. n -> {"a", "b", "u", "c"}] : n \in 1 .. 3}}

\* How a browser encodes a dictionary: in a query, and in a form.
Encode(s) == [k \in 1 .. Len(s) |-> IF s[k] = " " THEN "+"
                                    ELSE IF s[k] \in DOMAIN Escape THEN Escape[s[k]] ELSE s[k]]
Dicts == {<<"k">> :> v : v \in {<<>>, <<"v">>, <<"v", " ">>, <<"&">>, <<"=", "v">>, <<"/", "v">>}}
           \cup {(<<"k">> :> <<"v">>) @@ (<<"l">> :> v) : v \in {<<"v">>, <<"+">>, <<"&">>}}
Join(d) ==
    LET ks == SetToSeq(DOMAIN d)
    IN  Tail(FlattenSeq([k \in 1 .. Len(ks) |-> <<"&">> \o Encode(ks[k]) \o <<"=">> \o Encode(d[ks[k]])]))
Avoids(d, S) == \A k \in DOMAIN d : ToSet(k) \cap S = {} /\ ToSet(d[k]) \cap S = {}

Queries == {[Plain EXCEPT !.query = Join(d), !.meantGET = [sure |-> Avoids(d, {"&"}), dict |-> d]] : d \in Dicts}

\* Posted bodies.  The Content-Length is that of the body, but a chunked request has
\* none or, as http_parser ignores it then, any other.
Post(type, body, length) ==
    [Plain EXCEPT !.method = "POST", !.type = type, !.body = body, !.length = length, !.meantPOST.sure = FALSE]
Lengths(body) == {Len(body), 0, 1, Len(body) + 2, MaxInt + 1}
Forms ==
    UNION {{[Post(t, Join(d), n) EXCEPT !.meantPOST =
                [sure |-> t = "urlencoded" /\ n = Len(Join(d)) /\ Avoids(d, {"&", "=", "/", "+", " "}), dict |-> d]] :
               n \in Lengths(Join(d))} : d \in Dicts, t \in {"urlencoded", "other", "none"}}

\* Multipart bodies of a field and a file, and broken ones.
FirstLines == {<<"-", "-", "bnd", "CRLF">>, <<"-", "-", "x", "CRLF">>, <<"-", "CRLF">>, <<"CRLF">>, <<>>}
Begin == <<"-", "-", "bnd", "CRLF">>
Datas == {<<>>, <<"v">>, <<"v", "cut", "v">>, <<"cut">>, <<"v", "v">>, <<"v", "v", "v">>, <<"bnd">>}
Multiparts ==
    UNION {LET body == Begin \o <<"f">> \o d \o <<"cut", "bnd">> \o <<"up">> \o u \o <<"cut", "bnd">>
           IN  {[Post("multipart", body, n) EXCEPT !.meantPOST =
                   [sure |-> ~Contains(d, "cut") /\ ~Contains(u, "cut"),
                    dict |-> IF Len(u) > MaxUpload THEN "f" :> d ELSE ("f" :> d) @@ ("up" :> u)]] :
                  n \in {Len(body), 0}} : d \in Datas, u \in Datas}
    \cup {Post("multipart", l \o b, 0) :
            l \in FirstLines, b \in {<<>>, <<"f", "v">>, <<"f", "v", "cut">>, <<"f", "v", "cut", "bnd">>}}

\* Cookies, whole and broken, and the sources of a locale.
Cookies(s) == FlattenSeq([k \in 1 .. Len(s) |-> (IF k = 1 THEN <<>> ELSE <<";", " ">>) \o s[k]])
CookieRequests ==
    {[Plain EXCEPT !.cookie = "fine", !.cookies = Cookies(<<<<"k", "=", "v">>, <<"locale", "=", l>>>>),
          !.query = q, !.meantGET.sure = FALSE, !.accept = a, !.path = p,
          !.meantCOOKIE = (<<"k">> :> <<"v">>) @@ (<<"locale">> :> <<l>>)] :
       l \in {"en", "xx"}, q \in {<<>>, <<"lang", "=", "fr">>, <<"lang", "=", "xx">>},
       a \in {<<>>, <<[code |-> <<"xx">>, weight |-> 9], [code |-> <<"en">>, weight |-> 5],
                      [code |-> <<"fr">>, weight |-> 8]>>,
              <<[code |-> <<"fr">>, weight |-> 5], [code |-> <<"en">>, weight |-> 5]>>},
       p \in {<<"/", "a">>, <<"/", "en", "/", "a">>, <<"/", "fr", "/", "a">>, <<"/", "xx", "/", "a">>}}
    \cup {[Plain EXCEPT !.cookie = "broken", !.cookies = c] : c \in {<<>>, <<"k">>, <<"k", "=", "v", ";">>}}

MCRequests ==
    {[Plain EXCEPT !.path = p] : p \in Paths \cup SegPaths}
    \cup {[Plain EXCEPT !.path = p, !.method = "POST"] : p \in SegPaths}
    \cup {[Plain EXCEPT !.url = "bad", !.method = m] : m \in GP}
    \cup Queries \cup Forms \cup Multiparts \cup CookieRequests
MCSegRequests == {[Plain EXCEPT !.path = p] : p \in SegPaths}
=============================================================================
