--------------------------- MODULE MCRequestParser ---------------------------
(* RequestParser for TLC: requests with up to two headers. *)
EXTENDS RequestParser

MCBytes == {"a", "b"}

Header(n, v) == [name |-> n, value |-> v]
SomeHeaders == {Header(n, v) : n \in {<<"a">>, <<"a", "b">>}, v \in {<<>>, <<"b">>, <<"a", "b">>}}
HeaderLists == {<<>>} \cup {<<x>> : x \in SomeHeaders}
                      \cup {<<x, y>> : x \in SomeHeaders, y \in SomeHeaders}

Request(blanks, headers, body, bad) ==
    [blanks |-> blanks, url |-> <<"a", "b", "b">>, headers |-> headers, body |-> body, bad |-> bad]

\* Well-formed and malformed requests
MCRequests ==
    {Request(0, hs, b, "no") : hs \in HeaderLists, b \in {<<>>, <<"a", "b", "b">>}}
    \cup {Request(n, <<Header(<<"a">>, <<"b">>)>>, <<"a">>, bad) :
             n \in {0, 1}, bad \in {"no", "headers", "body"}}
=============================================================================
