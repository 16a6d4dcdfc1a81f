---------------------------- MODULE MCHttpClient ----------------------------
(* A small instance of HttpClient for TLC: every framing, messages cut short *)
(* by the peer's own headers, followed by more bytes, or malformed.          *)
EXTENDS HttpClient

MCBytes == {"2", "0", "a", "b", "c"}
MCUrls == {[protocol |-> p] : p \in {"http", ""}}

Response(headers, framing, length, body, bad, extra) ==
    [status |-> <<"2", "0">>, headers |-> headers, framing |-> framing, length |-> length,
     body |-> body, bad |-> bad, extra |-> extra]

Hdr(n, v) == [name |-> n, value |-> v]
One == <<Hdr(<<"a">>, <<"b">>)>>
Twice == <<Hdr(<<"a">>, <<"b">>), Hdr(<<"a">>, <<"c", "b">>)>>
Empty == <<Hdr(<<"a">>, <<>>), Hdr(<<"c">>, <<"b">>)>>

MCResponses ==
    {Response(hs, f, 2, <<"b", "a">>, "no", x) :
        hs \in {<<>>, Twice}, f \in {"length", "chunked"}, x \in {0, 1}}
    \cup {Response(One, "close", 0, <<"a", "b">>, "no", 0), Response(One, "length", 0, <<>>, "no", 1),
          Response(One, "length", 2, <<>>, "no", 0), Response(Empty, "length", 0, <<>>, "no", 0),
          Response(One, "length", 1, <<"a">>, "headers", 0),
          Response(One, "chunked", 0, <<"a">>, "body", 0)}
=============================================================================
