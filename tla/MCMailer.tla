----------------------------- MODULE MCMailer -----------------------------
(* A small instance of Mailer for TLC: two addresses, messages with one and *)
(* with two recipients. *)
EXTENDS Mailer

MCMessages ==
    {[to |-> <<"a">>, cc |-> <<>>, bcc |-> <<>>], [to |-> <<"a">>, cc |-> <<"b">>, bcc |-> <<"c">>]}

\* The replies to EHLO are long, the others have up to two lines.
MCLines(c) == CASE c = "EHLO" -> {3} [] c = "HELO" -> {1} [] OTHER -> {1, 2}
=============================================================================
