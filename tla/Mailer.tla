------------------------------ MODULE Mailer ------------------------------
(***************************************************************************)
(* SMTPMailer (mailer.cpp) over its socket (smtp_socket.hpp): one call of  *)
(* authenticate(), then calls of submit(), each a dialogue in which the    *)
(* client sends a command and reads lines.  waitForResponse() reads one    *)
(* line, and several commands accept a line that is not the last of its    *)
(* reply without reading the rest, which stays in the socket's buffer for  *)
(* the next command.  The SMTP server is external: it answers every        *)
(* command by a reply of one or more lines, positive or not, and may go    *)
(* away at any moment.                                                     *)
(***************************************************************************)
EXTENDS Integers, Sequences, FiniteSets

CONSTANTS
    Methods,      \* subset of {"NONE", "LOGIN", "START_TLS"}
    Addresses,    \* addresses of recipients
    Messages,     \* messages: records [to, cc, bcc] of sequences of addresses
    Lines(_),     \* the numbers of lines the reply to a command may have
    MaxSubmits    \* bound: calls of submit()

Commands == {"SSL", "CONNECT", "EHLO", "HELO", "STARTTLS", "AUTH", "USER", "PASS", "MAIL", "RCPT",
             "DATA", "BODY"}

ASSUME MailerAssumption ==
    /\ Methods \subseteq {"NONE", "LOGIN", "START_TLS"}
    /\ \A m \in Messages :
         m.to \in Seq(Addresses) /\ m.cc \in Seq(Addresses) /\ m.bcc \in Seq(Addresses)
    /\ \A c \in Commands : Lines(c) \subseteq Nat \ {0}
    /\ MaxSubmits \in Nat

VARIABLES
    method,    \* the argument of authenticate()
    results,   \* how the calls so far ended: "ok" or "threw"
    msgs,      \* the messages given to submit() so far
    state,     \* "busy" in a call, "idle", "undefined" or "gone"
    todo,      \* the steps the current call still has to take
    wait,      \* the command whose reply it waits for, or "none"
    replies,   \* lines on their way to the client or in its buffer
    link,      \* "up" or "down"
    srv,       \* the server: mode, envelope, whether it knows the user
    delivered, \* what the server accepted for delivery
    multi      \* a reply that the client reads one line of had several

vars == <<method, results, msgs, state, todo, wait, replies, link, srv, delivered, multi>>

Step(c) == [cmd |-> c, arg |-> "none"]
None == Step("none")
Call == Len(results)   \* 0 in authenticate(), n in the n-th submit()

\* authenticate(): the steps of each method.
auth_login == <<Step("AUTH"), Step("USER"), Step("PASS")>>
authenticate(m) ==
    CASE m = "NONE"  -> <<Step("SSL"), Step("CONNECT"), Step("EHLO")>>
      [] m = "LOGIN" -> <<Step("SSL"), Step("CONNECT"), Step("EHLO")>> \o auth_login
      [] m = "START_TLS" -> <<Step("CONNECT"), Step("EHLO"), Step("STARTTLS"), Step("SSL"),
                              Step("EHLO")>> \o auth_login

\* A bug: the blind carbon copies are forgotten.
submitNoBcc(m) ==
    LET rcpt(s) == [n \in 1 .. Len(s) |-> [cmd |-> "RCPT", arg |-> s[n]]]
    IN  <<Step("MAIL")>> \o rcpt(m.to) \o rcpt(m.cc) \o <<Step("DATA"), Step("BODY")>>

\* submit(): its steps; the body is sent with the final dot.
submit(m) ==
    LET rcpt(s) == [n \in 1 .. Len(s) |-> [cmd |-> "RCPT", arg |-> s[n]]]
    IN  <<Step("MAIL")>> \o rcpt(m.to) \o rcpt(m.cc) \o rcpt(m.bcc)
          \o <<Step("DATA"), Step("BODY")>>

Idle == [mode |-> "cmd", from |-> 0, rcpts |-> {}, junk |-> FALSE]
Init ==
    /\ method \in Methods /\ results = <<>> /\ msgs = <<>>
    /\ state = "busy" /\ todo = authenticate(method) /\ wait = None
    /\ replies = <<>> /\ delivered = {} /\ multi = FALSE
    /\ link \in {"up", "down"}      \* Socket() swallows a failed connect
    /\ srv = [authed |-> FALSE, env |-> Idle]

\* The status classes of mailer.cpp; a line that cannot be parsed throws, as
\* the one line of a refusal does.
POSITIVE_COMPLETION == 2
POSITIVE_INTERMEDIATE == 3
NEGATIVE == 5

\* The status that lets the client go on after a command.
Need(c) == IF c \in {"AUTH", "USER", "DATA"} THEN POSITIVE_INTERMEDIATE ELSE POSITIVE_COMPLETION

\* The commands after which r.isLast() && ... lets any line pass but the last.
Lenient == {"STARTTLS", "AUTH", "USER", "PASS", "MAIL"}

---------------------------------------------------------------------------
\* The server (external).  Serve(s) is the set of [code, srv] that a
\* command may lead to; code 1 stands for no reply at all, which is what a
\* line gets that the server takes for a part of a message.
Reply(c, s) == [code |-> c, srv |-> s]
Enter(e) == [srv EXCEPT !.env = e]
Refuse == {Reply(NEGATIVE, Enter([srv.env EXCEPT !.mode = "cmd"]))}
Serve(s) ==
    LET env == srv.env IN
    CASE env.mode = "data" /\ s.cmd # "BODY" -> {Reply(1, Enter([env EXCEPT !.junk = TRUE]))}
      [] env.mode = "data" /\ s.cmd = "BODY" ->
           {Reply(c, Enter(Idle)) : c \in {POSITIVE_COMPLETION, NEGATIVE}}
      [] env.mode = "user" -> Refuse \cup {Reply(3, Enter([env EXCEPT !.mode = "pass"]))}
      [] env.mode = "pass" -> Refuse \cup {Reply(2, [srv EXCEPT !.authed = TRUE, !.env = Idle])}
      [] env.mode = "cmd" ->
           Refuse \cup
           CASE s.cmd \in {"CONNECT", "EHLO", "HELO", "STARTTLS"} -> {Reply(2, srv)}
             [] s.cmd = "AUTH" -> {Reply(3, Enter([env EXCEPT !.mode = "user"]))}
             [] s.cmd = "MAIL" /\ env.from = 0 -> {Reply(2, Enter([env EXCEPT !.from = Call]))}
             [] s.cmd = "RCPT" /\ env.from # 0 ->
                  {Reply(2, Enter([env EXCEPT !.rcpts = @ \cup {s.arg}]))}
             [] s.cmd = "DATA" /\ env.rcpts # {} -> {Reply(3, Enter([env EXCEPT !.mode = "data"]))}
             [] OTHER -> {}

\* A reply of n lines, all with its code.
ReplyLines(c, n) == [k \in 1 .. n |-> [code |-> c, last |-> k = n, of |-> wait'.cmd]]

---------------------------------------------------------------------------
\* switch_to_ssl(): the handshake is part of the constructor, which swallows
\* its errors; it fails when the server is not up to it, and when lines that
\* were not read yet are still in the way (the ones in the buffer are kept).
switch_to_ssl ==
    /\ state = "busy" /\ wait = None /\ todo # <<>> /\ Head(todo).cmd = "SSL"
    /\ todo' = Tail(todo)
    /\ link' \in {link, "down"} /\ replies' \in {replies, <<>>}
    /\ replies' # replies => link' = "down"
    /\ UNCHANGED <<method, results, msgs, state, wait, srv, delivered, multi>>

\* send(): errors are swallowed.  A server that is there answers.
Send ==
    /\ state = "busy" /\ wait = None /\ todo # <<>> /\ Head(todo).cmd # "SSL"
    /\ wait' = Head(todo) /\ todo' = Tail(todo)
    /\ \/ link = "down" /\ UNCHANGED <<replies, srv, delivered, multi>>
       \/ /\ link = "up"
          /\ \E r \in Serve(wait'), n \in Lines(wait'.cmd) :
               /\ srv' = r.srv
               /\ replies' = IF r.code = 1 THEN replies ELSE replies \o ReplyLines(r.code, n)
               /\ multi' = (multi \/ (n > 1 /\ r.code # 1 /\ wait'.cmd \notin {"EHLO", "HELO"}))
               /\ delivered' = IF srv.env.mode = "data" /\ r.code = 2
                                 THEN delivered \cup {[env |-> srv.env, body |-> Call]}
                                 ELSE delivered
    /\ UNCHANGED <<method, results, msgs, state, link>>

\* A bug: ehlo() reads one line like the other commands.
ReadsOneLine(l) == FALSE

\* A bug: ehlo() takes the last line for one that others follow.
ReadsPastLast(l) == wait.cmd \in {"EHLO", "HELO"}

\* ehlo() reads on until the last line of the reply.
ReadsOn(l) == wait.cmd \in {"EHLO", "HELO"} /\ ~l.last

\* A bug: a line passes whether or not it is the last of a refusal.
PassesUnchecked(l) == l.code = Need(wait.cmd) \/ wait.cmd \in Lenient

\* The status is the one needed, or r.isLast() && ... does not look at it.
Passes(l) == l.code = Need(wait.cmd) \/ (wait.cmd \in Lenient /\ ~l.last)

Throw == /\ results' = Append(results, "threw") /\ state' = "idle"
         /\ todo' = <<>> /\ wait' = None

\* waitForResponse() and the check that follows it.
Receive ==
    /\ state = "busy" /\ wait # None /\ replies # <<>>
    /\ replies' = Tail(replies)
    /\ LET l == Head(replies) IN
       \/ ReadsOn(l) /\ UNCHANGED <<results, state, todo, wait>>
       \/ ~ReadsOn(l) /\ Passes(l) /\ wait' = None /\ UNCHANGED <<results, state, todo>>
       \/ /\ ~ReadsOn(l) /\ ~Passes(l) /\ wait.cmd = "EHLO"
          /\ wait' = None /\ todo' = <<Step("HELO")>> \o todo /\ UNCHANGED <<results, state>>
       \/ ~ReadsOn(l) /\ ~Passes(l) /\ wait.cmd # "EHLO" /\ Throw
    /\ UNCHANGED <<method, msgs, link, srv, delivered, multi>>

\* receive() catches the error of a lost connection and runs off its end.
ReceiveFails ==
    /\ state = "busy" /\ wait # None /\ replies = <<>> /\ link = "down"
    /\ state' = "undefined"
    /\ UNCHANGED <<method, results, msgs, todo, wait, replies, link, srv, delivered, multi>>

\* The call has taken all its steps.
Return ==
    /\ state = "busy" /\ wait = None /\ todo = <<>>
    /\ state' = "idle" /\ results' = Append(results, "ok")
    /\ UNCHANGED <<method, msgs, todo, wait, replies, link, srv, delivered, multi>>

\* The user submits a message, perhaps one more time after an exception.
Submit ==
    /\ state = "idle" /\ results[1] = "ok" /\ Call <= MaxSubmits
    /\ \E m \in Messages : msgs' = Append(msgs, m) /\ todo' = submit(m)
    /\ state' = "busy"
    /\ UNCHANGED <<method, results, wait, replies, link, srv, delivered, multi>>

\* ~SMTPMailer(): QUIT, and nobody waits for the reply.
Destroy ==
    /\ state = "idle" /\ state' = "gone" /\ link' = "down"
    /\ UNCHANGED <<method, results, msgs, todo, wait, replies, srv, delivered, multi>>

\* The connection is lost, with the lines that had not arrived.
Disconnect ==
    /\ link = "up" /\ link' = "down"
    /\ \E n \in 0 .. Len(replies) : replies' = SubSeq(replies, 1, n)
    /\ UNCHANGED <<method, results, msgs, state, todo, wait, srv, delivered, multi>>

Client == switch_to_ssl \/ Send \/ Receive \/ ReceiveFails \/ Return
Next == Client \/ Submit \/ Destroy \/ Disconnect

Spec == Init /\ [][Next]_vars

\* The client's thread runs; the server's answer is part of Send.
FairSpec == Spec /\ WF_vars(Client)

---------------------------------------------------------------------------
Elems(s) == {s[k] : k \in 1 .. Len(s)}
Everyone(m) == Elems(m.to) \cup Elems(m.cc) \cup Elems(m.bcc)
Of(k) == {d \in delivered : d.body = k}

\* The message of call k was handed to the server, once, for all its recipients.
HandedOver(k) ==
    \E d \in Of(k) : /\ Of(k) = {d}
                     /\ d.env.from = k /\ ~d.env.junk /\ d.env.rcpts = Everyone(msgs[k])

Steps == [cmd : Commands, arg : Addresses \cup {"none"}]
Envelopes == [mode : {"cmd", "user", "pass", "data"}, from : 0 .. MaxSubmits,
              rcpts : SUBSET (Addresses \cup {"none"}), junk : BOOLEAN]
Servers == [authed : BOOLEAN, env : Envelopes]

\* Every variable has its type; there is a result for every call that ended.
TypeOK ==
    /\ method \in Methods
    /\ state \in {"busy", "idle", "undefined", "gone"} /\ link \in {"up", "down"}
    /\ todo \in Seq(Steps) /\ wait \in Steps \cup {None}
    /\ replies \in Seq([code : {2, 3, 5}, last : BOOLEAN, of : Commands])
    /\ multi \in BOOLEAN /\ srv \in Servers
    /\ delivered \subseteq [env : Envelopes, body : 0 .. MaxSubmits]
    /\ results \in Seq({"ok", "threw"}) /\ msgs \in Seq(Messages)
    /\ Len(results) - Len(msgs) \in {0, 1}

\* However many lines the replies have, a submit() that returns, when no call
\* before it threw, has handed its message to the server, once, for all of its
\* recipients, of which there has to be one: the lines that are left over never
\* make up the 2xx, 3xx and 2xx of a RCPT, DATA and body that came to nothing.
SubmitSound ==
    \A k \in 1 .. Call - 1 : (\A j \in 1 .. k + 1 : results[j] = "ok") => HandedOver(k)

\* As long as the replies that are read as one line have one line, every line
\* is read by the command that it answers, also after an exception.
InStep ==
    ~multi => /\ wait = None => replies = <<>>
              /\ \A k \in 1 .. Len(replies) : replies[k].of = wait.cmd

\* With such replies authenticate() returns only if the server accepted the
\* password, and a message for which submit() threw was not delivered.
FailuresTold ==
    ~multi => /\ Call > 0 /\ results[1] = "ok" /\ method # "NONE" => srv.authed
              /\ \A k \in 1 .. Call - 1 : results[k + 1] = "threw" => Of(k) = {}

\* With such replies no call waits for ever.
CallEnds == state = "busy" ~> (state # "busy" \/ multi)

\* The client's view of the dialogue: its variables have their types, and it is
\* in step with the server.
Orderly == TypeOK /\ InStep

(***************************************************************************)
(* The inductive invariant behind Orderly and FailuresTold.                *)
(***************************************************************************)

\* A call that runs has no result yet; between two calls nothing is awaited.
CallInv ==
    /\ Call <= MaxSubmits + 1
    /\ state \in {"busy", "undefined"} => Call = Len(msgs) /\ Call <= MaxSubmits
    /\ state \in {"idle", "gone"} => Call = Len(msgs) + 1 /\ todo = <<>> /\ wait = None

\* Of the lines that wait there is one, and it is the last of its reply, except
\* after EHLO and HELO, whose replies are read to the last line.
LineInv ==
    ~multi => /\ wait.cmd \notin {"EHLO", "HELO"} =>
                    Len(replies) <= 1 /\ \A k \in 1 .. Len(replies) : replies[k].last
              /\ \A k \in 1 .. Len(replies) : replies[k].last => k = Len(replies)

\* The last three steps of a method other than NONE, told from the end.
LoginSteps ==
    \A k \in 1 .. Len(todo) :
        /\ todo[k].cmd = "PASS" <=> k = Len(todo)
        /\ todo[k].cmd = "USER" <=> k = Len(todo) - 1
        /\ todo[k].cmd = "AUTH" <=> k = Len(todo) - 2
        /\ todo[k].cmd \notin {"MAIL", "RCPT", "DATA", "BODY"}

\* Where the server is in the login when the client is about to take a step.
LoginState ==
    IF wait # None
      THEN /\ wait.cmd = "PASS" <=> Len(todo) = 0
           /\ wait.cmd = "USER" <=> Len(todo) = 1
           /\ wait.cmd = "AUTH" <=> Len(todo) = 2
           /\ Len(todo) > 2 => srv.env.mode = "cmd"
           /\ \A k \in 1 .. Len(replies) : replies[k].code = Need(wait.cmd) =>
                 CASE wait.cmd = "PASS" -> srv.authed
                   [] wait.cmd = "USER" -> srv.env.mode = "pass"
                   [] wait.cmd = "AUTH" -> srv.env.mode = "user"
                   [] OTHER -> TRUE
      ELSE CASE Len(todo) = 0 -> srv.authed
             [] Len(todo) = 1 -> srv.env.mode = "pass"
             [] Len(todo) = 2 -> srv.env.mode = "user"
             [] OTHER -> srv.env.mode = "cmd"

LoginInv ==
    ~multi /\ method # "NONE" =>
        /\ Call > 0 /\ results[1] = "ok" => srv.authed
        /\ Call = 0 /\ state = "busy" => LoginSteps /\ LoginState

\* A message is delivered by the last step of its call, and then the call
\* returns unless the answer is lost.
DeliveryInv ==
    /\ \A k \in 1 .. Len(todo) : todo[k].cmd = "BODY" => k = Len(todo)
    /\ wait.cmd = "BODY" => todo = <<>>
    /\ \A d \in delivered : d.body <= Call /\ (state \in {"idle", "gone"} => d.body < Call)
    /\ ~multi => \A d \in delivered :
         /\ d.body < Call => results[d.body + 1] = "ok"
         /\ d.body = Call /\ state = "busy" =>
              /\ todo = <<>>
              /\ wait # None => wait.cmd = "BODY" /\ \A k \in 1 .. Len(replies) : replies[k].code = 2

Inductive ==
    /\ TypeOK
    /\ CallInv
    /\ InStep
    /\ LineInv
    /\ LoginInv
    /\ DeliveryInv

(***************************************************************************)
(* The inductive invariant behind SubmitSound.  The replies may have any   *)
(* number of lines here, so the client may be behind: it reads lines that  *)
(* answer earlier commands.  A call that is behind cannot return, because  *)
(* what is left over of a login never holds a 2xx line, a 3xx line and a   *)
(* 2xx line in a row, which the last RCPT, DATA and BODY need.             *)
(***************************************************************************)
AllOk == \A j \in 1 .. Call : results[j] = "ok"

\* The command that brings the server into a mode, and the one it then expects.
Opener(mode) == CASE mode = "user" -> "AUTH" [] mode = "pass" -> "USER" [] OTHER -> "DATA"
Expected(mode) == CASE mode = "user" -> "USER" [] mode = "pass" -> "PASS" [] OTHER -> "BODY"

\* A server that is there is in the middle of a login or of a message only when
\* the client is about to send what it expects.
ModeInv ==
    link = "up" /\ srv.env.mode # "cmd" =>
        /\ state = "busy" /\ todo # <<>>
        /\ todo[1].cmd = Expected(srv.env.mode) /\ wait.cmd \in {"none", Opener(srv.env.mode)}

\* The lines that wait: where a 3xx line comes from, what stands next to what,
\* and how the last of them agrees with the mode of the server.
StreamInv ==
    /\ \A j \in 1 .. Len(replies) : replies[j].code = 3 => replies[j].of \in {"AUTH", "USER", "DATA"}
    /\ \A j \in 1 .. Len(replies) - 1 :
         /\ replies[j].code = 2 /\ replies[j + 1].code = 3 => replies[j + 1].of # "USER"
         /\ replies[j].code = 3 /\ replies[j + 1].code = 2 => replies[j].of # "AUTH"
    /\ link = "up" /\ replies # <<>> =>
         LET l == replies[Len(replies)] IN
         /\ l.last
         /\ IF srv.env.mode = "cmd" THEN l.code # 3 ELSE l.code = 3 /\ l.of = Opener(srv.env.mode)

\* The steps that are left of authenticate() ...
LoginShape ==
    /\ wait.cmd \notin {"MAIL", "RCPT", "DATA", "BODY"}
    /\ \A j \in 1 .. Len(todo) :
         /\ todo[j].cmd \notin {"MAIL", "RCPT", "DATA", "BODY"}
         /\ todo[j].cmd = "AUTH" => j < Len(todo) /\ todo[j + 1].cmd = "USER"
         /\ todo[j].cmd = "USER" => j < Len(todo) /\ todo[j + 1].cmd = "PASS"

\* ... and of submit(), for a message with a recipient.
SubmitShape ==
    /\ \A j \in 1 .. Len(todo) :
         /\ todo[j].cmd \in {"MAIL", "RCPT", "DATA", "BODY"}
         /\ todo[j].cmd = "BODY" <=> j = Len(todo)
         /\ todo[j].cmd = "DATA" <=> j = Len(todo) - 1
         /\ todo[j].cmd = "MAIL" => j = 1 /\ wait = None /\ Len(todo) > 3
    /\ wait # None =>
         /\ wait.cmd \in {"MAIL", "RCPT", "DATA", "BODY"}
         /\ wait.cmd = "BODY" <=> Len(todo) = 0
         /\ wait.cmd = "DATA" <=> Len(todo) = 1
         /\ wait.cmd = "MAIL" => Len(todo) > 2

\* The server has the sender and all recipients but those still to be sent.
Left == {todo[j].arg : j \in {n \in 1 .. Len(todo) : todo[n].cmd = "RCPT"}}
Addressed ==
    /\ srv.env.rcpts \cup Left = Everyone(msgs[Call]) /\ ~srv.env.junk
    /\ srv.env.from = (IF todo # <<>> /\ todo[1].cmd = "MAIL" THEN 0 ELSE Call)

NoLine(c, cmd) == \A j \in 1 .. Len(replies) : replies[j].code = c => replies[j].of # cmd
OnlyLines(c) == \A j \in 1 .. Len(replies) : replies[j].code = c

NoEnvelope == srv.env.from = 0 /\ srv.env.rcpts = {} /\ ~srv.env.junk

\* Nothing will ever be read, or something is read first that is not l.
Starved == replies = <<>> /\ link = "down"
Behind(c, cmd) == replies # <<>> /\ (replies[1].code = c => replies[1].of = cmd)

\* A step of submit() up to the last RCPT: in step with the server or behind it.
AddressingInv ==
    /\ NoLine(3, "DATA")
    /\ wait = None /\ replies = <<>> /\ link = "up" => Addressed
    /\ wait = None /\ Len(todo) = 2 /\ replies # <<>> => Behind(3, "AUTH")
    /\ wait # None /\ link = "up" => replies # <<>> /\ (OnlyLines(2) /\ Len(replies) = 1 => Addressed)

\* The last two commands.
DataInv ==
    \/ Starved \/ Behind(3, "AUTH")
    \/ Addressed /\ srv.env.mode = "data" /\ OnlyLines(3) /\ replies # <<>>
BodyDue ==
    \/ Starved \/ Behind(2, "none")
    \/ Addressed /\ srv.env.mode = "data" /\ replies = <<>>
Handed == HandedOver(Call) /\ NoEnvelope /\ OnlyLines(2)
BodyInv == Starved \/ Behind(2, "none") \/ Handed

DialogueInv ==
    /\ wait.cmd \in {"MAIL", "RCPT"} \/ (wait = None /\ Len(todo) > 1) => AddressingInv
    /\ wait.cmd = "DATA" => DataInv
    /\ wait = None /\ Len(todo) = 1 => BodyDue
    /\ wait.cmd = "BODY" => BodyInv
    /\ wait = None /\ todo = <<>> => Handed

\* Before and between the calls of submit() the server has no envelope.
BetweenInv == NoEnvelope /\ NoLine(3, "DATA")

SubmitInv ==
    /\ SubmitSound
    /\ state = "busy" /\ (todo # <<>> \/ wait.cmd \notin {"BODY", "none"})
         => \A d \in delivered : d.body < Call
    /\ AllOk /\ state \in {"busy", "idle"} =>
         /\ ModeInv /\ StreamInv
         /\ Call = 0 \/ state = "idle" => BetweenInv
         /\ Call = 0 => LoginShape
         /\ Call > 0 /\ state = "busy" => SubmitShape /\ DialogueInv
=============================================================================
