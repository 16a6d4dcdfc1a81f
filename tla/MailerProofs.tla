---------------------------- MODULE MailerProofs ----------------------------
(* The mailer's dialogue for every set of messages, every number of calls and every length *)
(* of the server's replies.                                                                *)
EXTENDS Mailer, SequenceTheorems, TLAPS

\* What the server changes of an envelope leaves it one.
LEMMA EnvelopeUpdates ==
  ASSUME NEW env \in Envelopes, NEW a \in Addresses \cup {"none"}, NEW n \in 0 .. MaxSubmits
  PROVE  /\ \A m \in {"cmd", "user", "pass", "data"} :
               [env EXCEPT !.mode = m] \in Envelopes /\ [env EXCEPT !.mode = m].mode = m
         /\ [env EXCEPT !.junk = TRUE] \in Envelopes
         /\ [env EXCEPT !.from = n] \in Envelopes /\ [env EXCEPT !.from = n].mode = env.mode
         /\ [env EXCEPT !.rcpts = @ \cup {a}] \in Envelopes
         /\ [env EXCEPT !.rcpts = @ \cup {a}].mode = env.mode
         /\ Idle \in Envelopes
  <1>1. \A m \in {"cmd", "user", "pass", "data"} :
          [env EXCEPT !.mode = m] \in Envelopes /\ [env EXCEPT !.mode = m].mode = m
    BY DEF Envelopes
  <1>2. [env EXCEPT !.junk = TRUE] \in Envelopes
    BY DEF Envelopes
  <1>3. [env EXCEPT !.from = n] \in Envelopes /\ [env EXCEPT !.from = n].mode = env.mode
    BY DEF Envelopes
  <1>4. /\ [env EXCEPT !.rcpts = @ \cup {a}] \in Envelopes
        /\ [env EXCEPT !.rcpts = @ \cup {a}].mode = env.mode
    BY DEF Envelopes
  <1>5. Idle \in Envelopes
    BY MailerAssumption DEF Envelopes, Idle, MailerAssumption
  <1> QED
    BY <1>1, <1>2, <1>3, <1>4, <1>5

\* Whatever the server does with a command, it answers with a status or not at all, stays a
\* server, forgets no login, and delivers on nothing but a body.
LEMMA ServeSound ==
  ASSUME srv \in Servers, Call \in 0 .. MaxSubmits, NEW s \in Steps, NEW r \in Serve(s)
  PROVE  /\ r.code \in {1, 2, 3, 5} /\ r.srv \in Servers
         /\ srv.authed => r.srv.authed
         /\ srv.env.mode = "data" /\ r.code = 2 => s.cmd = "BODY"
         /\ srv.env.mode = "cmd" /\ s.cmd \notin {"AUTH", "DATA"} => r.srv.env.mode = "cmd"
         /\ srv.env.mode = "cmd" /\ s.cmd = "AUTH" /\ r.code = 3 => r.srv.env.mode = "user"
         /\ srv.env.mode = "user" /\ r.code = 3 => r.srv.env.mode = "pass"
         /\ srv.env.mode = "pass" /\ r.code = 2 => r.srv.authed
  <1> DEFINE env == srv.env
  <1>1. env \in Envelopes /\ env.mode \in {"cmd", "user", "pass", "data"}
    BY DEF Servers, Envelopes
  <1>2. ASSUME NEW c, NEW e \in Envelopes, r = Reply(c, Enter(e))
        PROVE  r.code = c /\ r.srv \in Servers /\ r.srv.env = e /\ (srv.authed => r.srv.authed)
    <2>1. Enter(e) \in Servers /\ Enter(e).env = e /\ Enter(e).authed = srv.authed
      BY DEF Servers, Enter
    <2>2. r.code = c /\ r.srv = Enter(e)
      BY <1>2 DEF Reply
    <2> QED
      BY <2>1, <2>2
  <1>3. /\ [env EXCEPT !.mode = "cmd"] \in Envelopes /\ [env EXCEPT !.mode = "cmd"].mode = "cmd"
        /\ [env EXCEPT !.mode = "user"] \in Envelopes /\ [env EXCEPT !.mode = "user"].mode = "user"
        /\ [env EXCEPT !.mode = "pass"] \in Envelopes /\ [env EXCEPT !.mode = "pass"].mode = "pass"
        /\ [env EXCEPT !.mode = "data"] \in Envelopes
        /\ [env EXCEPT !.junk = TRUE] \in Envelopes
        /\ Idle \in Envelopes
        /\ [env EXCEPT !.from = Call] \in Envelopes /\ [env EXCEPT !.from = Call].mode = env.mode
        /\ [env EXCEPT !.rcpts = @ \cup {s.arg}] \in Envelopes
        /\ [env EXCEPT !.rcpts = @ \cup {s.arg}].mode = env.mode
    <2>1. s.arg \in Addresses \cup {"none"}
      BY DEF Steps
    <2>2. PICK e \in Envelopes, n \in 0 .. MaxSubmits, a \in Addresses \cup {"none"} :
             e = env /\ n = Call /\ a = s.arg
      BY <1>1, <2>1
    <2>3. /\ \A m \in {"cmd", "user", "pass", "data"} :
               [e EXCEPT !.mode = m] \in Envelopes /\ [e EXCEPT !.mode = m].mode = m
          /\ [e EXCEPT !.junk = TRUE] \in Envelopes
          /\ [e EXCEPT !.from = n] \in Envelopes /\ [e EXCEPT !.from = n].mode = e.mode
          /\ [e EXCEPT !.rcpts = @ \cup {a}] \in Envelopes
          /\ [e EXCEPT !.rcpts = @ \cup {a}].mode = e.mode
          /\ Idle \in Envelopes
      BY EnvelopeUpdates
    <2> HIDE DEF env
    <2> QED
      BY <2>2, <2>3
  <1>4. CASE r \in Refuse
    <2>1. r = Reply(5, Enter([env EXCEPT !.mode = "cmd"]))
      BY <1>4 DEF Refuse, NEGATIVE
    <2>2. r.code = 5 /\ r.srv \in Servers /\ (srv.authed => r.srv.authed) /\ r.srv.env.mode = "cmd"
      BY <1>2, <1>3, <2>1
    <2> QED
      BY <2>2
  <1>5. CASE env.mode = "data"
    <2>1. CASE s.cmd # "BODY"
      <3>1. r = Reply(1, Enter([env EXCEPT !.junk = TRUE]))
        BY <1>5, <2>1 DEF Serve
      <3>2. r.code = 1 /\ r.srv \in Servers /\ (srv.authed => r.srv.authed)
        BY <1>2, <1>3, <3>1
      <3> QED
        BY <1>5, <3>2
    <2>2. CASE s.cmd = "BODY"
      <3>1. r = Reply(2, Enter(Idle)) \/ r = Reply(5, Enter(Idle))
        BY <1>5, <2>2 DEF Serve, POSITIVE_COMPLETION, NEGATIVE
      <3> QED
        BY <1>2, <1>3, <1>5, <2>2, <3>1
    <2> QED
      BY <2>1, <2>2
  <1>6. CASE env.mode = "user" /\ r \notin Refuse
    <2>1. r = Reply(3, Enter([env EXCEPT !.mode = "pass"]))
      BY <1>6 DEF Serve
    <2>2. r.code = 3 /\ r.srv \in Servers /\ (srv.authed => r.srv.authed) /\ r.srv.env.mode = "pass"
      BY <1>2, <1>3, <2>1
    <2> QED
      BY <1>6, <2>2
  <1>7. CASE env.mode = "pass" /\ r \notin Refuse
    <2>1. r = Reply(2, [srv EXCEPT !.authed = TRUE, !.env = Idle])
      BY <1>7 DEF Serve
    <2>2. [srv EXCEPT !.authed = TRUE, !.env = Idle] \in Servers
          /\ [srv EXCEPT !.authed = TRUE, !.env = Idle].authed
      BY <1>3 DEF Servers
    <2>3. r.code = 2 /\ r.srv \in Servers /\ r.srv.authed
      BY <2>1, <2>2 DEF Reply
    <2> QED
      BY <1>7, <2>3
  <1>8. CASE env.mode = "cmd" /\ r \notin Refuse
    <2>1. CASE r = Reply(2, srv)
      <3>1. r.code = 2 /\ r.srv = srv
        BY <2>1 DEF Reply
      <3> QED
        BY <1>8, <3>1
    <2>2. CASE s.cmd = "AUTH" /\ r = Reply(3, Enter([env EXCEPT !.mode = "user"]))
      <3>1. r.code = 3 /\ r.srv \in Servers /\ (srv.authed => r.srv.authed) /\ r.srv.env.mode = "user"
        BY <1>2, <1>3, <2>2
      <3> QED
        BY <1>8, <2>2, <3>1
    <2>3. CASE s.cmd = "MAIL" /\ r = Reply(2, Enter([env EXCEPT !.from = Call]))
      <3>0. PICK e \in Envelopes : e = [env EXCEPT !.from = Call] /\ e.mode = env.mode
        BY <1>3
      <3>1. r.code = 2 /\ r.srv \in Servers /\ (srv.authed => r.srv.authed) /\ r.srv.env.mode = env.mode
        BY <1>2, <2>3, <3>0
      <3> QED
        BY <1>8, <2>3, <3>1
    <2>4. CASE s.cmd = "RCPT" /\ r = Reply(2, Enter([env EXCEPT !.rcpts = @ \cup {s.arg}]))
      <3>0. PICK e \in Envelopes : e = [env EXCEPT !.rcpts = @ \cup {s.arg}] /\ e.mode = env.mode
        BY <1>3
      <3>1. r.code = 2 /\ r.srv \in Servers /\ (srv.authed => r.srv.authed) /\ r.srv.env.mode = env.mode
        BY <1>2, <2>4, <3>0
      <3> QED
        BY <1>8, <2>4, <3>1
    <2>5. CASE s.cmd = "DATA" /\ r = Reply(3, Enter([env EXCEPT !.mode = "data"]))
      <3>1. r.code = 3 /\ r.srv \in Servers /\ (srv.authed => r.srv.authed)
        BY <1>2, <1>3, <2>5
      <3> QED
        BY <1>8, <2>5, <3>1
    <2> QED
      BY <1>8, <2>1, <2>2, <2>3, <2>4, <2>5 DEF Serve
  <1> QED
    BY <1>1, <1>4, <1>5, <1>6, <1>7, <1>8

-----------------------------------------------------------------------------
\* The first element of a sequence and the rest of it, by index.
LEMMA FirstAndRest ==
  ASSUME NEW S, NEW s \in Seq(S), s # <<>>
  PROVE  /\ Head(s) = s[1] /\ Head(s) \in S /\ Len(s) \in Nat /\ Len(s) >= 1
         /\ Tail(s) \in Seq(S) /\ Len(Tail(s)) = Len(s) - 1
         /\ \A k \in 1 .. Len(Tail(s)) : Tail(s)[k] = s[k + 1] /\ k + 1 \in 1 .. Len(s)
  <1>1. Len(s) \in Nat /\ Len(s) # 0
    BY EmptySeq, LenProperties
  <1>2. Head(s) = s[1] /\ Len(s) >= 1
    BY <1>1
  <1>3. Head(s) \in S /\ Tail(s) \in Seq(S) /\ Len(Tail(s)) = Len(s) - 1
    BY HeadTailProperties
  <1>4. \A k \in 1 .. Len(Tail(s)) : Tail(s)[k] = s[k + 1]
    BY HeadTailProperties
  <1>5. \A k \in 1 .. Len(Tail(s)) : k + 1 \in 1 .. Len(s)
    BY <1>1, <1>3
  <1> QED
    BY <1>1, <1>2, <1>3, <1>4, <1>5

\* authenticate() takes steps that are steps, ends with the login unless the method is NONE, and
\* submits nothing.
LEMMA AuthenticateSteps ==
  ASSUME NEW m \in Methods
  PROVE  LET t == authenticate(m) IN
         /\ t \in Seq(Steps) /\ Len(t) \in Nat /\ Len(t) >= 3
         /\ \A k \in 1 .. Len(t) : t[k].cmd # "BODY"
         /\ m # "NONE" =>
              /\ Len(t) > 3
              /\ \A k \in 1 .. Len(t) :
                   /\ t[k].cmd = "PASS" <=> k = Len(t)
                   /\ t[k].cmd = "USER" <=> k = Len(t) - 1
                   /\ t[k].cmd = "AUTH" <=> k = Len(t) - 2
                   /\ t[k].cmd \notin {"MAIL", "RCPT", "DATA", "BODY"}
  <1>1. \A c \in Commands : Step(c) \in Steps /\ Step(c).cmd = c
    BY DEF Step, Steps
  <1>2. m \in {"NONE", "LOGIN", "START_TLS"}
    BY MailerAssumption DEF MailerAssumption
  <1> DEFINE Other == {x \in Steps : x.cmd \notin {"AUTH", "USER", "PASS", "MAIL", "RCPT", "DATA", "BODY"}}
  <1>3. /\ auth_login \in Seq(Steps) /\ Len(auth_login) = 3 /\ auth_login[1].cmd = "AUTH"
        /\ auth_login[2].cmd = "USER" /\ auth_login[3].cmd = "PASS"
    BY <1>1 DEF auth_login, Commands
  <1>4. ASSUME NEW p \in Seq(Other), NEW t, t = p \o auth_login, Len(p) > 0
        PROVE  /\ t \in Seq(Steps) /\ Len(t) \in Nat /\ Len(t) > 3
               /\ \A k \in 1 .. Len(t) :
                    /\ t[k].cmd = "PASS" <=> k = Len(t)
                    /\ t[k].cmd = "USER" <=> k = Len(t) - 1
                    /\ t[k].cmd = "AUTH" <=> k = Len(t) - 2
                    /\ t[k].cmd \notin {"MAIL", "RCPT", "DATA", "BODY"}
    <2>1. p \in Seq(Steps) /\ Len(p) \in Nat /\ \A k \in 1 .. Len(p) : p[k] \in Other
      BY ElementOfSeq, SeqMonotonic, Other \subseteq Steps
    <2>2. /\ t \in Seq(Steps) /\ Len(t) = Len(p) + 3
          /\ \A k \in 1 .. Len(p) + 3 : t[k] = IF k <= Len(p) THEN p[k] ELSE auth_login[k - Len(p)]
      <3>1. /\ p \o auth_login \in Seq(Steps) /\ Len(p \o auth_login) = Len(p) + Len(auth_login)
            /\ \A k \in 1 .. Len(p) + Len(auth_login) :
                 (p \o auth_login)[k] = IF k <= Len(p) THEN p[k] ELSE auth_login[k - Len(p)]
        BY <1>3, <2>1, ConcatProperties, ZenonT(30)
      <3> QED
        BY <1>3, <1>4, <3>1
    <2>3. ASSUME NEW k \in 1 .. Len(t)
          PROVE  /\ t[k].cmd = "PASS" <=> k = Len(t)
                 /\ t[k].cmd = "USER" <=> k = Len(t) - 1
                 /\ t[k].cmd = "AUTH" <=> k = Len(t) - 2
                 /\ t[k].cmd \notin {"MAIL", "RCPT", "DATA", "BODY"}
      <3>1. CASE k <= Len(p)
        BY <2>1, <2>2, <3>1
      <3>2. CASE k > Len(p)
        <4>1. k - Len(p) \in 1 .. 3 /\ t[k] = auth_login[k - Len(p)]
          BY <2>1, <2>2, <3>2
        <4>2. k - Len(p) = 1 \/ k - Len(p) = 2 \/ k - Len(p) = 3
          BY <2>1, <4>1
        <4> QED
          BY <1>3, <2>1, <2>2, <4>1, <4>2
      <3> QED
        BY <2>1, <2>2, <3>1, <3>2
    <2> QED
      BY <1>4, <2>1, <2>2, <2>3
  <1>5. CASE m = "NONE"
    BY <1>1, <1>5 DEF authenticate, Commands
  <1>6. CASE m = "LOGIN"
    <2> DEFINE p == <<Step("SSL"), Step("CONNECT"), Step("EHLO")>>
    <2>1. p \in Seq(Other) /\ Len(p) > 0
      BY <1>1 DEF Commands
    <2>2. authenticate(m) = p \o auth_login
      BY <1>6 DEF authenticate
    <2> HIDE DEF p, Other
    <2>3. PICK t : t = authenticate(m) /\ t = p \o auth_login
      BY <2>2
    <2>4. /\ t \in Seq(Steps) /\ Len(t) \in Nat /\ Len(t) > 3
          /\ \A k \in 1 .. Len(t) :
               /\ t[k].cmd = "PASS" <=> k = Len(t)
               /\ t[k].cmd = "USER" <=> k = Len(t) - 1
               /\ t[k].cmd = "AUTH" <=> k = Len(t) - 2
               /\ t[k].cmd \notin {"MAIL", "RCPT", "DATA", "BODY"}
      BY <1>4, <2>1, <2>3
    <2>5. Len(t) >= 3 /\ \A k \in 1 .. Len(t) : t[k].cmd # "BODY"
      BY <2>4
    <2> QED
      BY <2>3, <2>4, <2>5, Zenon
  <1>7. CASE m = "START_TLS"
    <2> DEFINE p == <<Step("CONNECT"), Step("EHLO"), Step("STARTTLS"), Step("SSL"), Step("EHLO")>>
    <2>1. p \in Seq(Other) /\ Len(p) > 0
      BY <1>1 DEF Commands
    <2>2. authenticate(m) = p \o auth_login
      BY <1>7 DEF authenticate
    <2> HIDE DEF p, Other
    <2>3. PICK t : t = authenticate(m) /\ t = p \o auth_login
      BY <2>2
    <2>4. /\ t \in Seq(Steps) /\ Len(t) \in Nat /\ Len(t) > 3
          /\ \A k \in 1 .. Len(t) :
               /\ t[k].cmd = "PASS" <=> k = Len(t)
               /\ t[k].cmd = "USER" <=> k = Len(t) - 1
               /\ t[k].cmd = "AUTH" <=> k = Len(t) - 2
               /\ t[k].cmd \notin {"MAIL", "RCPT", "DATA", "BODY"}
      BY <1>4, <2>1, <2>3
    <2>5. Len(t) >= 3 /\ \A k \in 1 .. Len(t) : t[k].cmd # "BODY"
      BY <2>4
    <2> QED
      BY <2>3, <2>4, <2>5, Zenon
  <1> QED
    BY <1>2, <1>5, <1>6, <1>7

\* submit() ends with the body, and has no other.
LEMMA SubmitSteps ==
  ASSUME NEW m \in Messages
  PROVE  /\ submit(m) \in Seq(Steps)
         /\ \A k \in 1 .. Len(submit(m)) : submit(m)[k].cmd = "BODY" => k = Len(submit(m))
  <1> DEFINE S == {x \in Steps : x.cmd # "BODY"}
             rcpt(s) == [n \in 1 .. Len(s) |-> [cmd |-> "RCPT", arg |-> s[n]]]
             pre == <<Step("MAIL")>> \o rcpt(m.to) \o rcpt(m.cc) \o rcpt(m.bcc)
             fin == <<Step("DATA"), Step("BODY")>>
  <1>1. \A c \in Commands : Step(c) \in Steps /\ Step(c).cmd = c
    BY DEF Step, Steps
  <1>2. ASSUME NEW s \in Seq(Addresses) PROVE rcpt(s) \in Seq(S)
    <2>1. Len(s) \in Nat /\ \A n \in 1 .. Len(s) : s[n] \in Addresses
      BY ElementOfSeq
    <2>2. \A n \in 1 .. Len(s) : [cmd |-> "RCPT", arg |-> s[n]] \in S
      BY <2>1 DEF Steps, Commands
    <2> QED
      BY <2>1, <2>2
  <1>3. m.to \in Seq(Addresses) /\ m.cc \in Seq(Addresses) /\ m.bcc \in Seq(Addresses)
    BY MailerAssumption DEF MailerAssumption
  <1>4. <<Step("MAIL")>> \in Seq(S)
    BY <1>1 DEF Commands
  <1>5. rcpt(m.to) \in Seq(S) /\ rcpt(m.cc) \in Seq(S) /\ rcpt(m.bcc) \in Seq(S)
    BY <1>2, <1>3
  <1>6. submit(m) = pre \o fin
    BY DEF submit
  <1> HIDE DEF rcpt
  <1>7. pre \in Seq(S)
    BY <1>4, <1>5, ConcatProperties
  <1> HIDE DEF pre
  <1>8. fin \in Seq(Steps) /\ Len(fin) = 2 /\ fin[1].cmd = "DATA"
    BY <1>1 DEF Commands
  <1>9. pre \in Seq(Steps) /\ Len(pre) \in Nat /\ \A k \in 1 .. Len(pre) : pre[k].cmd # "BODY"
    BY <1>7, ElementOfSeq, SeqMonotonic, S \subseteq Steps
  <1> HIDE DEF fin
  <1>10. /\ pre \o fin \in Seq(Steps) /\ Len(pre \o fin) = Len(pre) + 2
         /\ \A k \in 1 .. Len(pre) + 2 :
              (pre \o fin)[k] = IF k <= Len(pre) THEN pre[k] ELSE fin[k - Len(pre)]
    <2>1. /\ pre \o fin \in Seq(Steps) /\ Len(pre \o fin) = Len(pre) + Len(fin)
          /\ \A k \in 1 .. Len(pre) + Len(fin) :
               (pre \o fin)[k] = IF k <= Len(pre) THEN pre[k] ELSE fin[k - Len(pre)]
      BY <1>8, <1>9, ConcatProperties, Zenon
    <2> QED
      BY <1>8, <2>1
  <1>11. ASSUME NEW k \in 1 .. Len(pre) + 2, (pre \o fin)[k].cmd = "BODY" PROVE k = Len(pre) + 2
    <2>1. k \in Nat /\ k > Len(pre)
      BY <1>9, <1>10, <1>11
    <2>2. k # Len(pre) + 1
      BY <1>8, <1>9, <1>10, <1>11
    <2> QED
      BY <1>9, <2>1, <2>2
  <1> QED
    BY <1>6, <1>10, <1>11

-----------------------------------------------------------------------------
\* Taking the first step off todo: what is told from the end of todo stays told.
LEMMA StepsShift ==
  ASSUME DeliveryInv, todo' \in Seq(Steps), Head(todo) = todo[1], Head(todo) \in Steps,
         Len(todo) \in Nat, Len(todo) >= 1, Len(todo') = Len(todo) - 1,
         \A k \in 1 .. Len(todo') : todo'[k] = todo[k + 1] /\ k + 1 \in 1 .. Len(todo)
  PROVE  /\ Head(todo) \in Steps /\ Head(todo) # None /\ Head(todo).cmd \in Commands
         /\ todo' \in Seq(Steps) /\ Len(todo) \in Nat /\ Len(todo) >= 1 /\ Len(todo') = Len(todo) - 1
         /\ Head(todo).cmd = "BODY" => todo' = <<>>
         /\ \A k \in 1 .. Len(todo') : todo'[k].cmd = "BODY" => k = Len(todo')
         /\ LoginSteps =>
              /\ LoginSteps'
              /\ Head(todo).cmd = "PASS" <=> Len(todo') = 0
              /\ Head(todo).cmd = "USER" <=> Len(todo') = 1
              /\ Head(todo).cmd = "AUTH" <=> Len(todo') = 2
              /\ Head(todo).cmd \notin {"MAIL", "RCPT", "DATA", "BODY"}
  <1>1. Head(todo).cmd \in Commands /\ Head(todo) # None
    BY DEF Steps, Commands, None, Step
  <1>2. 1 \in 1 .. Len(todo) /\ Len(todo') \in Nat
    OBVIOUS
  <1>3. ASSUME NEW k \in 1 .. Len(todo')
        PROVE  /\ k \in Nat /\ k + 1 \in 1 .. Len(todo) /\ todo'[k].cmd = todo[k + 1].cmd
               /\ \A j \in Nat : k + 1 = Len(todo) - j <=> k = Len(todo') - j
    OBVIOUS
  <1>4. Head(todo).cmd = "BODY" => todo' = <<>>
    <2>1. Head(todo).cmd = "BODY" => Len(todo') = 0
      BY <1>2 DEF DeliveryInv
    <2> QED
      BY <2>1, EmptySeq
  <1>5. ASSUME NEW k \in 1 .. Len(todo'), todo'[k].cmd = "BODY" PROVE k = Len(todo')
    <2>1. k + 1 = Len(todo)
      BY <1>3, <1>5 DEF DeliveryInv
    <2> QED
      BY <2>1
  <1>6. ASSUME LoginSteps
        PROVE  /\ LoginSteps'
               /\ Head(todo).cmd = "PASS" <=> Len(todo') = 0
               /\ Head(todo).cmd = "USER" <=> Len(todo') = 1
               /\ Head(todo).cmd = "AUTH" <=> Len(todo') = 2
               /\ Head(todo).cmd \notin {"MAIL", "RCPT", "DATA", "BODY"}
    <2>1. ASSUME NEW k \in 1 .. Len(todo')
          PROVE  /\ todo'[k].cmd = "PASS" <=> k = Len(todo')
                 /\ todo'[k].cmd = "USER" <=> k = Len(todo') - 1
                 /\ todo'[k].cmd = "AUTH" <=> k = Len(todo') - 2
                 /\ todo'[k].cmd \notin {"MAIL", "RCPT", "DATA", "BODY"}
      <3>1. /\ todo[k + 1].cmd = "PASS" <=> k + 1 = Len(todo)
            /\ todo[k + 1].cmd = "USER" <=> k + 1 = Len(todo) - 1
            /\ todo[k + 1].cmd = "AUTH" <=> k + 1 = Len(todo) - 2
            /\ todo[k + 1].cmd \notin {"MAIL", "RCPT", "DATA", "BODY"}
        BY <1>3, <1>6 DEF LoginSteps
      <3>2. todo'[k].cmd = todo[k + 1].cmd /\ k \in Nat
        BY <1>3
      <3> QED
        BY <3>1, <3>2
    <2>2. /\ todo[1].cmd = "PASS" <=> 1 = Len(todo)
          /\ todo[1].cmd = "USER" <=> 1 = Len(todo) - 1
          /\ todo[1].cmd = "AUTH" <=> 1 = Len(todo) - 2
          /\ todo[1].cmd \notin {"MAIL", "RCPT", "DATA", "BODY"}
      BY <1>2, <1>6 DEF LoginSteps
    <2>3. LoginSteps'
      BY <2>1 DEF LoginSteps
    <2> QED
      BY <2>2, <2>3
  <1> QED
    BY <1>1, <1>4, <1>5, <1>6

\* The same when the step is taken.
LEMMA NextStep ==
  ASSUME TypeOK, DeliveryInv, todo # <<>>, todo' = Tail(todo)
  PROVE  /\ Head(todo) \in Steps /\ Head(todo) # None /\ Head(todo).cmd \in Commands
         /\ todo' \in Seq(Steps) /\ Len(todo) \in Nat /\ Len(todo) >= 1 /\ Len(todo') = Len(todo) - 1
         /\ Head(todo).cmd = "BODY" => todo' = <<>>
         /\ \A k \in 1 .. Len(todo') : todo'[k].cmd = "BODY" => k = Len(todo')
         /\ LoginSteps =>
              /\ LoginSteps'
              /\ Head(todo).cmd = "PASS" <=> Len(todo') = 0
              /\ Head(todo).cmd = "USER" <=> Len(todo') = 1
              /\ Head(todo).cmd = "AUTH" <=> Len(todo') = 2
              /\ Head(todo).cmd \notin {"MAIL", "RCPT", "DATA", "BODY"}
  <1>1. todo \in Seq(Steps)
    BY DEF TypeOK
  <1>2. /\ Head(todo) = todo[1] /\ Head(todo) \in Steps /\ Len(todo) \in Nat /\ Len(todo) >= 1
        /\ todo' \in Seq(Steps) /\ Len(todo') = Len(todo) - 1
        /\ \A k \in 1 .. Len(todo') : todo'[k] = todo[k + 1] /\ k + 1 \in 1 .. Len(todo)
    BY <1>1, FirstAndRest
  <1> QED
    BY <1>2, StepsShift, Zenon

\* The lines of a reply to the command just sent.
LEMMA RepliesSent ==
  ASSUME NEW c \in {2, 3, 5}, NEW n \in Nat \ {0}, wait'.cmd \in Commands
  PROVE  /\ ReplyLines(c, n) \in Seq([code : {2, 3, 5}, last : BOOLEAN, of : Commands])
         /\ Len(ReplyLines(c, n)) = n
         /\ \A k \in 1 .. n : /\ ReplyLines(c, n)[k].code = c
                              /\ ReplyLines(c, n)[k].last <=> k = n
                              /\ ReplyLines(c, n)[k].of = wait'.cmd
  <1> DEFINE T == [code : {2, 3, 5}, last : BOOLEAN, of : Commands]
             line(k) == [code |-> c, last |-> k = n, of |-> wait'.cmd]
  <1>1. \A k \in 1 .. n : line(k) \in T
    OBVIOUS
  <1>2. ReplyLines(c, n) = [k \in 1 .. n |-> line(k)]
    BY DEF ReplyLines
  <1>3. \A k \in 1 .. n : line(k).code = c /\ (line(k).last <=> k = n) /\ line(k).of = wait'.cmd
    OBVIOUS
  <1> HIDE DEF line, T
  <1>4. ReplyLines(c, n) \in Seq(T) /\ Len(ReplyLines(c, n)) = n
    BY <1>1, <1>2
  <1>5. \A k \in 1 .. n : ReplyLines(c, n)[k] = line(k)
    BY <1>2
  <1> QED
    BY <1>3, <1>4, <1>5 DEF T

\* send() and the server's answer.
LEMMA SendStep == Inductive /\ Send => Inductive'
  <1> SUFFICES ASSUME Inductive, Send PROVE Inductive'
    OBVIOUS
  <1> DEFINE T == [code : {2, 3, 5}, last : BOOLEAN, of : Commands]
  <1>1. TypeOK /\ CallInv /\ InStep /\ LineInv /\ LoginInv /\ DeliveryInv
    BY DEF Inductive
  <1>2. /\ state = "busy" /\ wait = None /\ todo # <<>> /\ wait' = Head(todo) /\ todo' = Tail(todo)
        /\ UNCHANGED <<method, results, msgs, state, link>>
    BY DEF Send
  <1>3. /\ wait' \in Steps /\ wait' # None /\ wait'.cmd \in Commands
        /\ todo' \in Seq(Steps) /\ Len(todo) \in Nat /\ Len(todo) >= 1 /\ Len(todo') = Len(todo) - 1
        /\ wait'.cmd = "BODY" => todo' = <<>>
        /\ \A k \in 1 .. Len(todo') : todo'[k].cmd = "BODY" => k = Len(todo')
        /\ LoginSteps =>
              /\ LoginSteps'
              /\ wait'.cmd = "PASS" <=> Len(todo') = 0
              /\ wait'.cmd = "USER" <=> Len(todo') = 1
              /\ wait'.cmd = "AUTH" <=> Len(todo') = 2
              /\ wait'.cmd \notin {"MAIL", "RCPT", "DATA", "BODY"}
    BY <1>1, <1>2, NextStep
  <1>4. Call \in 0 .. MaxSubmits /\ Call' = Call
    BY <1>1, <1>2, LenProperties, MailerAssumption DEF CallInv, Call, TypeOK, MailerAssumption
  <1>5. ~multi => replies = <<>>
    BY <1>1, <1>2 DEF InStep
  <1>6. CASE link = "down"
    <2>1. UNCHANGED <<replies, srv, delivered, multi>>
      BY <1>6 DEF Send
    <2>2. TypeOK'
      BY <1>1, <1>2, <1>3, <2>1 DEF TypeOK
    <2>3. CallInv'
      BY <1>1, <1>2, <1>4 DEF CallInv
    <2>4. InStep' /\ LineInv'
      BY <1>3, <1>5, <2>1 DEF InStep, LineInv
    <2>5. LoginInv'
      <3>1. SUFFICES ASSUME ~multi, method # "NONE", Call = 0 PROVE LoginSteps' /\ LoginState'
        BY <1>1, <1>2, <1>4, <2>1 DEF LoginInv
      <3>2. LoginSteps /\ LoginState
        BY <1>1, <1>2, <3>1 DEF LoginInv
      <3>3. Len(todo') > 2 => srv.env.mode = "cmd"
        BY <1>2, <1>3, <3>2 DEF LoginState
      <3> QED
        BY <1>3, <1>5, <2>1, <3>1, <3>2, <3>3 DEF LoginState
    <2>6. DeliveryInv'
      BY <1>1, <1>2, <1>3, <1>4, <2>1 DEF DeliveryInv
    <2> QED
      BY <2>2, <2>3, <2>4, <2>5, <2>6 DEF Inductive
  <1>7. CASE link = "up"
    <2>1. PICK r \in Serve(wait'), n \in Lines(wait'.cmd) :
               /\ srv' = r.srv
               /\ replies' = IF r.code = 1 THEN replies ELSE replies \o ReplyLines(r.code, n)
               /\ multi' = (multi \/ (n > 1 /\ r.code # 1 /\ wait'.cmd \notin {"EHLO", "HELO"}))
               /\ delivered' = IF srv.env.mode = "data" /\ r.code = 2
                                 THEN delivered \cup {[env |-> srv.env, body |-> Call]}
                                 ELSE delivered
      BY <1>7 DEF Send
    <2>2. n \in Nat \ {0}
      BY <1>3, MailerAssumption DEF MailerAssumption
    <2>3. /\ r.code \in {1, 2, 3, 5} /\ r.srv \in Servers
          /\ srv.authed => r.srv.authed
          /\ srv.env.mode = "data" /\ r.code = 2 => wait'.cmd = "BODY"
          /\ srv.env.mode = "cmd" /\ wait'.cmd \notin {"AUTH", "DATA"} => r.srv.env.mode = "cmd"
          /\ srv.env.mode = "cmd" /\ wait'.cmd = "AUTH" /\ r.code = 3 => r.srv.env.mode = "user"
          /\ srv.env.mode = "user" /\ r.code = 3 => r.srv.env.mode = "pass"
          /\ srv.env.mode = "pass" /\ r.code = 2 => r.srv.authed
      <3>1. srv \in Servers
        BY <1>1 DEF TypeOK
      <3> QED
        BY <1>3, <1>4, <3>1, ServeSound
    <2>4. r.code # 1 =>
            /\ ReplyLines(r.code, n) \in Seq(T) /\ Len(ReplyLines(r.code, n)) = n
            /\ \A k \in 1 .. n : /\ ReplyLines(r.code, n)[k].code = r.code
                                 /\ ReplyLines(r.code, n)[k].last <=> k = n
                                 /\ ReplyLines(r.code, n)[k].of = wait'.cmd
      <3>1. SUFFICES ASSUME r.code # 1
                     PROVE  /\ ReplyLines(r.code, n) \in Seq(T) /\ Len(ReplyLines(r.code, n)) = n
                            /\ \A k \in 1 .. n : /\ ReplyLines(r.code, n)[k].code = r.code
                                                 /\ ReplyLines(r.code, n)[k].last <=> k = n
                                                 /\ ReplyLines(r.code, n)[k].of = wait'.cmd
        OBVIOUS
      <3>2. r.code \in {2, 3, 5} /\ wait'.cmd \in Commands
        BY <1>3, <2>3, <3>1
      <3>3. PICK c \in {2, 3, 5} : c = r.code
        BY <3>2
      <3>4. ReplyLines(c, n) \in Seq(T)
        BY <2>2, <3>2, RepliesSent
      <3>5. Len(ReplyLines(c, n)) = n
        BY <2>2, <3>2, RepliesSent
      <3>6. \A k \in 1 .. n : ReplyLines(c, n)[k].code = c
        BY <2>2, <3>2, RepliesSent
      <3>7. \A k \in 1 .. n : ReplyLines(c, n)[k].last <=> k = n
        BY <2>2, <3>2, RepliesSent
      <3>8. \A k \in 1 .. n : ReplyLines(c, n)[k].of = wait'.cmd
        BY <2>2, <3>2, RepliesSent
      <3> QED
        BY <3>3, <3>4, <3>5, <3>6, <3>7, <3>8
    <2>5. replies' \in Seq(T) /\ multi' \in BOOLEAN
      <3>1. replies \in Seq(T)
        BY <1>1 DEF TypeOK
      <3>2. CASE r.code = 1
        BY <1>1, <2>1, <3>1, <3>2 DEF TypeOK
      <3>3. CASE r.code # 1
        <4>1. replies \o ReplyLines(r.code, n) \in Seq(T)
          BY <2>4, <3>1, <3>3, ConcatProperties
        <4> QED
          BY <1>1, <2>1, <3>3, <4>1 DEF TypeOK
      <3> QED
        BY <3>2, <3>3
    <2>6. ~multi' =>
            \/ replies' = <<>>
            \/ /\ r.code # 1 /\ Len(replies') = n
               /\ n > 1 => wait'.cmd \in {"EHLO", "HELO"}
               /\ \A k \in 1 .. n : /\ replies'[k].code = r.code
                                    /\ replies'[k].last <=> k = n
                                    /\ replies'[k].of = wait'.cmd
      <3>1. CASE r.code = 1
        BY <1>5, <2>1, <3>1
      <3>2. CASE r.code # 1 /\ ~multi'
        <4>1. replies = <<>> /\ (n > 1 => wait'.cmd \in {"EHLO", "HELO"})
          BY <1>5, <2>1, <3>2
        <4>2. <<>> \o ReplyLines(r.code, n) = ReplyLines(r.code, n)
          BY <2>4, <3>2, ConcatEmptySeq
        <4>3. replies' = ReplyLines(r.code, n)
          BY <2>1, <3>2, <4>1, <4>2
        <4> QED
          BY <2>4, <3>2, <4>1, <4>3
      <3> QED
        BY <3>1, <3>2
    <2>7. delivered' \subseteq [env : Envelopes, body : 0 .. MaxSubmits]
      BY <1>1, <1>4, <2>1 DEF TypeOK, Servers
    <2>8. TypeOK'
      BY <1>1, <1>2, <1>3, <2>1, <2>3, <2>5, <2>7 DEF TypeOK
    <2>9. CallInv'
      BY <1>1, <1>2, <1>4 DEF CallInv
    <2>10. InStep' /\ LineInv'
      <3>1. SUFFICES ASSUME ~multi'
                     PROVE  /\ \A k \in 1 .. Len(replies') : replies'[k].of = wait'.cmd
                            /\ wait'.cmd \notin {"EHLO", "HELO"} =>
                                 Len(replies') <= 1 /\ \A k \in 1 .. Len(replies') : replies'[k].last
                            /\ \A k \in 1 .. Len(replies') : replies'[k].last => k = Len(replies')
        BY <1>3 DEF InStep, LineInv
      <3>2. CASE replies' = <<>>
        BY <3>2
      <3>3. CASE replies' # <<>>
        BY <2>2, <2>6, <3>1, <3>3
      <3> QED
        BY <3>2, <3>3
    <2>11. LoginInv'
      <3>1. SUFFICES ASSUME ~multi', method # "NONE"
                     PROVE  /\ Call > 0 /\ results[1] = "ok" => srv'.authed
                            /\ Call = 0 => LoginSteps' /\ LoginState'
        BY <1>2, <1>4 DEF LoginInv
      <3>2. ~multi
        BY <1>1, <2>1, <3>1 DEF TypeOK
      <3>3. Call > 0 /\ results[1] = "ok" => srv'.authed
        BY <1>1, <2>1, <2>3, <3>1, <3>2 DEF LoginInv
      <3>4. ASSUME Call = 0 PROVE LoginSteps' /\ LoginState'
        <4>1. LoginSteps /\ LoginState
          BY <1>1, <1>2, <3>1, <3>2, <3>4 DEF LoginInv
        <4>2. /\ Len(todo) = 1 => srv.env.mode = "pass"
              /\ Len(todo) = 2 => srv.env.mode = "user"
              /\ Len(todo) > 2 => srv.env.mode = "cmd"
          BY <1>2, <1>3, <4>1 DEF LoginState
        <4>3. Len(todo') > 2 => srv'.env.mode = "cmd"
          <5>1. Len(todo') > 2 => Len(todo) > 2 /\ wait'.cmd \notin {"AUTH", "DATA"}
            BY <1>3, <4>1
          <5> QED
            BY <2>1, <2>3, <4>2, <5>1
        <4>4. ASSUME NEW k \in 1 .. Len(replies'), replies'[k].code = Need(wait'.cmd)
              PROVE  /\ wait'.cmd = "PASS" => srv'.authed
                     /\ wait'.cmd = "USER" => srv'.env.mode = "pass"
                     /\ wait'.cmd = "AUTH" => srv'.env.mode = "user"
          <5>1. r.code = Need(wait'.cmd)
            BY <2>6, <3>1, <4>4
          <5> QED
            BY <1>3, <2>1, <2>3, <4>1, <4>2, <5>1 DEF Need, POSITIVE_COMPLETION, POSITIVE_INTERMEDIATE
        <4> QED
          BY <1>3, <4>1, <4>3, <4>4 DEF LoginState
      <3> QED
        BY <3>3, <3>4
    <2>12. DeliveryInv'
      <3>1. ASSUME NEW d \in delivered', d \notin delivered
            PROVE  d.body = Call /\ r.code = 2 /\ wait'.cmd = "BODY" /\ todo' = <<>>
        BY <1>3, <2>1, <2>3, <3>1
      <3>2. \A d \in delivered' : d.body <= Call' /\ (state' \in {"idle", "gone"} => d.body < Call')
        BY <1>1, <1>2, <1>4, <3>1 DEF DeliveryInv
      <3>3. ASSUME ~multi', NEW d \in delivered'
            PROVE  /\ d.body < Call' => results'[d.body + 1] = "ok"
                   /\ d.body = Call' =>
                        /\ todo' = <<>> /\ wait'.cmd = "BODY"
                        /\ \A k \in 1 .. Len(replies') : replies'[k].code = 2
        <4>1. ~multi
          BY <1>1, <2>1, <3>3 DEF TypeOK
        <4>2. CASE d \in delivered
          BY <1>1, <1>2, <1>4, <4>1, <4>2 DEF DeliveryInv
        <4>3. CASE d \notin delivered
          <5>1. d.body = Call /\ r.code = 2 /\ wait'.cmd = "BODY" /\ todo' = <<>>
            BY <3>1, <4>3
          <5>2. \A k \in 1 .. Len(replies') : replies'[k].code = 2
            BY <2>6, <3>3, <5>1
          <5> QED
            BY <1>4, <5>1, <5>2
        <4> QED
          BY <4>2, <4>3
      <3> QED
        BY <1>3, <3>2, <3>3 DEF DeliveryInv
    <2> QED
      BY <2>8, <2>9, <2>10, <2>11, <2>12 DEF Inductive
  <1> QED
    BY <1>1, <1>6, <1>7 DEF TypeOK

\* switch_to_ssl(): the connection may be lost, the dialogue goes on.
LEMMA SslStep == Inductive /\ switch_to_ssl => Inductive'
  <1> SUFFICES ASSUME Inductive, switch_to_ssl PROVE Inductive'
    OBVIOUS
  <1>1. TypeOK /\ CallInv /\ InStep /\ LineInv /\ LoginInv /\ DeliveryInv
    BY DEF Inductive
  <1>2. /\ state = "busy" /\ wait = None /\ todo # <<>> /\ Head(todo).cmd = "SSL" /\ todo' = Tail(todo)
        /\ link' \in {link, "down"} /\ replies' \in {replies, <<>>}
        /\ UNCHANGED <<method, results, msgs, state, wait, srv, delivered, multi>>
    BY DEF switch_to_ssl
  <1>3. /\ todo' \in Seq(Steps) /\ Len(todo) \in Nat /\ Len(todo) >= 1 /\ Len(todo') = Len(todo) - 1
        /\ \A k \in 1 .. Len(todo') : todo'[k].cmd = "BODY" => k = Len(todo')
        /\ LoginSteps => LoginSteps' /\ Len(todo') # 0 /\ Len(todo') # 1 /\ Len(todo') # 2
    BY <1>1, <1>2, NextStep
  <1>4. Call' = Call
    BY <1>2 DEF Call
  <1>5. (~multi => replies' = <<>>) /\ None.cmd = "none" /\ wait' = None
    BY <1>1, <1>2 DEF InStep, None, Step
  <1>6. TypeOK'
    <2> DEFINE T == [code : {2, 3, 5}, last : BOOLEAN, of : Commands]
    <2>1. replies \in Seq(T)
      BY <1>1 DEF TypeOK
    <2> HIDE DEF T
    <2>2. replies' \in Seq(T)
      BY <1>2, <2>1, EmptySeq
    <2> QED
      BY <1>1, <1>2, <1>3, <2>2 DEF TypeOK, T
  <1>7. CallInv'
    BY <1>1, <1>2, <1>4 DEF CallInv
  <1>8. InStep' /\ LineInv'
    BY <1>2, <1>5 DEF InStep, LineInv
  <1>9. LoginInv'
    <2>1. SUFFICES ASSUME ~multi, method # "NONE", Call = 0 PROVE LoginSteps' /\ LoginState'
      BY <1>1, <1>2, <1>4 DEF LoginInv
    <2>2. LoginSteps /\ LoginState
      BY <1>1, <1>2, <2>1 DEF LoginInv
    <2>3. Len(todo') \notin {0, 1, 2} /\ srv'.env.mode = "cmd"
      BY <1>2, <1>3, <2>2 DEF LoginState
    <2> QED
      BY <1>3, <1>5, <2>2, <2>3 DEF LoginState
  <1>10. DeliveryInv'
    BY <1>1, <1>2, <1>3, <1>4, <1>5 DEF DeliveryInv
  <1> QED
    BY <1>6, <1>7, <1>8, <1>9, <1>10 DEF Inductive

\* A call ends: its result is added to the others.
LEMMA ResultAdded ==
  ASSUME TypeOK, NEW x \in {"ok", "threw"}, results' = Append(results, x)
  PROVE  /\ results' \in Seq({"ok", "threw"}) /\ Call \in Nat /\ Call' = Call + 1
         /\ results'[Call + 1] = x /\ \A k \in 1 .. Call : results'[k] = results[k]
  <1>1. results \in Seq({"ok", "threw"})
    BY DEF TypeOK
  <1> QED
    BY <1>1, AppendProperties, LenProperties DEF Call

\* The line that waitForResponse() returns and the ones that stay.
LEMMA LineTaken ==
  ASSUME Inductive, Receive
  PROVE  LET l == Head(replies) IN
         /\ l = replies[1] /\ l.code \in {2, 3, 5} /\ l.last \in BOOLEAN
         /\ Len(replies) \in Nat /\ 1 \in 1 .. Len(replies) /\ Len(replies') = Len(replies) - 1
         /\ replies' \in Seq([code : {2, 3, 5}, last : BOOLEAN, of : Commands])
         /\ \A k \in 1 .. Len(replies') : replies'[k] = replies[k + 1] /\ k + 1 \in 1 .. Len(replies)
         /\ ~multi /\ ~ReadsOn(l) => l.last /\ replies' = <<>>
  <1> DEFINE T == [code : {2, 3, 5}, last : BOOLEAN, of : Commands]
             l == Head(replies)
  <1>1. replies \in Seq(T) /\ replies # <<>> /\ replies' = Tail(replies)
    BY DEF Inductive, TypeOK, Receive
  <1>2. /\ l = replies[1] /\ l \in T /\ Len(replies) \in Nat /\ Len(replies) >= 1
        /\ replies' \in Seq(T) /\ Len(replies') = Len(replies) - 1
        /\ \A k \in 1 .. Len(replies') : replies'[k] = replies[k + 1] /\ k + 1 \in 1 .. Len(replies)
    <2> HIDE DEF T
    <2> QED
      BY <1>1, FirstAndRest
  <1>3. l.code \in {2, 3, 5} /\ l.last \in BOOLEAN /\ 1 \in 1 .. Len(replies)
    BY <1>2
  <1>4. ASSUME ~multi, ~ReadsOn(l) PROVE l.last /\ replies' = <<>>
    <2>1. l.last /\ Len(replies) = 1
      BY <1>2, <1>3, <1>4 DEF Inductive, LineInv, ReadsOn
    <2> QED
      BY <1>2, <2>1, EmptySeq
  <1> QED
    BY <1>2, <1>3, <1>4

\* A line of EHLO's reply that is not the last: the next one is read.
LEMMA ReceiveReadsOn ==
  ASSUME Inductive, Receive, ReadsOn(Head(replies)), UNCHANGED <<results, state, todo, wait>>
  PROVE  Inductive'
  <1>1. TypeOK /\ CallInv /\ InStep /\ LineInv /\ LoginInv /\ DeliveryInv
    BY DEF Inductive
  <1>2. /\ wait.cmd \in {"EHLO", "HELO"} /\ wait # None /\ state = "busy"
        /\ UNCHANGED <<results, state, todo, wait, method, msgs, link, srv, delivered, multi>>
    BY DEF ReadsOn, Receive
  <1>3. /\ Len(replies) \in Nat /\ Len(replies') = Len(replies) - 1
        /\ replies' \in Seq([code : {2, 3, 5}, last : BOOLEAN, of : Commands])
        /\ \A k \in 1 .. Len(replies') : replies'[k] = replies[k + 1] /\ k + 1 \in 1 .. Len(replies)
    BY LineTaken
  <1>4. Call' = Call
    BY <1>2 DEF Call
  <1>5. TypeOK'
    BY <1>1, <1>2, <1>3 DEF TypeOK
  <1>6. CallInv'
    BY <1>1, <1>2, <1>4 DEF CallInv
  <1>7. InStep'
    BY <1>1, <1>2, <1>3 DEF InStep
  <1>8. LineInv'
    <2>1. ASSUME ~multi, NEW k \in 1 .. Len(replies'), replies'[k].last PROVE k = Len(replies')
      <3>1. k + 1 = Len(replies)
        BY <1>1, <1>3, <2>1 DEF LineInv
      <3> QED
        BY <1>3, <3>1
    <2> QED
      BY <1>2, <2>1 DEF LineInv
  <1>9. LoginInv'
    BY <1>1, <1>2, <1>4 DEF LoginInv, LoginSteps, LoginState
  <1>10. DeliveryInv'
    BY <1>1, <1>2, <1>4 DEF DeliveryInv
  <1> QED
    BY <1>5, <1>6, <1>7, <1>8, <1>9, <1>10 DEF Inductive

\* A step is one of the last three or comes before them.
LEMMA SmallNumbers == \A n \in Nat : n = 0 \/ n = 1 \/ n = 2 \/ n > 2
  OBVIOUS

\* Where the server is when the next step is due.
LEMMA LoginDue ==
  ASSUME wait' = None, Len(todo') \in Nat,
         Len(todo') = 0 => srv'.authed,
         Len(todo') = 1 => srv'.env.mode = "pass",
         Len(todo') = 2 => srv'.env.mode = "user",
         Len(todo') > 2 => srv'.env.mode = "cmd"
  PROVE  LoginState'
  <1>1. Len(todo') = 0 \/ Len(todo') = 1 \/ Len(todo') = 2 \/ Len(todo') > 2
    BY SmallNumbers, Zenon
  <1> QED
    BY <1>1 DEF LoginState

\* A line that passes: the next step is due.
LEMMA ReceivePasses ==
  ASSUME Inductive, Receive, ~ReadsOn(Head(replies)), Passes(Head(replies)), wait' = None,
         UNCHANGED <<results, state, todo>>
  PROVE  Inductive'
  <1>1. TypeOK /\ CallInv /\ InStep /\ LineInv /\ LoginInv /\ DeliveryInv
    BY DEF Inductive
  <1>2. /\ wait # None /\ state = "busy"
        /\ UNCHANGED <<results, state, todo, method, msgs, link, srv, delivered, multi>>
    BY DEF Receive
  <1>3. /\ Head(replies) = replies[1] /\ 1 \in 1 .. Len(replies)
        /\ replies' \in Seq([code : {2, 3, 5}, last : BOOLEAN, of : Commands])
        /\ ~multi => Head(replies).last /\ replies' = <<>>
    BY LineTaken
  <1>4. Call' = Call /\ None.cmd = "none" /\ wait'.cmd = "none"
    BY <1>2 DEF Call, None, Step
  <1>5. TypeOK'
    BY <1>1, <1>2, <1>3 DEF TypeOK
  <1>6. CallInv'
    BY <1>1, <1>2, <1>4 DEF CallInv
  <1>7. InStep' /\ LineInv'
    BY <1>2, <1>3, <1>4 DEF InStep, LineInv
  <1>8. LoginInv'
    <2>1. SUFFICES ASSUME ~multi, method # "NONE", Call = 0 PROVE LoginSteps' /\ LoginState'
      BY <1>1, <1>2, <1>4 DEF LoginInv
    <2>2. LoginSteps /\ LoginState
      BY <1>1, <1>2, <2>1 DEF LoginInv
    <2>3. LoginSteps'
      BY <1>2, <2>2 DEF LoginSteps
    <2>4. replies[1].code = Need(wait.cmd)
      BY <1>3, <2>1 DEF Passes
    <2>5. Len(todo) \in Nat
      BY <1>1, LenProperties DEF TypeOK
    <2>6. /\ Len(todo) = 0 => srv.authed
          /\ Len(todo) = 1 => srv.env.mode = "pass"
          /\ Len(todo) = 2 => srv.env.mode = "user"
          /\ Len(todo) > 2 => srv.env.mode = "cmd"
      BY <1>2, <1>3, <2>2, <2>4 DEF LoginState
    <2>7. /\ wait' = None /\ Len(todo') \in Nat
          /\ Len(todo') = 0 => srv'.authed
          /\ Len(todo') = 1 => srv'.env.mode = "pass"
          /\ Len(todo') = 2 => srv'.env.mode = "user"
          /\ Len(todo') > 2 => srv'.env.mode = "cmd"
      BY <1>2, <2>5, <2>6
    <2>8. LoginState'
      BY <2>7, LoginDue
    <2> QED
      BY <2>3, <2>8
  <1>9. DeliveryInv'
    BY <1>1, <1>2, <1>4 DEF DeliveryInv
  <1> QED
    BY <1>5, <1>6, <1>7, <1>8, <1>9 DEF Inductive

\* HELO in front of the steps that are left.
LEMMA HeloFirst ==
  ASSUME NEW t \in Seq(Steps)
  PROVE  LET u == <<Step("HELO")>> \o t IN
         /\ u \in Seq(Steps) /\ Len(t) \in Nat /\ Len(u) = Len(t) + 1 /\ u[1].cmd = "HELO"
         /\ \A k \in 1 .. Len(u) : k # 1 => u[k] = t[k - 1] /\ k - 1 \in 1 .. Len(t)
  <1> DEFINE h == <<Step("HELO")>>
  <1>1. h \in Seq(Steps) /\ Len(h) = 1 /\ h[1].cmd = "HELO"
    BY DEF Step, Steps, Commands
  <1>2. Len(t) \in Nat
    BY LenProperties
  <1> HIDE DEF h
  <1>3. /\ h \o t \in Seq(Steps) /\ Len(h \o t) = Len(h) + Len(t)
        /\ \A k \in 1 .. Len(h) + Len(t) : (h \o t)[k] = IF k <= Len(h) THEN h[k] ELSE t[k - Len(h)]
    BY <1>1, ConcatProperties, Zenon
  <1>4. (h \o t)[1] = h[1]
    BY <1>1, <1>2, <1>3
  <1>5. ASSUME NEW k \in 1 .. Len(h \o t), k # 1 PROVE (h \o t)[k] = t[k - 1] /\ k - 1 \in 1 .. Len(t)
    BY <1>1, <1>2, <1>3, <1>5
  <1> QED
    BY <1>1, <1>2, <1>3, <1>4, <1>5 DEF h

\* EHLO is refused: HELO is tried.
LEMMA ReceiveHelo ==
  ASSUME Inductive, Receive, ~ReadsOn(Head(replies)), wait.cmd = "EHLO", wait' = None,
         UNCHANGED <<results, state>>, todo' \in Seq(Steps), Len(todo) \in Nat,
         Len(todo') = Len(todo) + 1, todo'[1].cmd = "HELO",
         \A k \in 1 .. Len(todo') : k # 1 => todo'[k] = todo[k - 1] /\ k - 1 \in 1 .. Len(todo)
  PROVE  Inductive'
  <1>1. TypeOK /\ CallInv /\ InStep /\ LineInv /\ LoginInv /\ DeliveryInv
    BY DEF Inductive
  <1>2. /\ wait # None /\ state = "busy"
        /\ UNCHANGED <<results, state, method, msgs, link, srv, delivered, multi>>
    BY DEF Receive
  <1>3. /\ replies' \in Seq([code : {2, 3, 5}, last : BOOLEAN, of : Commands])
        /\ ~multi => replies' = <<>>
    BY LineTaken
  <1>4. Call' = Call /\ None.cmd = "none" /\ wait'.cmd = "none"
    BY <1>2 DEF Call, None, Step
  <1>5. /\ todo' \in Seq(Steps) /\ Len(todo) \in Nat /\ Len(todo') = Len(todo) + 1
        /\ todo'[1].cmd = "HELO"
        /\ \A k \in 1 .. Len(todo') : k # 1 => todo'[k] = todo[k - 1] /\ k - 1 \in 1 .. Len(todo)
    OBVIOUS
  <1>6. TypeOK'
    BY <1>1, <1>2, <1>3, <1>5 DEF TypeOK
  <1>7. CallInv'
    BY <1>1, <1>2, <1>4 DEF CallInv
  <1>8. InStep' /\ LineInv'
    BY <1>2, <1>3, <1>4 DEF InStep, LineInv
  <1>9. LoginInv'
    <2>1. SUFFICES ASSUME ~multi, method # "NONE", Call = 0 PROVE LoginSteps' /\ LoginState'
      BY <1>1, <1>2, <1>4 DEF LoginInv
    <2>2. LoginSteps /\ LoginState
      BY <1>1, <1>2, <2>1 DEF LoginInv
    <2>3. Len(todo) > 2 /\ srv.env.mode = "cmd"
      <3>1. /\ Len(todo) # 0 /\ Len(todo) # 1 /\ Len(todo) # 2
            /\ Len(todo) > 2 => srv.env.mode = "cmd"
        BY <1>2, <2>2 DEF LoginState
      <3>2. Len(todo) > 2
        BY <1>5, <3>1, SmallNumbers, Zenon
      <3> QED
        BY <3>1, <3>2
    <2>4. ASSUME NEW k \in 1 .. Len(todo')
          PROVE  /\ todo'[k].cmd = "PASS" <=> k = Len(todo')
                 /\ todo'[k].cmd = "USER" <=> k = Len(todo') - 1
                 /\ todo'[k].cmd = "AUTH" <=> k = Len(todo') - 2
                 /\ todo'[k].cmd \notin {"MAIL", "RCPT", "DATA", "BODY"}
      <3>1. CASE k = 1
        BY <1>5, <2>3, <3>1
      <3>2. CASE k # 1
        <4>1. PICK j \in 1 .. Len(todo) : j = k - 1 /\ todo'[k] = todo[j]
          BY <1>5, <3>2
        <4>2. /\ todo[j].cmd = "PASS" <=> j = Len(todo)
              /\ todo[j].cmd = "USER" <=> j = Len(todo) - 1
              /\ todo[j].cmd = "AUTH" <=> j = Len(todo) - 2
              /\ todo[j].cmd \notin {"MAIL", "RCPT", "DATA", "BODY"}
          BY <2>2 DEF LoginSteps
        <4> QED
          BY <1>5, <4>1, <4>2
      <3> QED
        BY <3>1, <3>2
    <2>5. LoginSteps'
      BY <2>4 DEF LoginSteps
    <2>6. LoginState'
      BY <1>2, <1>5, <2>3 DEF LoginState
    <2> QED
      BY <2>5, <2>6
  <1>10. DeliveryInv'
    <2>1. ASSUME NEW k \in 1 .. Len(todo'), todo'[k].cmd = "BODY" PROVE k = Len(todo')
      <3>1. k # 1
        BY <1>5, <2>1
      <3>2. PICK j \in 1 .. Len(todo) : j = k - 1 /\ todo'[k] = todo[j]
        BY <1>5, <3>1
      <3>3. j = Len(todo)
        BY <1>1, <2>1, <3>2 DEF DeliveryInv
      <3> QED
        BY <1>5, <3>2, <3>3
    <2>2. ~multi => \A d \in delivered : d.body # Call
      BY <1>1, <1>2 DEF DeliveryInv
    <2>3. \A d \in delivered : d.body <= Call /\ (~multi /\ d.body < Call => results[d.body + 1] = "ok")
      BY <1>1 DEF DeliveryInv
    <2> QED
      BY <1>2, <1>4, <2>1, <2>2, <2>3 DEF DeliveryInv
  <1> QED
    BY <1>6, <1>7, <1>8, <1>9, <1>10 DEF Inductive

\* Any other refusal: the call throws.
LEMMA ReceiveThrows ==
  ASSUME Inductive, Receive, ~ReadsOn(Head(replies)), ~Passes(Head(replies)), Throw
  PROVE  Inductive'
  <1>1. TypeOK /\ CallInv /\ InStep /\ LineInv /\ LoginInv /\ DeliveryInv
    BY DEF Inductive
  <1>2. /\ wait # None /\ state = "busy" /\ state' = "idle" /\ todo' = <<>> /\ wait' = None
        /\ results' = Append(results, "threw")
        /\ UNCHANGED <<method, msgs, link, srv, delivered, multi>>
    BY DEF Receive, Throw
  <1>3. /\ Head(replies) = replies[1] /\ 1 \in 1 .. Len(replies)
        /\ replies' \in Seq([code : {2, 3, 5}, last : BOOLEAN, of : Commands])
        /\ ~multi => replies' = <<>>
    BY LineTaken
  <1>4. /\ results' \in Seq({"ok", "threw"}) /\ Call \in Nat /\ Call' = Call + 1
        /\ results'[Call + 1] = "threw" /\ \A k \in 1 .. Call : results'[k] = results[k]
    BY <1>1, <1>2, ResultAdded
  <1>5. Call = Len(msgs) /\ Call <= MaxSubmits /\ Len(msgs) \in Nat /\ MaxSubmits \in Nat
    BY <1>1, <1>2, LenProperties, MailerAssumption DEF CallInv, TypeOK, MailerAssumption
  <1>6. None.cmd = "none" /\ Len(results') = Call + 1
    BY <1>4 DEF Call, None, Step
  <1>7. TypeOK'
    <2>1. todo' \in Seq(Steps) /\ wait' \in Steps \cup {None}
      BY <1>2
    <2>2. Len(results') - Len(msgs') \in {0, 1}
      BY <1>2, <1>5, <1>6
    <2> QED
      BY <1>1, <1>2, <1>3, <1>4, <2>1, <2>2 DEF TypeOK
  <1>8. CallInv'
    BY <1>2, <1>4, <1>5 DEF CallInv
  <1>9. InStep' /\ LineInv'
    BY <1>2, <1>3, <1>6 DEF InStep, LineInv
  <1>10. LoginInv'
    <2>1. CASE Call = 0
      BY <1>2, <1>4, <2>1 DEF LoginInv
    <2>2. CASE Call > 0
      <3>1. results'[1] = results[1]
        BY <1>4, <2>2
      <3> QED
        BY <1>1, <1>2, <1>4, <2>2, <3>1 DEF LoginInv
    <2> QED
      BY <1>4, <2>1, <2>2
  <1>11. DeliveryInv'
    <2>1. \A d \in delivered : d.body \in Nat /\ d.body <= Call
      BY <1>1, <1>5 DEF TypeOK, DeliveryInv
    <2>2. ASSUME ~multi, NEW d \in delivered PROVE results'[d.body + 1] = "ok"
      <3>1. d.body # Call
        <4>1. d.body = Call => wait.cmd = "BODY" /\ replies[1].code = 2
          BY <1>1, <1>2, <1>3, <2>2 DEF DeliveryInv
        <4> QED
          BY <1>3, <4>1 DEF Passes, Need, POSITIVE_COMPLETION
      <3>2. d.body < Call /\ d.body + 1 \in 1 .. Call
        BY <1>4, <2>1, <3>1
      <3> QED
        BY <1>1, <1>4, <2>2, <3>2 DEF DeliveryInv
    <2>3. \A d \in delivered : d.body < Call'
      BY <1>4, <2>1
    <2> QED
      BY <1>2, <1>4, <1>6, <2>1, <2>2, <2>3 DEF DeliveryInv
  <1> QED
    BY <1>7, <1>8, <1>9, <1>10, <1>11 DEF Inductive

\* waitForResponse() and what follows it.
LEMMA ReceiveStep == Inductive /\ Receive => Inductive'
  <1> SUFFICES ASSUME Inductive, Receive PROVE Inductive'
    OBVIOUS
  <1> DEFINE l == Head(replies)
  <1>1. CASE ReadsOn(l) /\ UNCHANGED <<results, state, todo, wait>>
    BY <1>1, ReceiveReadsOn
  <1>2. CASE ~ReadsOn(l) /\ Passes(l) /\ wait' = None /\ UNCHANGED <<results, state, todo>>
    BY <1>2, ReceivePasses
  <1>3. CASE /\ ~ReadsOn(l) /\ ~Passes(l) /\ wait.cmd = "EHLO"
             /\ wait' = None /\ todo' = <<Step("HELO")>> \o todo /\ UNCHANGED <<results, state>>
    <2>1. todo \in Seq(Steps)
      BY DEF Inductive, TypeOK
    <2>2. /\ todo' \in Seq(Steps) /\ Len(todo) \in Nat /\ Len(todo') = Len(todo) + 1
          /\ todo'[1].cmd = "HELO"
          /\ \A k \in 1 .. Len(todo') : k # 1 => todo'[k] = todo[k - 1] /\ k - 1 \in 1 .. Len(todo)
      BY <1>3, <2>1, HeloFirst
    <2> QED
      BY <1>3, <2>2, ReceiveHelo, Zenon
  <1>4. CASE ~ReadsOn(l) /\ ~Passes(l) /\ wait.cmd # "EHLO" /\ Throw
    BY <1>4, ReceiveThrows
  <1> QED
    BY <1>1, <1>2, <1>3, <1>4 DEF Receive

\* The call has taken all its steps.
LEMMA ReturnStep == Inductive /\ Return => Inductive'
  <1> SUFFICES ASSUME Inductive, Return PROVE Inductive'
    OBVIOUS
  <1>1. TypeOK /\ CallInv /\ InStep /\ LineInv /\ LoginInv /\ DeliveryInv
    BY DEF Inductive
  <1>2. /\ state = "busy" /\ wait = None /\ todo = <<>> /\ state' = "idle"
        /\ results' = Append(results, "ok")
        /\ UNCHANGED <<method, msgs, todo, wait, replies, link, srv, delivered, multi>>
    BY DEF Return
  <1>3. /\ results' \in Seq({"ok", "threw"}) /\ Call \in Nat /\ Call' = Call + 1
        /\ results'[Call + 1] = "ok" /\ \A k \in 1 .. Call : results'[k] = results[k]
    BY <1>1, <1>2, ResultAdded
  <1>4. Call = Len(msgs) /\ Call <= MaxSubmits /\ Len(msgs) \in Nat /\ MaxSubmits \in Nat
    BY <1>1, <1>2, LenProperties, MailerAssumption DEF CallInv, TypeOK, MailerAssumption
  <1>5. None.cmd = "none" /\ Len(results') = Call + 1
    BY <1>3 DEF Call, None, Step
  <1>6. TypeOK'
    <2>1. Len(results') - Len(msgs') \in {0, 1}
      BY <1>2, <1>4, <1>5
    <2> QED
      BY <1>1, <1>2, <1>3, <2>1 DEF TypeOK
  <1>7. CallInv'
    BY <1>2, <1>3, <1>4 DEF CallInv
  <1>8. InStep' /\ LineInv'
    BY <1>1, <1>2 DEF InStep, LineInv
  <1>9. LoginInv'
    <2>1. ASSUME ~multi, method # "NONE", Call = 0 PROVE srv.authed
      <3>1. LoginState
        BY <1>1, <1>2, <2>1 DEF LoginInv
      <3>2. Len(todo) = 0
        BY <1>2
      <3> QED
        BY <1>2, <3>1, <3>2 DEF LoginState
    <2>2. ASSUME ~multi, method # "NONE", Call > 0, results'[1] = "ok" PROVE srv.authed
      <3>1. results'[1] = results[1]
        BY <1>3, <2>2
      <3> QED
        BY <1>1, <2>2, <3>1 DEF LoginInv
    <2> QED
      BY <1>2, <1>3, <2>1, <2>2 DEF LoginInv
  <1>10. DeliveryInv'
    <2>1. \A d \in delivered : d.body \in Nat /\ d.body <= Call
      BY <1>1, <1>4 DEF TypeOK, DeliveryInv
    <2>2. ASSUME ~multi, NEW d \in delivered PROVE results'[d.body + 1] = "ok"
      <3>1. CASE d.body = Call
        BY <1>3, <3>1
      <3>2. CASE d.body # Call
        <4>1. d.body < Call /\ d.body + 1 \in 1 .. Call
          BY <1>3, <2>1, <3>2
        <4> QED
          BY <1>1, <1>3, <2>2, <4>1 DEF DeliveryInv
      <3> QED
        BY <3>1, <3>2
    <2>3. \A d \in delivered : d.body < Call'
      BY <1>3, <2>1
    <2> QED
      BY <1>2, <1>3, <1>5, <2>1, <2>2, <2>3 DEF DeliveryInv
  <1> QED
    BY <1>6, <1>7, <1>8, <1>9, <1>10 DEF Inductive

\* submit() is called.
LEMMA SubmitStep == Inductive /\ Submit => Inductive'
  <1> SUFFICES ASSUME Inductive, Submit PROVE Inductive'
    OBVIOUS
  <1>1. TypeOK /\ CallInv /\ InStep /\ LineInv /\ LoginInv /\ DeliveryInv
    BY DEF Inductive
  <1>2. /\ state = "idle" /\ state' = "busy" /\ Call <= MaxSubmits
        /\ UNCHANGED <<method, results, wait, replies, link, srv, delivered, multi>>
    BY DEF Submit
  <1>3. PICK m \in Messages : msgs' = Append(msgs, m) /\ todo' = submit(m)
    BY DEF Submit
  <1>4. /\ todo' \in Seq(Steps) /\ \A k \in 1 .. Len(todo') : todo'[k].cmd = "BODY" => k = Len(todo')
    BY <1>3, SubmitSteps
  <1>5. msgs' \in Seq(Messages) /\ Len(msgs) \in Nat /\ Len(msgs') = Len(msgs) + 1
    <2>1. msgs \in Seq(Messages)
      BY <1>1 DEF TypeOK
    <2> QED
      BY <1>3, <2>1, AppendProperties, LenProperties
  <1>6. wait = None /\ None.cmd = "none" /\ Call = Len(msgs) + 1 /\ Call' = Call /\ Len(results') = Call
    BY <1>1, <1>2 DEF CallInv, Call, None, Step
  <1>7. TypeOK'
    <2>1. Len(results') - Len(msgs') \in {0, 1}
      BY <1>5, <1>6
    <2> QED
      BY <1>1, <1>2, <1>4, <1>5, <2>1 DEF TypeOK
  <1>8. CallInv'
    BY <1>1, <1>2, <1>5, <1>6 DEF CallInv
  <1>9. InStep' /\ LineInv'
    BY <1>1, <1>2 DEF InStep, LineInv
  <1>10. LoginInv'
    <2>1. Call' > 0 /\ Call > 0 /\ Call' # 0
      BY <1>5, <1>6
    <2> QED
      BY <1>1, <1>2, <2>1 DEF LoginInv
  <1>11. DeliveryInv'
    <2>1. \A d \in delivered : d.body \in Nat /\ d.body < Call
      BY <1>1, <1>2, MailerAssumption DEF TypeOK, DeliveryInv, MailerAssumption
    <2>2. \A d \in delivered : d.body # Call' /\ d.body <= Call'
      BY <1>5, <1>6, <2>1
    <2> QED
      BY <1>1, <1>2, <1>4, <1>6, <2>1, <2>2 DEF DeliveryInv
  <1> QED
    BY <1>7, <1>8, <1>9, <1>10, <1>11 DEF Inductive

\* The connection is lost with some of the lines.
LEMMA DisconnectStep == Inductive /\ Disconnect => Inductive'
  <1> SUFFICES ASSUME Inductive, Disconnect PROVE Inductive'
    OBVIOUS
  <1> DEFINE T == [code : {2, 3, 5}, last : BOOLEAN, of : Commands]
  <1>1. TypeOK /\ CallInv /\ InStep /\ LineInv /\ LoginInv /\ DeliveryInv
    BY DEF Inductive
  <1>2. /\ link' = "down"
        /\ UNCHANGED <<method, results, msgs, state, todo, wait, srv, delivered, multi>>
    BY DEF Disconnect
  <1>3. PICK n \in 0 .. Len(replies) : replies' = SubSeq(replies, 1, n)
    BY DEF Disconnect
  <1>4. replies \in Seq(T) /\ Len(replies) \in Nat
    BY <1>1, LenProperties DEF TypeOK
  <1> HIDE DEF T
  <1>5. /\ replies' \in Seq(T) /\ n \in Nat /\ n <= Len(replies) /\ Len(replies') = n
        /\ \A k \in 1 .. n : k \in 1 .. Len(replies) /\ replies'[k] = replies[k]
    BY <1>3, <1>4, SubSeqProperties
  <1>6. Call' = Call
    BY <1>2 DEF Call
  <1>7. TypeOK'
    BY <1>1, <1>2, <1>5 DEF TypeOK, T
  <1>8. CallInv'
    BY <1>1, <1>2, <1>6 DEF CallInv
  <1>9. InStep'
    <2>1. ASSUME ~multi, wait = None PROVE replies' = <<>>
      <3>1. Len(replies) = 0
        BY <1>1, <2>1 DEF InStep
      <3>2. Len(replies') = 0
        BY <1>5, <3>1
      <3> QED
        BY <1>5, <3>2, EmptySeq
    <2> QED
      BY <1>1, <1>2, <1>5, <2>1 DEF InStep
  <1>10. LineInv'
    <2>1. ASSUME ~multi, NEW k \in 1 .. n, replies'[k].last PROVE k = n
      <3>1. k = Len(replies)
        BY <1>1, <1>5, <2>1 DEF LineInv
      <3> QED
        BY <1>5, <3>1
    <2>2. ASSUME ~multi, wait.cmd \notin {"EHLO", "HELO"}
          PROVE  n <= 1 /\ \A k \in 1 .. n : replies'[k].last
      <3>1. Len(replies) <= 1 /\ \A k \in 1 .. Len(replies) : replies[k].last
        BY <1>1, <2>2 DEF LineInv
      <3> QED
        BY <1>4, <1>5, <3>1
    <2> QED
      BY <1>2, <1>5, <2>1, <2>2 DEF LineInv
  <1>11. LoginInv'
    <2>1. ASSUME LoginState PROVE LoginState'
      <3>1. CASE wait = None
        BY <1>2, <2>1, <3>1 DEF LoginState
      <3>2. CASE wait # None
        BY <1>2, <1>5, <2>1, <3>2 DEF LoginState
      <3> QED
        BY <3>1, <3>2
    <2>2. LoginSteps => LoginSteps'
      BY <1>2 DEF LoginSteps
    <2> QED
      BY <1>1, <1>2, <1>6, <2>1, <2>2 DEF LoginInv
  <1>12. DeliveryInv'
    BY <1>1, <1>2, <1>5, <1>6 DEF DeliveryInv
  <1> QED
    BY <1>7, <1>8, <1>9, <1>10, <1>11, <1>12 DEF Inductive

\* ~SMTPMailer(), and the call that runs off its end.
LEMMA EndStep == Inductive /\ (Destroy \/ ReceiveFails \/ UNCHANGED vars) => Inductive'
  <1> SUFFICES ASSUME Inductive, Destroy \/ ReceiveFails \/ UNCHANGED vars PROVE Inductive'
    OBVIOUS
  <1>1. TypeOK /\ CallInv /\ InStep /\ LineInv /\ LoginInv /\ DeliveryInv
    BY DEF Inductive
  <1>2. /\ UNCHANGED <<method, results, msgs, todo, wait, replies, srv, delivered, multi>>
        /\ \/ state = "idle" /\ state' = "gone" /\ link' = "down"
           \/ state = "busy" /\ state' = "undefined" /\ link' = link
           \/ state' = state /\ link' = link
    BY DEF Destroy, ReceiveFails, vars
  <1>3. Call' = Call
    BY <1>2 DEF Call
  <1>4. TypeOK' /\ CallInv'
    BY <1>1, <1>2, <1>3 DEF TypeOK, CallInv
  <1>5. InStep' /\ LineInv'
    BY <1>1, <1>2 DEF InStep, LineInv
  <1>6. LoginInv'
    <2>1. (LoginSteps => LoginSteps') /\ (LoginState => LoginState')
      BY <1>2 DEF LoginSteps, LoginState
    <2> QED
      BY <1>1, <1>2, <1>3, <2>1 DEF LoginInv
  <1>7. DeliveryInv'
    BY <1>1, <1>2, <1>3 DEF DeliveryInv
  <1> QED
    BY <1>4, <1>5, <1>6, <1>7 DEF Inductive

\* authenticate() is called with a fresh socket.
LEMMA InitInductive == Init => Inductive
  <1> SUFFICES ASSUME Init PROVE Inductive
    OBVIOUS
  <1>1. /\ method \in Methods /\ results = <<>> /\ msgs = <<>> /\ state = "busy"
        /\ todo = authenticate(method) /\ wait = None /\ replies = <<>> /\ delivered = {}
        /\ multi = FALSE /\ link \in {"up", "down"} /\ srv = [authed |-> FALSE, env |-> Idle]
    BY DEF Init
  <1>2. /\ todo \in Seq(Steps) /\ Len(todo) \in Nat
        /\ \A k \in 1 .. Len(todo) : todo[k].cmd # "BODY"
        /\ method # "NONE" =>
             /\ Len(todo) > 3
             /\ \A k \in 1 .. Len(todo) :
                  /\ todo[k].cmd = "PASS" <=> k = Len(todo)
                  /\ todo[k].cmd = "USER" <=> k = Len(todo) - 1
                  /\ todo[k].cmd = "AUTH" <=> k = Len(todo) - 2
                  /\ todo[k].cmd \notin {"MAIL", "RCPT", "DATA", "BODY"}
    BY <1>1, AuthenticateSteps
  <1>3. MaxSubmits \in Nat /\ Idle.mode = "cmd" /\ None.cmd = "none" /\ Call = 0
    BY <1>1, MailerAssumption DEF MailerAssumption, Idle, None, Step, Call
  <1>4. srv \in Servers /\ srv.env.mode = "cmd"
    BY <1>1, <1>3 DEF Servers, Envelopes, Idle
  <1>5. TypeOK
    <2>1. /\ replies \in Seq([code : {2, 3, 5}, last : BOOLEAN, of : Commands])
          /\ results \in Seq({"ok", "threw"}) /\ msgs \in Seq(Messages)
      BY <1>1, EmptySeq
    <2>2. Len(results) - Len(msgs) \in {0, 1}
      BY <1>1
    <2> QED
      BY <1>1, <1>2, <1>4, <2>1, <2>2 DEF TypeOK
  <1>6. CallInv /\ InStep /\ LineInv
    BY <1>1, <1>3 DEF CallInv, InStep, LineInv
  <1>7. LoginInv
    <2>1. method # "NONE" => LoginSteps
      BY <1>2 DEF LoginSteps
    <2>2. method # "NONE" => LoginState
      BY <1>1, <1>2, <1>4 DEF LoginState
    <2> QED
      BY <1>3, <2>1, <2>2 DEF LoginInv
  <1>8. DeliveryInv
    BY <1>1, <1>2, <1>3 DEF DeliveryInv
  <1> QED
    BY <1>5, <1>6, <1>7, <1>8 DEF Inductive

-----------------------------------------------------------------------------
\* The inductive invariant holds in every state of every dialogue, whatever the number of lines
\* of the replies and whenever the server goes away.
THEOREM Invariance == Spec => []Inductive
  <1>1. Inductive /\ [Next]_vars => Inductive'
    BY SslStep, SendStep, ReceiveStep, ReturnStep, SubmitStep, DisconnectStep, EndStep
       DEF Next, Client
  <1> QED
    BY InitInductive, <1>1, PTL DEF Spec

\* Every line is read by the command that it answers as long as the replies that
\* waitForResponse() is called once for have one line, also after an exception.
THEOREM LinesMatchCommands == Spec => []Orderly
  <1>1. Inductive => Orderly
    BY DEF Inductive, Orderly
  <1> QED
    BY Invariance, <1>1, PTL

\* With such replies authenticate() returns only if the server accepted the password, and what
\* submit() threw for was not delivered.
THEOREM FailuresReported == Spec => []FailuresTold
  <1>1. Inductive => FailuresTold
    <2> SUFFICES ASSUME Inductive, ~multi
                 PROVE  /\ Call > 0 /\ results[1] = "ok" /\ method # "NONE" => srv.authed
                        /\ \A k \in 1 .. Call - 1 : results[k + 1] = "threw" => Of(k) = {}
      BY DEF FailuresTold
    <2>1. Call > 0 /\ results[1] = "ok" /\ method # "NONE" => srv.authed
      BY DEF Inductive, LoginInv
    <2>2. Call \in Nat
      BY LenProperties DEF Inductive, TypeOK, Call
    <2>3. ASSUME NEW k \in 1 .. Call - 1, NEW d \in delivered, d.body = k
          PROVE  results[k + 1] = "ok"
      BY <2>2, <2>3 DEF Inductive, DeliveryInv
    <2> QED
      BY <2>1, <2>3 DEF Of
  <1> QED
    BY Invariance, <1>1, PTL
=============================================================================
