---------------------------- MODULE SubmitProofs ----------------------------
(***************************************************************************)
(* The proof of SubmitSound for replies of any number of lines: SubmitInv  *)
(* of Mailer is inductive relative to the Inductive of MailerProofs.       *)
(***************************************************************************)
EXTENDS MailerProofs

\* What a mailer sends has a recipient; without one the last command before
\* DATA is MAIL, which lets any line pass.
Recipients == \A m \in Messages : Everyone(m) # {}

-----------------------------------------------------------------------------
\* What the answer c to the command of step s does to the envelope.
InCmd(s, c, e, f) ==
    /\ c \in {2, 3, 5} /\ f.junk = e.junk
    /\ c = 5 => f = e
    /\ c = 3 => /\ f.from = e.from /\ f.rcpts = e.rcpts
                /\ (s.cmd = "AUTH" /\ f.mode = "user") \/ (s.cmd = "DATA" /\ f.mode = "data")
    /\ c = 2 => /\ f.mode = "cmd"
                /\ s.cmd \notin {"MAIL", "RCPT"} => f = e
                /\ s.cmd = "MAIL" => e.from = 0 /\ f.from = Call /\ f.rcpts = e.rcpts
                /\ s.cmd = "RCPT" => f.from = e.from /\ f.rcpts = e.rcpts \cup {s.arg}
Empty(e) == e.from = 0 /\ e.rcpts = {} /\ ~e.junk
InLogin(c, e, f) ==
    /\ Empty(e) => Empty(f)
    /\ e.mode = "user" => (c = 5 /\ f.mode = "cmd") \/ (c = 3 /\ f.mode = "pass")
    /\ e.mode = "pass" => c \in {2, 5} /\ f.mode = "cmd"
InData(c, e, f) == c \in {2, 5} /\ Empty(f) /\ f.mode = "cmd"

\* Every envelope is the record of its fields, also when a field is replaced.
LEMMA EnvelopeFields ==
  ASSUME NEW e \in Envelopes
  PROVE  /\ \A m : LET f == [e EXCEPT !.mode = m] IN
               f.mode = m /\ f.from = e.from /\ f.rcpts = e.rcpts /\ f.junk = e.junk
         /\ \A n : LET f == [e EXCEPT !.from = n] IN
               f.mode = e.mode /\ f.from = n /\ f.rcpts = e.rcpts /\ f.junk = e.junk
         /\ \A a : LET f == [e EXCEPT !.rcpts = @ \cup {a}] IN
               f.mode = e.mode /\ f.from = e.from /\ f.rcpts = e.rcpts \cup {a} /\ f.junk = e.junk
         /\ e.mode = "cmd" => [e EXCEPT !.mode = "cmd"] = e
         /\ Empty(Idle) /\ Idle.mode = "cmd"
  <1>1. e = [mode |-> e.mode, from |-> e.from, rcpts |-> e.rcpts, junk |-> e.junk]
    BY DEF Envelopes
  <1>2. Empty(Idle) /\ Idle.mode = "cmd"
    BY DEF Idle, Empty
  <1>3. e.mode = "cmd" => [e EXCEPT !.mode = "cmd"] = e
    BY <1>1
  <1>4. \A m : LET f == [e EXCEPT !.mode = m] IN
           f.mode = m /\ f.from = e.from /\ f.rcpts = e.rcpts /\ f.junk = e.junk
    BY <1>1
  <1>5. \A n : LET f == [e EXCEPT !.from = n] IN
           f.mode = e.mode /\ f.from = n /\ f.rcpts = e.rcpts /\ f.junk = e.junk
    BY <1>1
  <1>6. \A a : LET f == [e EXCEPT !.rcpts = @ \cup {a}] IN
           f.mode = e.mode /\ f.from = e.from /\ f.rcpts = e.rcpts \cup {a} /\ f.junk = e.junk
    BY <1>1
  <1> QED
    BY <1>2, <1>3, <1>4, <1>5, <1>6

\* A server in the middle of a message gets nothing but the body.
LEMMA ServeAnswers ==
  ASSUME srv \in Servers, NEW s \in Steps, NEW r \in Serve(s),
         srv.env.mode = "data" => s.cmd = "BODY"
  PROVE  /\ srv.env.mode = "cmd" => InCmd(s, r.code, srv.env, r.srv.env)
         /\ srv.env.mode \in {"user", "pass"} => InLogin(r.code, srv.env, r.srv.env)
         /\ srv.env.mode = "data" => InData(r.code, srv.env, r.srv.env)
  <1> DEFINE env == srv.env
  <1>1. env \in Envelopes /\ env.mode \in {"cmd", "user", "pass", "data"}
    BY DEF Servers, Envelopes
  <1>2. ASSUME NEW c, NEW e, r = Reply(c, Enter(e)) PROVE r.code = c /\ r.srv.env = e
    <2>1. Enter(e).env = e
      BY DEF Servers, Enter
    <2> QED
      BY <1>2, <2>1 DEF Reply
  <1>3. /\ \A m : LET f == [env EXCEPT !.mode = m] IN
             f.mode = m /\ f.from = env.from /\ f.rcpts = env.rcpts /\ f.junk = env.junk
        /\ \A n : LET f == [env EXCEPT !.from = n] IN
             f.mode = env.mode /\ f.from = n /\ f.rcpts = env.rcpts /\ f.junk = env.junk
        /\ \A a : LET f == [env EXCEPT !.rcpts = @ \cup {a}] IN
             f.mode = env.mode /\ f.from = env.from /\ f.rcpts = env.rcpts \cup {a} /\ f.junk = env.junk
        /\ env.mode = "cmd" => [env EXCEPT !.mode = "cmd"] = env
        /\ Empty(Idle) /\ Idle.mode = "cmd"
    BY <1>1, EnvelopeFields
  <1>4. CASE env.mode = "data"
    <2>1. r = Reply(2, Enter(Idle)) \/ r = Reply(5, Enter(Idle))
      BY <1>4 DEF Serve, POSITIVE_COMPLETION, NEGATIVE
    <2>2. r.code \in {2, 5} /\ r.srv.env = Idle
      BY <1>2, <2>1
    <2> QED
      BY <1>3, <1>4, <2>2 DEF InData
  <1>5. CASE r \in Refuse /\ env.mode # "data"
    <2>1. r = Reply(5, Enter([env EXCEPT !.mode = "cmd"]))
      BY <1>5 DEF Refuse, NEGATIVE
    <2>2. r.code = 5 /\ r.srv.env = [env EXCEPT !.mode = "cmd"]
      BY <1>2, <2>1
    <2>3. CASE env.mode = "cmd"
      BY <1>3, <2>2, <2>3 DEF InCmd
    <2>4. CASE env.mode \in {"user", "pass"}
      <3>1. /\ r.srv.env.mode = "cmd" /\ r.srv.env.from = env.from
            /\ r.srv.env.rcpts = env.rcpts /\ r.srv.env.junk = env.junk
        BY <1>3, <2>2
      <3> QED
        BY <2>2, <2>4, <3>1 DEF InLogin, Empty
    <2> QED
      BY <1>1, <1>5, <2>3, <2>4
  <1>6. CASE env.mode = "user" /\ r \notin Refuse
    <2>1. r = Reply(3, Enter([env EXCEPT !.mode = "pass"]))
      BY <1>6 DEF Serve
    <2>2. r.code = 3 /\ r.srv.env = [env EXCEPT !.mode = "pass"]
      BY <1>2, <2>1
    <2> QED
      BY <1>3, <1>6, <2>2 DEF InLogin, Empty
  <1>7. CASE env.mode = "pass" /\ r \notin Refuse
    <2>1. r = Reply(2, [srv EXCEPT !.authed = TRUE, !.env = Idle])
      BY <1>7 DEF Serve
    <2>2. r.code = 2 /\ r.srv.env = Idle
      BY <2>1 DEF Reply, Servers
    <2> QED
      BY <1>3, <1>7, <2>2 DEF InLogin
  <1>8. CASE env.mode = "cmd" /\ r \notin Refuse
    <2>1. CASE s.cmd \in {"CONNECT", "EHLO", "HELO", "STARTTLS"} /\ r = Reply(2, srv)
      <3>1. r.code = 2 /\ r.srv.env = env
        BY <2>1 DEF Reply
      <3> QED
        BY <1>8, <2>1, <3>1 DEF InCmd
    <2>2. CASE s.cmd = "AUTH" /\ r = Reply(3, Enter([env EXCEPT !.mode = "user"]))
      <3>1. r.code = 3 /\ r.srv.env = [env EXCEPT !.mode = "user"]
        BY <1>2, <2>2
      <3>2. /\ r.srv.env.mode = "user" /\ r.srv.env.from = env.from
            /\ r.srv.env.rcpts = env.rcpts /\ r.srv.env.junk = env.junk
        BY <1>3, <1>8, <3>1
      <3> QED
        BY <1>8, <2>2, <3>1, <3>2 DEF InCmd
    <2>3. CASE s.cmd = "MAIL" /\ env.from = 0 /\ r = Reply(2, Enter([env EXCEPT !.from = Call]))
      <3>1. r.code = 2 /\ r.srv.env = [env EXCEPT !.from = Call]
        BY <1>2, <2>3
      <3>2. /\ r.srv.env.mode = "cmd" /\ r.srv.env.from = Call
            /\ r.srv.env.rcpts = env.rcpts /\ r.srv.env.junk = env.junk
        BY <1>3, <1>8, <3>1
      <3> QED
        BY <1>8, <2>3, <3>1, <3>2 DEF InCmd
    <2>4. CASE s.cmd = "RCPT" /\ r = Reply(2, Enter([env EXCEPT !.rcpts = @ \cup {s.arg}]))
      <3>1. r.code = 2 /\ r.srv.env = [env EXCEPT !.rcpts = @ \cup {s.arg}]
        BY <1>2, <2>4
      <3>2. /\ r.srv.env.mode = "cmd" /\ r.srv.env.from = env.from
            /\ r.srv.env.rcpts = env.rcpts \cup {s.arg} /\ r.srv.env.junk = env.junk
        BY <1>3, <1>8, <3>1
      <3>3. PICK all : all = env.rcpts \cup {s.arg}
        OBVIOUS
      <3>4. r.srv.env.rcpts = all
        BY <3>2, <3>3
      <3>5. /\ r.code \in {2, 3, 5} /\ r.srv.env.junk = env.junk /\ r.code # 5 /\ r.code # 3
            /\ r.srv.env.mode = "cmd" /\ s.cmd = "RCPT" /\ r.srv.env.from = env.from
        BY <2>4, <3>1, <3>2
      <3> QED
        BY <1>8, <3>3, <3>4, <3>5 DEF InCmd
    <2>5. CASE s.cmd = "DATA" /\ r = Reply(3, Enter([env EXCEPT !.mode = "data"]))
      <3>1. r.code = 3 /\ r.srv.env = [env EXCEPT !.mode = "data"]
        BY <1>2, <2>5
      <3>2. /\ r.srv.env.mode = "data" /\ r.srv.env.from = env.from
            /\ r.srv.env.rcpts = env.rcpts /\ r.srv.env.junk = env.junk
        BY <1>3, <1>8, <3>1
      <3> QED
        BY <1>8, <2>5, <3>1, <3>2 DEF InCmd
    <2> QED
      BY <1>8, <2>1, <2>2, <2>3, <2>4, <2>5 DEF Serve
  <1> QED
    BY <1>1, <1>4, <1>5, <1>6, <1>7, <1>8

-----------------------------------------------------------------------------
\* What the types say of the variables that the steps below look into.
LEMMA Shapes ==
  ASSUME Inductive
  PROVE  /\ replies \in Seq([code : {2, 3, 5}, last : BOOLEAN, of : Commands]) /\ Len(replies) \in Nat
         /\ \A j \in 1 .. Len(replies) : replies[j].code \in {2, 3, 5} /\ replies[j].of \in Commands
         /\ (replies = <<>> <=> Len(replies) = 0)
         /\ todo \in Seq(Steps) /\ Len(todo) \in Nat /\ (todo = <<>> <=> Len(todo) = 0)
         /\ Call \in Nat /\ srv \in Servers /\ srv.env.mode \in {"cmd", "user", "pass", "data"}
         /\ link \in {"up", "down"}
  <1>1. TypeOK
    BY DEF Inductive
  <1>2. /\ replies \in Seq([code : {2, 3, 5}, last : BOOLEAN, of : Commands])
        /\ todo \in Seq(Steps) /\ srv \in Servers /\ results \in Seq({"ok", "threw"}) /\ link \in {"up", "down"}
    BY <1>1 DEF TypeOK
  <1>3. Len(replies) \in Nat /\ Len(todo) \in Nat /\ Call \in Nat
    BY <1>2, LenProperties DEF Call
  <1>4. \A j \in 1 .. Len(replies) : replies[j] \in [code : {2, 3, 5}, last : BOOLEAN, of : Commands]
    BY <1>2, ElementOfSeq
  <1>5. (replies = <<>> <=> Len(replies) = 0) /\ (todo = <<>> <=> Len(todo) = 0)
    BY <1>2, EmptySeq
  <1>6. srv.env.mode \in {"cmd", "user", "pass", "data"}
    BY <1>2 DEF Servers, Envelopes
  <1> QED
    BY <1>2, <1>3, <1>4, <1>5, <1>6

\* The answer of code c has arrived behind the lines there were.
Grown(c) ==
    /\ Len(replies') \in Nat /\ Len(replies') > Len(replies)
    /\ \A j \in 1 .. Len(replies) : replies'[j] = replies[j]
    /\ \A j \in 1 .. Len(replies') : j > Len(replies) => replies'[j].code = c /\ replies'[j].of = wait'.cmd
    /\ replies'[Len(replies')].last

LEMMA LinesArrive ==
  ASSUME Inductive, NEW c \in {2, 3, 5}, NEW n \in Nat \ {0}, wait'.cmd \in Commands,
         replies' = replies \o ReplyLines(c, n)
  PROVE  Grown(c)
  <1> DEFINE T == [code : {2, 3, 5}, last : BOOLEAN, of : Commands]
             R == ReplyLines(c, n)
  <1>1. replies \in Seq(T) /\ Len(replies) \in Nat
    BY Shapes
  <1>2. /\ R \in Seq(T) /\ Len(R) = n
        /\ \A k \in 1 .. n : R[k].code = c /\ (R[k].last <=> k = n) /\ R[k].of = wait'.cmd
    <2>1. R \in Seq(T) /\ Len(R) = n
      BY RepliesSent
    <2>2. \A k \in 1 .. n : R[k].code = c /\ R[k].of = wait'.cmd
      BY RepliesSent
    <2>3. \A k \in 1 .. n : R[k].last <=> k = n
      BY RepliesSent
    <2> QED
      BY <2>1, <2>2, <2>3
  <1> HIDE DEF R
  <1>3. /\ Len(replies') = Len(replies) + n
        /\ \A j \in 1 .. Len(replies) + n :
              replies'[j] = IF j <= Len(replies) THEN replies[j] ELSE R[j - Len(replies)]
    BY <1>1, <1>2, ConcatProperties DEF R
  <1>4. \A j \in 1 .. Len(replies) : replies'[j] = replies[j]
    BY <1>1, <1>3
  <1>5. ASSUME NEW j \in 1 .. Len(replies'), j > Len(replies)
        PROVE  replies'[j].code = c /\ replies'[j].of = wait'.cmd /\ (j = Len(replies') => replies'[j].last)
    <2>1. j - Len(replies) \in 1 .. n /\ replies'[j] = R[j - Len(replies)]
      BY <1>1, <1>3, <1>5
    <2>2. j = Len(replies') => j - Len(replies) = n
      BY <1>1, <1>3
    <2> QED
      BY <1>2, <2>1, <2>2
  <1>6. Len(replies') \in 1 .. Len(replies') /\ Len(replies') > Len(replies) /\ Len(replies') \in Nat
    BY <1>1, <1>3
  <1> QED
    BY <1>4, <1>5, <1>6 DEF Grown

\* The step that Send takes from todo.
LEMMA StepTaken ==
  ASSUME Inductive, todo # <<>>, todo' = Tail(todo)
  PROVE  /\ Head(todo) = todo[1] /\ Head(todo) \in Steps /\ Head(todo) # None /\ Head(todo).cmd \in Commands
         /\ 1 \in 1 .. Len(todo) /\ Len(todo') \in Nat /\ Len(todo') = Len(todo) - 1
         /\ (todo' = <<>> <=> Len(todo') = 0)
         /\ \A k \in 1 .. Len(todo') : todo'[k] = todo[k + 1] /\ k + 1 \in 1 .. Len(todo)
  <1>1. TypeOK /\ DeliveryInv
    BY DEF Inductive
  <1>2. todo \in Seq(Steps)
    BY Shapes
  <1>3. Head(todo) # None /\ Head(todo).cmd \in Commands
    BY <1>1, NextStep
  <1>4. /\ Head(todo) = todo[1] /\ Head(todo) \in Steps /\ Len(todo) \in Nat /\ Len(todo) >= 1
        /\ todo' \in Seq(Steps) /\ Len(todo') = Len(todo) - 1
        /\ \A k \in 1 .. Len(todo') : todo'[k] = todo[k + 1] /\ k + 1 \in 1 .. Len(todo)
    BY <1>2, FirstAndRest
  <1>5. todo' = <<>> <=> Len(todo') = 0
    BY <1>4, EmptySeq
  <1> QED
    BY <1>3, <1>4, <1>5

\* A server that is there answers, in a way that its mode allows.
Answer(c) ==
    /\ Grown(c)
    /\ srv.env.mode = "cmd" => InCmd(wait', c, srv.env, srv.env')
    /\ srv.env.mode \in {"user", "pass"} => InLogin(c, srv.env, srv.env')
    /\ srv.env.mode = "data" => InData(c, srv.env, srv.env')
    /\ delivered' = IF srv.env.mode = "data" /\ c = 2
                      THEN delivered \cup {[env |-> srv.env, body |-> Call]} ELSE delivered

LEMMA Answered ==
  ASSUME Inductive, SubmitInv, AllOk, Send, link = "up"
  PROVE  \E c \in {2, 3, 5} : Answer(c)
  <1>1. /\ state = "busy" /\ wait = None /\ todo # <<>> /\ wait' = Head(todo) /\ todo' = Tail(todo)
        /\ \E r \in Serve(wait'), n \in Lines(wait'.cmd) :
               /\ srv' = r.srv
               /\ replies' = IF r.code = 1 THEN replies ELSE replies \o ReplyLines(r.code, n)
               /\ delivered' = IF srv.env.mode = "data" /\ r.code = 2
                                 THEN delivered \cup {[env |-> srv.env, body |-> Call]}
                                 ELSE delivered
    BY DEF Send
  <1>2. PICK r \in Serve(wait'), n \in Lines(wait'.cmd) :
               /\ srv' = r.srv
               /\ replies' = IF r.code = 1 THEN replies ELSE replies \o ReplyLines(r.code, n)
               /\ delivered' = IF srv.env.mode = "data" /\ r.code = 2
                                 THEN delivered \cup {[env |-> srv.env, body |-> Call]}
                                 ELSE delivered
    BY <1>1
  <1>3. wait' = todo[1] /\ wait' \in Steps /\ wait'.cmd \in Commands
    BY <1>1, StepTaken
  <1>4. n \in Nat \ {0}
    BY <1>3, MailerAssumption DEF MailerAssumption
  <1>5. srv \in Servers /\ srv.env.mode \in {"cmd", "user", "pass", "data"}
    BY Shapes
  <1>6. srv.env.mode = "data" => wait'.cmd = "BODY"
    BY <1>1, <1>3 DEF SubmitInv, ModeInv, Expected
  <1>7. /\ srv.env.mode = "cmd" => InCmd(wait', r.code, srv.env, r.srv.env)
        /\ srv.env.mode \in {"user", "pass"} => InLogin(r.code, srv.env, r.srv.env)
        /\ srv.env.mode = "data" => InData(r.code, srv.env, r.srv.env)
    BY <1>3, <1>5, <1>6, ServeAnswers
  <1>8. r.code \in {2, 3, 5}
    BY <1>5, <1>7 DEF InCmd, InLogin, InData
  <1>9. PICK c \in {2, 3, 5} : c = r.code
    BY <1>8
  <1>10. Grown(c)
    <2>1. replies' = replies \o ReplyLines(c, n)
      BY <1>2, <1>9
    <2> QED
      BY <1>3, <1>4, <2>1, LinesArrive
  <1> QED
    BY <1>2, <1>7, <1>9, <1>10 DEF Answer

-----------------------------------------------------------------------------
(* Send *)

\* The steps that are left keep their order.
LEMMA SendShape ==
  ASSUME Inductive, Send
  PROVE  /\ LoginShape => LoginShape' /\ wait'.cmd \notin {"MAIL", "RCPT", "DATA", "BODY"}
         /\ LoginShape /\ wait'.cmd = "AUTH" => todo' # <<>> /\ todo'[1].cmd = "USER"
         /\ LoginShape /\ wait'.cmd = "USER" => todo' # <<>> /\ todo'[1].cmd = "PASS"
         /\ SubmitShape => /\ SubmitShape' /\ wait'.cmd \in {"MAIL", "RCPT", "DATA", "BODY"}
                           /\ wait'.cmd = "DATA" => Len(todo) = 2 /\ todo' # <<>> /\ todo'[1].cmd = "BODY"
                           /\ wait'.cmd = "BODY" => Len(todo) = 1
                           /\ wait'.cmd \in {"MAIL", "RCPT"} => Len(todo) > 2
  <1>1. state = "busy" /\ wait = None /\ todo # <<>> /\ wait' = Head(todo) /\ todo' = Tail(todo)
    BY DEF Send
  <1>2. /\ wait' = todo[1] /\ wait' \in Steps /\ wait' # None /\ wait'.cmd \in Commands
        /\ 1 \in 1 .. Len(todo) /\ Len(todo') \in Nat /\ Len(todo') = Len(todo) - 1
        /\ (todo' = <<>> <=> Len(todo') = 0)
        /\ \A k \in 1 .. Len(todo') : todo'[k] = todo[k + 1] /\ k + 1 \in 1 .. Len(todo)
    BY <1>1, StepTaken
  <1>3. Len(todo) \in Nat
    BY Shapes
  <1>4. ASSUME LoginShape
        PROVE  /\ LoginShape' /\ wait'.cmd \notin {"MAIL", "RCPT", "DATA", "BODY"}
               /\ wait'.cmd = "AUTH" => todo' # <<>> /\ todo'[1].cmd = "USER"
               /\ wait'.cmd = "USER" => todo' # <<>> /\ todo'[1].cmd = "PASS"
    <2>1. wait'.cmd \notin {"MAIL", "RCPT", "DATA", "BODY"}
      BY <1>2, <1>4 DEF LoginShape
    <2>2. ASSUME NEW j \in 1 .. Len(todo')
          PROVE  /\ todo'[j].cmd \notin {"MAIL", "RCPT", "DATA", "BODY"}
                 /\ todo'[j].cmd = "AUTH" => j < Len(todo') /\ todo'[j + 1].cmd = "USER"
                 /\ todo'[j].cmd = "USER" => j < Len(todo') /\ todo'[j + 1].cmd = "PASS"
      <3>1. todo'[j] = todo[j + 1] /\ j + 1 \in 1 .. Len(todo)
        BY <1>2
      <3>2. j < Len(todo') => todo'[j + 1] = todo[j + 2]
        BY <1>2
      <3>3. (j + 1) + 1 = j + 2 /\ (j + 1 < Len(todo) <=> j < Len(todo'))
        BY <1>2, <1>3
      <3> QED
        BY <1>4, <3>1, <3>2, <3>3 DEF LoginShape
    <2>3. ASSUME wait'.cmd \in {"AUTH", "USER"}
          PROVE  /\ todo' # <<>> /\ todo'[1] = todo[2]
                 /\ todo[2].cmd = (IF wait'.cmd = "AUTH" THEN "USER" ELSE "PASS")
      <3>1. 1 < Len(todo) /\ todo[1 + 1].cmd = (IF wait'.cmd = "AUTH" THEN "USER" ELSE "PASS")
        BY <1>2, <1>4, <2>3 DEF LoginShape
      <3>2. 1 \in 1 .. Len(todo') /\ Len(todo') # 0
        BY <1>2, <1>3, <3>1
      <3> QED
        BY <1>2, <3>1, <3>2
    <2> QED
      BY <2>1, <2>2, <2>3 DEF LoginShape
  <1>5. ASSUME SubmitShape
        PROVE  /\ SubmitShape' /\ wait'.cmd \in {"MAIL", "RCPT", "DATA", "BODY"}
               /\ wait'.cmd = "DATA" => Len(todo) = 2 /\ todo' # <<>> /\ todo'[1].cmd = "BODY"
               /\ wait'.cmd = "BODY" => Len(todo) = 1
               /\ wait'.cmd \in {"MAIL", "RCPT"} => Len(todo) > 2
    <2>1. /\ wait'.cmd \in {"MAIL", "RCPT", "DATA", "BODY"}
          /\ wait'.cmd = "BODY" <=> 1 = Len(todo)
          /\ wait'.cmd = "DATA" <=> 1 = Len(todo) - 1
          /\ wait'.cmd = "MAIL" => Len(todo) > 3
      BY <1>2, <1>5 DEF SubmitShape
    <2>2. ASSUME NEW j \in 1 .. Len(todo')
          PROVE  /\ todo'[j].cmd \in {"MAIL", "RCPT", "DATA", "BODY"}
                 /\ todo'[j].cmd = "BODY" <=> j = Len(todo')
                 /\ todo'[j].cmd = "DATA" <=> j = Len(todo') - 1
                 /\ todo'[j].cmd # "MAIL"
      <3>1. todo'[j] = todo[j + 1] /\ j + 1 \in 1 .. Len(todo) /\ j + 1 # 1
        BY <1>2
      <3>2. (j + 1 = Len(todo) <=> j = Len(todo')) /\ (j + 1 = Len(todo) - 1 <=> j = Len(todo') - 1)
        BY <1>2, <1>3
      <3> QED
        BY <1>5, <3>1, <3>2 DEF SubmitShape
    <2>3. /\ wait'.cmd = "BODY" <=> Len(todo') = 0
          /\ wait'.cmd = "DATA" <=> Len(todo') = 1
          /\ wait'.cmd = "MAIL" => Len(todo') > 2
          /\ wait'.cmd = "DATA" <=> Len(todo) = 2
      BY <1>2, <1>3, <2>1
    <2>4. SubmitShape'
      BY <2>1, <2>2, <2>3 DEF SubmitShape
    <2>5. ASSUME wait'.cmd = "DATA" PROVE todo' # <<>> /\ todo'[1].cmd = "BODY"
      <3>1. Len(todo') = 1 /\ 1 \in 1 .. Len(todo')
        BY <2>3, <2>5
      <3>2. todo'[1].cmd = "BODY" <=> 1 = Len(todo')
        BY <2>2, <3>1
      <3>3. todo' # <<>>
        BY <1>2, <3>1
      <3> QED
        BY <3>1, <3>2, <3>3
    <2>6. wait'.cmd \in {"MAIL", "RCPT"} => Len(todo) > 2
      BY <1>2, <1>3, <2>1, <2>3
    <2> QED
      BY <2>1, <2>3, <2>4, <2>5, <2>6
  <1> QED
    BY <1>4, <1>5

\* The answer continues what the lines told of the server.
LEMMA SendStream ==
  ASSUME Inductive, SubmitInv, AllOk, Send
  PROVE  ModeInv' /\ StreamInv'
  <1>1. /\ state = "busy" /\ wait = None /\ todo # <<>> /\ wait' = Head(todo) /\ todo' = Tail(todo)
        /\ state' = "busy" /\ link' = link
    BY DEF Send
  <1>2. ModeInv /\ StreamInv /\ (Call = 0 => LoginShape) /\ (Call > 0 => SubmitShape)
    BY <1>1 DEF SubmitInv
  <1>3. CASE link # "up"
    <2>1. UNCHANGED <<replies, srv>>
      BY <1>3 DEF Send
    <2> QED
      BY <1>1, <1>2, <1>3, <2>1 DEF ModeInv, StreamInv
  <1>4. CASE link = "up"
    <2>1. PICK c \in {2, 3, 5} : Answer(c)
      BY <1>4, Answered
    <2>2. /\ Len(replies) \in Nat /\ (replies = <<>> <=> Len(replies) = 0) /\ Call \in Nat
          /\ srv.env.mode \in {"cmd", "user", "pass", "data"}
      BY Shapes
    <2>3. /\ Len(replies') \in Nat /\ Len(replies') > Len(replies)
          /\ \A j \in 1 .. Len(replies) : replies'[j] = replies[j]
          /\ \A j \in 1 .. Len(replies') : j > Len(replies) => replies'[j].code = c /\ replies'[j].of = wait'.cmd
          /\ replies'[Len(replies')].last
      BY <2>1 DEF Answer, Grown
    <2>4. wait' = todo[1]
      BY <1>1, StepTaken
    <2>5. srv.env.mode # "cmd" => wait'.cmd = Expected(srv.env.mode)
      BY <1>2, <1>4, <2>4 DEF ModeInv
    <2>6. c = 3 => /\ wait'.cmd \in {"AUTH", "USER", "DATA"}
                   /\ wait'.cmd = "USER" => srv.env.mode # "cmd"
      BY <2>1, <2>2, <2>5 DEF Answer, InCmd, InLogin, InData, Expected
    <2>7. c = 2 => srv.env.mode # "user"
      BY <2>1 DEF Answer, InLogin
    <2>8. IF srv'.env.mode = "cmd" THEN c # 3 ELSE c = 3 /\ wait'.cmd = Opener(srv'.env.mode)
      <3>1. CASE srv.env.mode = "cmd"
        <4>1. c = 5 => srv'.env = srv.env
          BY <2>1, <3>1 DEF Answer, InCmd
        <4>2. c = 2 => srv'.env.mode = "cmd"
          BY <2>1, <3>1 DEF Answer, InCmd
        <4>3. c = 3 => \/ wait'.cmd = "AUTH" /\ srv'.env.mode = "user"
                       \/ wait'.cmd = "DATA" /\ srv'.env.mode = "data"
          BY <2>1, <3>1 DEF Answer, InCmd
        <4> QED
          BY <3>1, <4>1, <4>2, <4>3 DEF Opener
      <3>2. CASE srv.env.mode = "user"
        <4>1. (c = 5 /\ srv'.env.mode = "cmd") \/ (c = 3 /\ srv'.env.mode = "pass")
          BY <2>1, <3>2 DEF Answer, InLogin
        <4> QED
          BY <2>5, <3>2, <4>1 DEF Opener, Expected
      <3>3. CASE srv.env.mode = "pass"
        BY <2>1, <3>3 DEF Answer, InLogin
      <3>4. CASE srv.env.mode = "data"
        BY <2>1, <3>4 DEF Answer, InData
      <3> QED
        BY <2>2, <3>1, <3>2, <3>3, <3>4
    <2>9. ModeInv'
      <3>1. SUFFICES ASSUME srv'.env.mode # "cmd"
                     PROVE  /\ todo' # <<>> /\ todo'[1].cmd = Expected(srv'.env.mode)
                            /\ wait'.cmd = Opener(srv'.env.mode)
        BY <1>1 DEF ModeInv
      <3>2. wait'.cmd = Opener(srv'.env.mode)
        BY <2>8, <3>1
      <3>3. srv'.env.mode \in {"user", "pass", "data"}
        BY <2>1, <2>2, <3>1 DEF Answer, InCmd, InLogin, InData
      <3>4. wait'.cmd = "AUTH" => todo' # <<>> /\ todo'[1].cmd = "USER"
        BY <1>2, <2>2, SendShape
      <3>5. wait'.cmd = "USER" => todo' # <<>> /\ todo'[1].cmd = "PASS"
        BY <1>2, <2>2, SendShape
      <3>6. wait'.cmd = "DATA" => todo' # <<>> /\ todo'[1].cmd = "BODY"
        BY <1>2, <2>2, SendShape
      <3> QED
        BY <3>2, <3>3, <3>4, <3>5, <3>6 DEF Opener, Expected
    <2>10. \A j \in 1 .. Len(replies') : replies'[j].code = 3 => replies'[j].of \in {"AUTH", "USER", "DATA"}
      <3>1. TAKE j \in 1 .. Len(replies')
      <3>2. CASE j \in 1 .. Len(replies)
        BY <1>2, <2>3, <3>2 DEF StreamInv
      <3>3. CASE j > Len(replies)
        BY <2>3, <2>6, <3>3
      <3> QED
        BY <2>2, <3>2, <3>3
    <2>11. ASSUME NEW j \in 1 .. Len(replies') - 1
           PROVE  /\ replies'[j].code = 2 /\ replies'[j + 1].code = 3 => replies'[j + 1].of # "USER"
                  /\ replies'[j].code = 3 /\ replies'[j + 1].code = 2 => replies'[j].of # "AUTH"
      <3>1. j \in 1 .. Len(replies') /\ j + 1 \in 1 .. Len(replies')
        BY <2>3
      <3>2. CASE j + 1 <= Len(replies)
        <4>1. j \in 1 .. Len(replies) - 1 /\ j \in 1 .. Len(replies) /\ j + 1 \in 1 .. Len(replies)
          BY <2>2, <3>2
        <4> QED
          BY <1>2, <2>3, <4>1 DEF StreamInv
      <3>3. CASE j = Len(replies)
        <4>1. replies # <<>> /\ replies'[j] = replies[Len(replies)]
          BY <2>2, <2>3, <3>3
        <4>2. IF srv.env.mode = "cmd" THEN replies'[j].code # 3
              ELSE replies'[j].code = 3 /\ replies'[j].of = Opener(srv.env.mode)
          BY <1>2, <1>4, <4>1 DEF StreamInv
        <4>3. replies'[j + 1].code = c /\ replies'[j + 1].of = wait'.cmd
          BY <2>2, <2>3, <3>1, <3>3
        <4>4. replies'[j].code = 3 /\ c = 2 => replies'[j].of # "AUTH"
          BY <2>2, <2>7, <4>2 DEF Opener
        <4>5. replies'[j].code = 2 /\ c = 3 => wait'.cmd # "USER"
          BY <2>6, <4>2
        <4> QED
          BY <4>3, <4>4, <4>5
      <3>4. CASE j > Len(replies)
        <4>1. replies'[j].code = c /\ replies'[j + 1].code = c
          BY <2>2, <2>3, <3>1, <3>4
        <4> QED
          BY <4>1
      <3> QED
        BY <2>2, <3>1, <3>2, <3>3, <3>4
    <2>12. /\ replies'[Len(replies')].last /\ replies'[Len(replies')].code = c
           /\ replies'[Len(replies')].of = wait'.cmd
      BY <2>2, <2>3
    <2>13. IF srv'.env.mode = "cmd" THEN replies'[Len(replies')].code # 3
           ELSE replies'[Len(replies')].code = 3 /\ replies'[Len(replies')].of = Opener(srv'.env.mode)
      BY <2>8, <2>12
    <2> QED
      BY <2>9, <2>10, <2>11, <2>12, <2>13 DEF StreamInv
  <1> QED
    BY <1>3, <1>4

\* Only the body of a message is ever delivered, by the last step of its call.
LEMMA SendDelivers ==
  ASSUME Inductive, Send
  PROVE  /\ delivered \subseteq delivered'
         /\ \A d \in delivered' : d \in delivered \/ (d.body = Call /\ todo' = <<>> /\ wait'.cmd = "BODY")
  <1>1. wait = None /\ todo # <<>> /\ wait' = Head(todo) /\ todo' = Tail(todo)
    BY DEF Send
  <1>2. wait' \in Steps /\ (wait'.cmd = "BODY" => todo' = <<>>)
    <2>1. TypeOK /\ DeliveryInv
      BY DEF Inductive
    <2> QED
      BY <1>1, <2>1, NextStep
  <1>3. CASE link = "down"
    BY <1>3 DEF Send
  <1>4. CASE link = "up"
    <2>1. PICK r \in Serve(wait') :
               delivered' = IF srv.env.mode = "data" /\ r.code = 2
                              THEN delivered \cup {[env |-> srv.env, body |-> Call]} ELSE delivered
      BY <1>4 DEF Send
    <2>2. srv \in Servers /\ Call \in 0 .. MaxSubmits
      <3>1. TypeOK /\ CallInv /\ state = "busy"
        BY DEF Inductive, Send
      <3>2. Call <= MaxSubmits /\ Call \in Nat
        BY <3>1, Shapes DEF CallInv
      <3> QED
        BY <3>1, <3>2, MailerAssumption DEF TypeOK, MailerAssumption
    <2>3. srv.env.mode = "data" /\ r.code = 2 => wait'.cmd = "BODY"
      BY <1>2, <2>2, ServeSound
    <2> QED
      BY <1>2, <2>1, <2>3
  <1> QED
    BY <1>3, <1>4, Shapes

\* The recipients that are still to be sent, without the one that is sent now.
LEMMA LeftShrinks ==
  ASSUME Inductive, Send
  PROVE  Left = IF wait'.cmd = "RCPT" THEN Left' \cup {wait'.arg} ELSE Left'
  <1>1. wait = None /\ todo # <<>> /\ wait' = Head(todo) /\ todo' = Tail(todo)
    BY DEF Send
  <1>2. /\ wait' = todo[1] /\ 1 \in 1 .. Len(todo) /\ Len(todo') \in Nat /\ Len(todo') = Len(todo) - 1
        /\ \A k \in 1 .. Len(todo') : todo'[k] = todo[k + 1] /\ k + 1 \in 1 .. Len(todo)
    BY <1>1, StepTaken
  <1>3. Len(todo) \in Nat
    BY Shapes
  <1>4. ASSUME NEW a
        PROVE  a \in Left <=> (wait'.cmd = "RCPT" /\ a = wait'.arg) \/ a \in Left'
    <2>1. ASSUME a \in Left PROVE (wait'.cmd = "RCPT" /\ a = wait'.arg) \/ a \in Left'
      <3>1. PICK j \in 1 .. Len(todo) : todo[j].cmd = "RCPT" /\ a = todo[j].arg
        BY <2>1 DEF Left
      <3>2. CASE j = 1
        BY <1>2, <3>1, <3>2
      <3>3. CASE j # 1
        <4>1. j - 1 \in 1 .. Len(todo') /\ (j - 1) + 1 = j
          BY <1>2, <1>3, <3>3
        <4>2. todo'[j - 1] = todo[j]
          BY <1>2, <4>1
        <4> QED
          BY <3>1, <4>1, <4>2 DEF Left
      <3> QED
        BY <3>2, <3>3
    <2>2. ASSUME wait'.cmd = "RCPT", a = wait'.arg PROVE a \in Left
      BY <1>2, <2>2 DEF Left
    <2>3. ASSUME a \in Left' PROVE a \in Left
      <3>1. PICK j \in 1 .. Len(todo') : todo'[j].cmd = "RCPT" /\ a = todo'[j].arg
        BY <2>3 DEF Left
      <3> QED
        BY <1>2, <3>1 DEF Left
    <2> QED
      BY <2>1, <2>2, <2>3
  <1> QED
    BY <1>4

\* MAIL and RCPT: who is in step with the server has told it one name more.
LEMMA SendAddress ==
  ASSUME Inductive, SubmitInv, AllOk, Send, Call > 0, wait'.cmd \in {"MAIL", "RCPT"}
  PROVE  AddressingInv'
  <1>1. /\ state = "busy" /\ wait = None /\ todo # <<>> /\ wait' = Head(todo) /\ todo' = Tail(todo)
        /\ UNCHANGED <<results, msgs, link>> /\ Call' = Call
    BY DEF Send, Call
  <1>2. SubmitShape /\ DialogueInv /\ ModeInv
    BY <1>1, Shapes DEF SubmitInv
  <1>3. SubmitShape' /\ Len(todo) > 1 /\ wait' # None /\ wait' = todo[1]
    BY <1>1, <1>2, SendShape, Shapes, StepTaken
  <1>4. AddressingInv
    BY <1>1, <1>2, <1>3 DEF DialogueInv
  <1>5. CASE link # "up"
    <2>1. replies' = replies
      BY <1>5 DEF Send
    <2> QED
      BY <1>1, <1>3, <1>4, <1>5, <2>1 DEF AddressingInv, NoLine
  <1>6. CASE link = "up"
    <2>1. PICK c \in {2, 3, 5} : Answer(c)
      BY <1>6, Answered
    <2>2. Len(replies) \in Nat /\ (replies = <<>> <=> Len(replies) = 0)
      BY Shapes
    <2>3. /\ Len(replies') \in Nat /\ Len(replies') > Len(replies)
          /\ \A j \in 1 .. Len(replies) : replies'[j] = replies[j]
          /\ \A j \in 1 .. Len(replies') : j > Len(replies) => replies'[j].code = c /\ replies'[j].of = wait'.cmd
      BY <2>1 DEF Answer, Grown
    <2>4. srv.env.mode = "cmd"
      BY <1>2, <1>3, <1>6 DEF ModeInv, Expected
    <2>5. NoLine(3, "DATA")'
      <3>1. SUFFICES ASSUME NEW j \in 1 .. Len(replies'), replies'[j].code = 3
                     PROVE  replies'[j].of # "DATA"
        BY DEF NoLine
      <3>2. CASE j \in 1 .. Len(replies)
        BY <1>4, <2>3, <3>1, <3>2 DEF AddressingInv, NoLine
      <3>3. CASE j > Len(replies)
        BY <2>3, <3>3
      <3> QED
        BY <2>2, <3>2, <3>3
    <2>6. replies' # <<>>
      BY <2>2, <2>3
    <2>7. ASSUME OnlyLines(2)', Len(replies') = 1 PROVE Addressed'
      <3>1. Addressed /\ c = 2
        <4>1. Len(replies) = 0 /\ 1 \in 1 .. Len(replies') /\ 1 > Len(replies)
          BY <2>2, <2>3, <2>7
        <4>2. c = 2
          BY <2>3, <2>7, <4>1 DEF OnlyLines
        <4> QED
          BY <1>1, <1>4, <1>6, <2>2, <4>1, <4>2 DEF AddressingInv
      <3>2. /\ srv.env'.junk = srv.env.junk
            /\ wait'.cmd = "MAIL" => srv.env'.from = Call /\ srv.env'.rcpts = srv.env.rcpts
            /\ wait'.cmd = "RCPT" => srv.env'.from = srv.env.from /\ srv.env'.rcpts = srv.env.rcpts \cup {wait'.arg}
        BY <2>1, <2>4, <3>1 DEF Answer, InCmd
      <3>3. ~(todo' # <<>> /\ todo'[1].cmd = "MAIL")
        <4>1. todo' # <<>> => 1 \in 1 .. Len(todo')
          BY <1>1, StepTaken
        <4> QED
          BY <1>3, <4>1 DEF SubmitShape
      <3>4. srv.env'.from = Call
        BY <1>3, <3>1, <3>2 DEF Addressed
      <3>5. srv.env'.rcpts \cup Left' = srv.env.rcpts \cup Left
        BY <3>2, LeftShrinks
      <3>6. Everyone(msgs[Call])' = Everyone(msgs[Call])
        BY <1>1
      <3> QED
        BY <1>1, <3>1, <3>2, <3>3, <3>4, <3>5, <3>6 DEF Addressed
    <2> QED
      BY <1>3, <2>5, <2>6, <2>7 DEF AddressingInv
  <1> QED
    BY <1>5, <1>6

\* DATA: its own answer is read, or a line that no body is accepted after.
LEMMA SendData ==
  ASSUME Inductive, SubmitInv, AllOk, Send, Call > 0, wait'.cmd = "DATA"
  PROVE  DataInv'
  <1>1. /\ state = "busy" /\ wait = None /\ todo # <<>> /\ wait' = Head(todo) /\ todo' = Tail(todo)
        /\ UNCHANGED <<results, msgs, link>> /\ Call' = Call
    BY DEF Send, Call
  <1>2. SubmitShape /\ DialogueInv /\ ModeInv
    BY <1>1, Shapes DEF SubmitInv
  <1>3. /\ Len(todo) = 2 /\ wait' = todo[1] /\ todo' # <<>> /\ todo'[1].cmd = "BODY"
    BY <1>1, <1>2, SendShape, StepTaken
  <1>4. AddressingInv
    BY <1>1, <1>2, <1>3 DEF DialogueInv
  <1>5. Len(replies) \in Nat /\ (replies = <<>> <=> Len(replies) = 0) /\ link \in {"up", "down"}
    BY Shapes
  <1>6. CASE link = "down"
    <2>1. replies' = replies
      BY <1>6 DEF Send
    <2> QED
      BY <1>1, <1>3, <1>4, <1>6, <2>1 DEF AddressingInv, DataInv, Starved, Behind
  <1>7. CASE link = "up"
    <2>1. PICK c \in {2, 3, 5} : Answer(c)
      BY <1>7, Answered
    <2>2. /\ Len(replies') \in Nat /\ Len(replies') > Len(replies)
          /\ \A j \in 1 .. Len(replies) : replies'[j] = replies[j]
          /\ \A j \in 1 .. Len(replies') : j > Len(replies) => replies'[j].code = c /\ replies'[j].of = wait'.cmd
      BY <2>1 DEF Answer, Grown
    <2>3. replies' # <<>> /\ 1 \in 1 .. Len(replies')
      BY <1>5, <2>2
    <2>4. CASE replies # <<>>
      <3>1. 1 \in 1 .. Len(replies)
        BY <1>5, <2>4
      <3>2. Behind(3, "AUTH")
        BY <1>1, <1>3, <1>4, <2>4 DEF AddressingInv
      <3> QED
        BY <2>2, <2>3, <3>1, <3>2 DEF DataInv, Behind
    <2>5. CASE replies = <<>>
      <3>1. \A j \in 1 .. Len(replies') : replies'[j].code = c
        BY <1>5, <2>2, <2>5
      <3>2. CASE c # 3
        BY <2>3, <3>1, <3>2 DEF DataInv, Behind
      <3>3. CASE c = 3
        <4>1. Addressed
          BY <1>1, <1>4, <1>7, <2>5 DEF AddressingInv
        <4>2. srv.env.mode = "cmd"
          BY <1>2, <1>3, <1>7 DEF ModeInv, Expected
        <4>3. /\ srv.env'.junk = srv.env.junk /\ srv.env'.from = srv.env.from
              /\ srv.env'.rcpts = srv.env.rcpts /\ srv.env'.mode = "data"
          BY <2>1, <3>3, <4>2 DEF Answer, InCmd
        <4>4. Left' = Left
          BY LeftShrinks
        <4>5. Addressed'
          BY <1>1, <1>3, <4>1, <4>3, <4>4 DEF Addressed
        <4> QED
          BY <2>3, <3>1, <3>3, <4>3, <4>5 DEF DataInv, OnlyLines
      <3> QED
        BY <3>2, <3>3
    <2> QED
      BY <2>4, <2>5
  <1> QED
    BY <1>5, <1>6, <1>7

\* The body: it is accepted with the whole envelope, or the line read is not 2xx.
LEMMA SendBody ==
  ASSUME Inductive, SubmitInv, AllOk, Send, Call > 0, wait'.cmd = "BODY"
  PROVE  BodyInv'
  <1>1. /\ state = "busy" /\ wait = None /\ todo # <<>> /\ wait' = Head(todo) /\ todo' = Tail(todo)
        /\ UNCHANGED <<results, msgs, link>> /\ Call' = Call
    BY DEF Send, Call
  <1>2. SubmitShape /\ DialogueInv /\ \A d \in delivered : d.body < Call
    BY <1>1, Shapes DEF SubmitInv
  <1>3. Len(todo) = 1 /\ wait' = todo[1]
    BY <1>1, <1>2, SendShape, StepTaken
  <1>4. BodyDue
    BY <1>1, <1>2, <1>3 DEF DialogueInv
  <1>5. Len(replies) \in Nat /\ (replies = <<>> <=> Len(replies) = 0) /\ link \in {"up", "down"} /\ Call \in Nat
    BY Shapes
  <1>6. CASE link = "down"
    <2>1. replies' = replies
      BY <1>6 DEF Send
    <2> QED
      BY <1>1, <1>4, <1>6, <2>1 DEF BodyDue, BodyInv, Starved, Behind
  <1>7. CASE link = "up"
    <2>1. PICK c \in {2, 3, 5} : Answer(c)
      BY <1>7, Answered
    <2>2. /\ Len(replies') \in Nat /\ Len(replies') > Len(replies)
          /\ \A j \in 1 .. Len(replies) : replies'[j] = replies[j]
          /\ \A j \in 1 .. Len(replies') : j > Len(replies) => replies'[j].code = c
      BY <2>1 DEF Answer, Grown
    <2>3. replies' # <<>> /\ 1 \in 1 .. Len(replies')
      BY <1>5, <2>2
    <2>4. CASE Behind(2, "none")
      <3>1. replies # <<>>
        BY <2>4 DEF Behind
      <3>2. 1 \in 1 .. Len(replies)
        BY <1>5, <3>1
      <3> QED
        BY <2>2, <2>3, <2>4, <3>2 DEF BodyInv, Behind
    <2>5. CASE Addressed /\ srv.env.mode = "data" /\ replies = <<>>
      <3>1. \A j \in 1 .. Len(replies') : replies'[j].code = c
        BY <1>5, <2>2, <2>5
      <3>2. InData(c, srv.env, srv.env')
        BY <2>1, <2>5 DEF Answer
      <3>3. CASE c = 5
        BY <2>3, <3>1, <3>3 DEF BodyInv, Behind
      <3>4. CASE c = 2
        <4> DEFINE d == [env |-> srv.env, body |-> Call]
        <4>1. delivered' = delivered \cup {d}
          BY <2>1, <2>5, <3>4 DEF Answer
        <4>2. \A x \in delivered' : x.body = Call <=> x = d
          BY <1>2, <1>5, <4>1
        <4>3. Of(Call)' = {d}
          BY <1>1, <4>1, <4>2 DEF Of
        <4>4. Left = {}
          BY <1>3 DEF Left
        <4>5. srv.env.from = Call /\ ~srv.env.junk /\ srv.env.rcpts = Everyone(msgs[Call])
          BY <1>1, <1>3, <2>5, <4>4 DEF Addressed
        <4>6. HandedOver(Call)'
          <5>1. d.env.from = Call /\ ~d.env.junk /\ d.env.rcpts = Everyone(msgs[Call])
            BY <4>5
          <5>2. msgs' = msgs /\ Call' = Call
            BY <1>1
          <5> HIDE DEF d
          <5> QED
            BY <4>3, <5>1, <5>2 DEF HandedOver, Of, Everyone
        <4>7. NoEnvelope'
          BY <3>2 DEF InData, Empty, NoEnvelope
        <4> QED
          BY <3>1, <3>4, <4>6, <4>7 DEF BodyInv, Handed, OnlyLines
      <3> QED
        BY <3>2, <3>3, <3>4 DEF InData
    <2>6. ~Starved
      BY <1>7 DEF Starved
    <2> QED
      BY <1>4, <2>4, <2>5, <2>6 DEF BodyDue
  <1> QED
    BY <1>5, <1>6, <1>7

\* The calls that ended are not touched by what is delivered for the current one.
LEMMA SoundKept ==
  ASSUME Inductive, SubmitSound, UNCHANGED <<results, msgs>>, delivered \subseteq delivered',
         \A d \in delivered' : d \in delivered \/ d.body = Call
  PROVE  SubmitSound'
  <1>1. Call \in Nat /\ Call' = Call
    BY Shapes DEF Call
  <1>2. ASSUME NEW k \in 1 .. Call - 1, HandedOver(k) PROVE HandedOver(k)'
    <2>1. k # Call
      BY <1>1
    <2>2. Of(k)' = Of(k)
      BY <2>1 DEF Of
    <2> QED
      BY <1>2, <2>2 DEF HandedOver, Everyone
  <1> QED
    BY <1>1, <1>2 DEF SubmitSound

\* In authenticate() no command gives the server an envelope.
LEMMA SendBetween ==
  ASSUME Inductive, SubmitInv, AllOk, Send, Call = 0
  PROVE  BetweenInv'
  <1>1. state = "busy" /\ todo # <<>> /\ wait' = Head(todo) /\ todo' = Tail(todo)
    BY DEF Send
  <1>2. LoginShape /\ ModeInv /\ BetweenInv
    BY <1>1 DEF SubmitInv
  <1>3. wait'.cmd \notin {"MAIL", "RCPT", "DATA", "BODY"} /\ wait' = todo[1]
    BY <1>1, <1>2, SendShape, StepTaken
  <1>4. /\ Len(replies) \in Nat /\ link \in {"up", "down"}
        /\ srv.env.mode \in {"cmd", "user", "pass", "data"}
    BY Shapes
  <1>5. CASE link = "down"
    <2>1. UNCHANGED <<replies, srv>>
      BY <1>5 DEF Send
    <2> QED
      BY <1>2, <2>1 DEF BetweenInv, NoEnvelope, NoLine
  <1>6. CASE link = "up"
    <2>1. PICK c \in {2, 3, 5} : Answer(c)
      BY <1>6, Answered
    <2>2. /\ Len(replies') \in Nat
          /\ \A j \in 1 .. Len(replies) : replies'[j] = replies[j]
          /\ \A j \in 1 .. Len(replies') : j > Len(replies) => replies'[j].of = wait'.cmd
      BY <2>1 DEF Answer, Grown
    <2>3. srv.env.mode # "data"
      BY <1>2, <1>3, <1>6 DEF ModeInv, Expected
    <2>4. NoEnvelope'
      <3>1. CASE srv.env.mode = "cmd"
        <4>1. /\ srv.env'.junk = srv.env.junk /\ srv.env'.from = srv.env.from
              /\ srv.env'.rcpts = srv.env.rcpts
          BY <1>3, <2>1, <3>1 DEF Answer, InCmd
        <4> QED
          BY <1>2, <4>1 DEF BetweenInv, NoEnvelope
      <3>2. CASE srv.env.mode \in {"user", "pass"}
        BY <1>2, <2>1, <3>2 DEF Answer, InLogin, Empty, BetweenInv, NoEnvelope
      <3> QED
        BY <1>4, <2>3, <3>1, <3>2
    <2>5. NoLine(3, "DATA")'
      <3>1. SUFFICES ASSUME NEW j \in 1 .. Len(replies'), replies'[j].code = 3
                     PROVE  replies'[j].of # "DATA"
        BY DEF NoLine
      <3>2. CASE j \in 1 .. Len(replies)
        BY <1>2, <2>2, <3>1, <3>2 DEF BetweenInv, NoLine
      <3>3. CASE j > Len(replies)
        BY <1>3, <2>2, <3>3
      <3> QED
        BY <1>4, <2>2, <3>2, <3>3
    <2> QED
      BY <2>4, <2>5 DEF BetweenInv
  <1> QED
    BY <1>4, <1>5, <1>6

LEMMA SendKeeps == Inductive /\ SubmitInv /\ Send => SubmitInv'
  <1> SUFFICES ASSUME Inductive, SubmitInv, Send PROVE SubmitInv'
    OBVIOUS
  <1>1. /\ state = "busy" /\ wait = None /\ todo # <<>> /\ wait' = Head(todo) /\ todo' = Tail(todo)
        /\ UNCHANGED <<results, msgs, state, link>> /\ Call' = Call
    BY DEF Send, Call
  <1>2. Call \in Nat /\ wait' # None
    BY <1>1, Shapes, StepTaken
  <1>3. SubmitSound'
    BY <1>1, SendDelivers, SoundKept DEF SubmitInv
  <1>4. todo' # <<>> \/ wait'.cmd \notin {"BODY", "none"} => \A d \in delivered' : d.body < Call'
    BY <1>1, SendDelivers DEF SubmitInv
  <1>5. ASSUME AllOk PROVE /\ ModeInv' /\ StreamInv' /\ (Call = 0 => BetweenInv' /\ LoginShape')
                           /\ Call > 0 => SubmitShape' /\ DialogueInv'
    <2>1. Call = 0 => LoginShape'
      BY <1>1, <1>5, SendShape DEF SubmitInv
    <2>2. ASSUME Call > 0 PROVE SubmitShape' /\ DialogueInv'
      <3>1. SubmitShape' /\ wait'.cmd \in {"MAIL", "RCPT", "DATA", "BODY"}
        BY <1>1, <1>5, <2>2, SendShape DEF SubmitInv
      <3>2. wait'.cmd \in {"MAIL", "RCPT"} => AddressingInv'
        BY <1>5, <2>2, SendAddress
      <3>3. wait'.cmd = "DATA" => DataInv'
        BY <1>5, <2>2, SendData
      <3>4. wait'.cmd = "BODY" => BodyInv'
        BY <1>5, <2>2, SendBody
      <3> QED
        BY <1>2, <3>1, <3>2, <3>3, <3>4 DEF DialogueInv
    <2> QED
      BY <1>5, <2>1, <2>2, SendStream, SendBetween
  <1>6. AllOk' = AllOk
    BY <1>1 DEF AllOk
  <1> QED
    BY <1>1, <1>2, <1>3, <1>4, <1>5, <1>6 DEF SubmitInv

-----------------------------------------------------------------------------
(* Receive *)

\* A line is taken: the rest has the same neighbours and the same end.
LEMMA LineGone ==
  ASSUME Inductive, StreamInv, replies # <<>>, replies' = Tail(replies), UNCHANGED <<srv, link>>
  PROVE  /\ StreamInv' /\ Len(replies) \in Nat /\ Len(replies') \in Nat /\ Len(replies') = Len(replies) - 1
         /\ (replies' = <<>> <=> Len(replies') = 0) /\ Head(replies) = replies[1]
         /\ 1 \in 1 .. Len(replies)
         /\ \A j \in 1 .. Len(replies') : replies'[j] = replies[j + 1] /\ j + 1 \in 1 .. Len(replies)
  <1> DEFINE T == [code : {2, 3, 5}, last : BOOLEAN, of : Commands]
  <1>1. replies \in Seq(T)
    BY Shapes
  <1> HIDE DEF T
  <1>2. /\ Head(replies) = replies[1] /\ Len(replies) \in Nat /\ Len(replies) >= 1
        /\ replies' \in Seq(T) /\ Len(replies') = Len(replies) - 1
        /\ \A j \in 1 .. Len(replies') : replies'[j] = replies[j + 1] /\ j + 1 \in 1 .. Len(replies)
    BY <1>1, FirstAndRest
  <1>3. replies' = <<>> <=> Len(replies') = 0
    BY <1>2, EmptySeq
  <1>4. \A j \in 1 .. Len(replies') : replies'[j].code = 3 => replies'[j].of \in {"AUTH", "USER", "DATA"}
    BY <1>2 DEF StreamInv
  <1>5. ASSUME NEW j \in 1 .. Len(replies') - 1
        PROVE  /\ replies'[j].code = 2 /\ replies'[j + 1].code = 3 => replies'[j + 1].of # "USER"
               /\ replies'[j].code = 3 /\ replies'[j + 1].code = 2 => replies'[j].of # "AUTH"
    <2>1. j \in 1 .. Len(replies') /\ j + 1 \in 1 .. Len(replies') /\ j + 1 \in 1 .. Len(replies) - 1
      BY <1>2
    <2>2. replies'[j] = replies[j + 1] /\ replies'[j + 1] = replies[(j + 1) + 1]
      BY <1>2, <2>1
    <2> QED
      BY <2>1, <2>2 DEF StreamInv
  <1>6. ASSUME link' = "up", replies' # <<>>
        PROVE  LET l == replies'[Len(replies')] IN
               /\ l.last
               /\ IF srv'.env.mode = "cmd" THEN l.code # 3 ELSE l.code = 3 /\ l.of = Opener(srv'.env.mode)
    <2>1. Len(replies') \in 1 .. Len(replies') /\ Len(replies') + 1 = Len(replies)
      BY <1>2, <1>3, <1>6
    <2>2. replies'[Len(replies')] = replies[Len(replies)]
      BY <1>2, <2>1
    <2> QED
      BY <1>6, <2>2 DEF StreamInv
  <1>7. StreamInv'
    BY <1>4, <1>5, <1>6 DEF StreamInv
  <1> QED
    BY <1>2, <1>3, <1>7

\* A call ends: the calls before it are untouched, and what it returned is true.
LEMMA SoundAdded ==
  ASSUME Inductive, SubmitSound, UNCHANGED <<msgs, delivered>>, NEW x \in {"ok", "threw"},
         results' = Append(results, x), x = "ok" /\ AllOk /\ Call > 0 => HandedOver(Call)
  PROVE  SubmitSound' /\ Call \in Nat /\ Call' = Call + 1 /\ AllOk' = (AllOk /\ x = "ok")
  <1>1. /\ Call \in Nat /\ Call' = Call + 1
        /\ results'[Call + 1] = x /\ \A k \in 1 .. Call : results'[k] = results[k]
    BY ResultAdded DEF Inductive
  <1>2. \A k : HandedOver(k)' = HandedOver(k)
    BY DEF HandedOver, Of, Everyone
  <1>3. ASSUME NEW k \in 1 .. Call' - 1, \A j \in 1 .. k + 1 : results'[j] = "ok" PROVE HandedOver(k)'
    <2>1. CASE k \in 1 .. Call - 1
      <3>1. ASSUME NEW j \in 1 .. k + 1 PROVE results[j] = "ok"
        <4>1. j \in 1 .. Call
          BY <1>1, <2>1
        <4> QED
          BY <1>1, <1>3, <4>1
      <3> QED
        BY <1>2, <2>1, <3>1 DEF SubmitSound
    <2>2. CASE k = Call
      <3>1. x = "ok" /\ Call > 0
        BY <1>1, <1>3, <2>2
      <3>2. ASSUME NEW j \in 1 .. Call PROVE results[j] = "ok"
        <4>1. j \in 1 .. k + 1
          BY <1>1, <2>2
        <4> QED
          BY <1>1, <1>3, <4>1
      <3> QED
        BY <1>2, <2>2, <3>1, <3>2 DEF AllOk
    <2> QED
      BY <1>1, <1>3, <2>1, <2>2
  <1>4. AllOk' <=> AllOk /\ x = "ok"
    <2>1. ASSUME AllOk' PROVE AllOk /\ x = "ok"
      <3>1. Call + 1 \in 1 .. Call'
        BY <1>1
      <3>2. x = "ok"
        BY <1>1, <2>1, <3>1 DEF AllOk
      <3>3. ASSUME NEW j \in 1 .. Call PROVE results[j] = "ok"
        <4>1. j \in 1 .. Call'
          BY <1>1
        <4> QED
          BY <1>1, <2>1, <4>1 DEF AllOk
      <3> QED
        BY <3>2, <3>3 DEF AllOk
    <2>2. ASSUME AllOk, x = "ok" PROVE AllOk'
      <3>1. ASSUME NEW j \in 1 .. Call' PROVE results'[j] = "ok"
        <4>1. j \in 1 .. Call \/ j = Call + 1
          BY <1>1
        <4> QED
          BY <1>1, <2>2, <4>1 DEF AllOk
      <3> QED
        BY <3>1 DEF AllOk
    <2> QED
      BY <2>1, <2>2
  <1> QED
    BY <1>1, <1>3, <1>4 DEF SubmitSound, AllOk

\* A line passes while recipients are told.
LEMMA PassAddress ==
  ASSUME Inductive, SubmitInv, AllOk, Call > 0, Receive, Passes(Head(replies)),
         wait' = None, UNCHANGED <<results, state, todo>>, wait.cmd \in {"MAIL", "RCPT"}
  PROVE  AddressingInv'
  <1>1. /\ state = "busy" /\ wait # None /\ replies # <<>> /\ replies' = Tail(replies)
        /\ UNCHANGED <<msgs, link, srv>>
    BY DEF Receive
  <1>2. SubmitShape /\ DialogueInv /\ StreamInv
    BY <1>1, Shapes DEF SubmitInv
  <1>3. AddressingInv
    BY <1>2 DEF DialogueInv
  <1>4. /\ Len(replies) \in Nat /\ Len(replies') \in Nat /\ Len(replies') = Len(replies) - 1
        /\ (replies' = <<>> <=> Len(replies') = 0) /\ Head(replies) = replies[1] /\ 1 \in 1 .. Len(replies)
        /\ \A j \in 1 .. Len(replies') : replies'[j] = replies[j + 1] /\ j + 1 \in 1 .. Len(replies)
    BY <1>1, <1>2, LineGone
  <1>5. NoLine(3, "DATA")'
    BY <1>3, <1>4 DEF AddressingInv, NoLine
  <1>6. ASSUME replies' = <<>>, link = "up" PROVE Addressed'
    <2>1. Len(replies) = 1
      BY <1>4, <1>6
    <2>2. replies[1].last
      BY <1>1, <1>2, <1>6, <2>1 DEF StreamInv
    <2>3. replies[1].code = 2
      BY <1>4, <2>2 DEF Passes, Need, POSITIVE_COMPLETION
    <2>4. OnlyLines(2)
      BY <2>1, <2>3 DEF OnlyLines
    <2>5. Addressed
      BY <1>1, <1>3, <1>6, <2>1, <2>4 DEF AddressingInv
    <2> QED
      BY <1>1, <2>5 DEF Addressed, Left, Everyone, Call
  <1>7. ASSUME Len(todo) = 2, replies' # <<>> PROVE Behind(3, "AUTH")'
    <2>1. wait.cmd = "RCPT"
      BY <1>1, <1>2, <1>7 DEF SubmitShape
    <2>2. replies[1].code = 2
      BY <1>4, <2>1 DEF Passes, Need, POSITIVE_COMPLETION, Lenient
    <2>3. 1 \in 1 .. Len(replies') /\ 1 \in 1 .. Len(replies) - 1 /\ 1 + 1 \in 1 .. Len(replies)
      BY <1>4, <1>7
    <2>4. replies'[1] = replies[1 + 1]
      BY <1>4, <2>3
    <2>5. replies[1 + 1].code = 3 =>
             replies[1 + 1].of # "USER" /\ replies[1 + 1].of # "DATA" /\ replies[1 + 1].of \in {"AUTH", "USER", "DATA"}
      BY <1>2, <1>3, <2>2, <2>3 DEF StreamInv, AddressingInv, NoLine
    <2> QED
      BY <1>7, <2>4, <2>5 DEF Behind
  <1> QED
    BY <1>1, <1>5, <1>6, <1>7 DEF AddressingInv

\* The line that lets the body be sent, and the one that accepts it.
LEMMA PassData ==
  ASSUME Inductive, SubmitInv, AllOk, Call > 0, Receive, Passes(Head(replies)),
         wait' = None, UNCHANGED <<results, state, todo>>
  PROVE  /\ wait.cmd = "DATA" => BodyDue'
         /\ wait.cmd = "BODY" => Handed'
  <1>1. /\ state = "busy" /\ wait # None /\ replies # <<>> /\ replies' = Tail(replies)
        /\ UNCHANGED <<msgs, link, srv, delivered>>
    BY DEF Receive
  <1>2. SubmitShape /\ DialogueInv /\ StreamInv /\ ModeInv
    BY <1>1, Shapes DEF SubmitInv
  <1>3. /\ Len(replies) \in Nat /\ Len(replies') \in Nat /\ Len(replies') = Len(replies) - 1
        /\ (replies' = <<>> <=> Len(replies') = 0) /\ Head(replies) = replies[1] /\ 1 \in 1 .. Len(replies)
        /\ \A j \in 1 .. Len(replies') : replies'[j] = replies[j + 1] /\ j + 1 \in 1 .. Len(replies)
    BY <1>1, <1>2, LineGone
  <1>4. ASSUME wait.cmd = "DATA" PROVE BodyDue'
    <2>1. DataInv /\ replies[1].code = 3
      BY <1>2, <1>3, <1>4 DEF DialogueInv, Passes, Need, POSITIVE_INTERMEDIATE, Lenient
    <2>2. CASE Behind(3, "AUTH")
      <3>1. replies[1].of = "AUTH"
        BY <2>1, <2>2 DEF Behind
      <3>2. CASE replies' = <<>>
        <4>1. SUFFICES ASSUME link = "up" PROVE FALSE
          BY <1>1, <3>2, Shapes DEF BodyDue, Starved
        <4>2. Len(replies) = 1
          BY <1>3, <3>2
        <4>3. srv.env.mode # "cmd" /\ Opener(srv.env.mode) = "AUTH"
          BY <1>1, <1>2, <2>1, <3>1, <4>1, <4>2 DEF StreamInv
        <4>4. srv.env.mode = "user"
          BY <4>3, Shapes DEF Opener
        <4>5. todo # <<>> /\ todo[1].cmd = "USER"
          BY <1>2, <4>1, <4>4 DEF ModeInv, Expected
        <4>6. 1 \in 1 .. Len(todo)
          BY <4>5, Shapes
        <4> QED
          BY <1>2, <4>5, <4>6 DEF SubmitShape
      <3>3. CASE replies' # <<>>
        <4>1. 1 \in 1 .. Len(replies') /\ 1 \in 1 .. Len(replies) - 1
          BY <1>3, <3>3
        <4>2. replies'[1] = replies[1 + 1]
          BY <1>3, <4>1
        <4>3. replies[1 + 1].code # 2
          BY <1>2, <2>1, <3>1, <4>1 DEF StreamInv
        <4> QED
          BY <3>3, <4>2, <4>3 DEF BodyDue, Behind
      <3> QED
        BY <3>2, <3>3
    <2>3. CASE Addressed /\ srv.env.mode = "data" /\ OnlyLines(3)
      <3>1. Addressed' /\ srv'.env.mode = "data"
        BY <1>1, <2>3 DEF Addressed, Left, Everyone, Call
      <3>2. replies' # <<>> => replies'[1].code = 3
        <4>1. replies' # <<>> => 1 \in 1 .. Len(replies')
          BY <1>3
        <4> QED
          BY <1>3, <2>3, <4>1 DEF OnlyLines
      <3> QED
        BY <3>1, <3>2 DEF BodyDue, Behind
    <2> QED
      BY <1>1, <2>1, <2>2, <2>3 DEF DataInv, Starved
  <1>5. ASSUME wait.cmd = "BODY" PROVE Handed'
    <2>1. BodyInv /\ replies[1].code = 2 /\ replies[1].of \in Commands
      BY <1>2, <1>3, <1>5, Shapes DEF DialogueInv, Passes, Need, POSITIVE_COMPLETION, Lenient
    <2>2. Handed
      BY <1>1, <2>1 DEF BodyInv, Starved, Behind, Commands
    <2>3. OnlyLines(2)'
      BY <1>3, <2>2 DEF Handed, OnlyLines
    <2>4. HandedOver(Call)' /\ NoEnvelope'
      BY <1>1, <2>2 DEF Handed, HandedOver, Of, Everyone, NoEnvelope, Call
    <2> QED
      BY <2>3, <2>4 DEF Handed
  <1> QED
    BY <1>4, <1>5

\* A line is read past: EHLO and HELO belong to authenticate().
LEMMA ReadOnKeeps ==
  ASSUME Inductive, SubmitInv, Receive, ReadsOn(Head(replies)), UNCHANGED <<results, state, todo, wait>>
  PROVE  SubmitInv'
  <1>1. /\ state = "busy" /\ wait # None /\ replies # <<>> /\ replies' = Tail(replies)
        /\ UNCHANGED <<msgs, link, srv, delivered>> /\ Call' = Call
    BY DEF Receive, Call
  <1>2. wait.cmd \in {"EHLO", "HELO"}
    BY DEF ReadsOn
  <1>3. SubmitSound'
    BY <1>1, SoundKept DEF SubmitInv
  <1>4. ASSUME AllOk PROVE /\ Call = 0 /\ ModeInv' /\ StreamInv' /\ BetweenInv' /\ LoginShape'
    <2>1. Call = 0
      BY <1>1, <1>2, <1>4, Shapes DEF SubmitInv, SubmitShape
    <2>2. ModeInv /\ StreamInv /\ BetweenInv /\ LoginShape
      BY <1>1, <1>4, <2>1 DEF SubmitInv
    <2>3. /\ StreamInv'
          /\ \A j \in 1 .. Len(replies') : replies'[j] = replies[j + 1] /\ j + 1 \in 1 .. Len(replies)
      BY <1>1, <2>2, LineGone
    <2>4. BetweenInv'
      BY <1>1, <2>2, <2>3 DEF BetweenInv, NoEnvelope, NoLine
    <2>5. ModeInv' /\ LoginShape'
      BY <1>1, <2>2 DEF ModeInv, LoginShape
    <2> QED
      BY <2>1, <2>3, <2>4, <2>5
  <1>5. AllOk' = AllOk
    BY <1>1 DEF AllOk
  <1> QED
    BY <1>1, <1>3, <1>4, <1>5 DEF SubmitInv

LEMMA PassKeeps ==
  ASSUME Inductive, SubmitInv, Receive, Passes(Head(replies)), wait' = None, UNCHANGED <<results, state, todo>>
  PROVE  SubmitInv'
  <1>1. /\ state = "busy" /\ wait # None /\ replies # <<>> /\ replies' = Tail(replies)
        /\ UNCHANGED <<msgs, link, srv, delivered>> /\ Call' = Call
    BY DEF Receive, Call
  <1>2. None.cmd = "none" /\ Call \in Nat
    BY Shapes DEF None, Step
  <1>3. SubmitSound'
    BY <1>1, SoundKept DEF SubmitInv
  <1>4. todo # <<>> => \A d \in delivered' : d.body < Call
    BY <1>1 DEF SubmitInv
  <1>5. ASSUME AllOk
        PROVE  /\ ModeInv' /\ StreamInv' /\ (Call = 0 => BetweenInv' /\ LoginShape')
               /\ Call > 0 => SubmitShape' /\ DialogueInv'
    <2>1. ModeInv /\ StreamInv
      BY <1>1, <1>5 DEF SubmitInv
    <2>2. /\ StreamInv'
          /\ \A j \in 1 .. Len(replies') : replies'[j] = replies[j + 1] /\ j + 1 \in 1 .. Len(replies)
      BY <1>1, <2>1, LineGone
    <2>3. ModeInv'
      BY <1>1, <1>2, <2>1 DEF ModeInv
    <2>4. ASSUME Call = 0 PROVE BetweenInv' /\ LoginShape'
      <3>1. BetweenInv /\ LoginShape
        BY <1>1, <1>5, <2>4 DEF SubmitInv
      <3>2. BetweenInv'
        BY <1>1, <2>2, <3>1 DEF BetweenInv, NoEnvelope, NoLine
      <3>3. LoginShape'
        BY <1>2, <3>1 DEF LoginShape
      <3> QED
        BY <3>2, <3>3
    <2>5. ASSUME Call > 0 PROVE SubmitShape' /\ DialogueInv'
      <3>1. SubmitShape
        BY <1>1, <1>5, <2>5 DEF SubmitInv
      <3>2. SubmitShape'
        BY <1>1, <3>1 DEF SubmitShape
      <3>3. /\ wait.cmd \in {"MAIL", "RCPT", "DATA", "BODY"}
            /\ wait.cmd = "BODY" <=> Len(todo) = 0
            /\ wait.cmd = "DATA" <=> Len(todo) = 1
        BY <1>1, <3>1 DEF SubmitShape
      <3>4. wait.cmd \in {"MAIL", "RCPT"} => AddressingInv'
        BY <1>5, <2>5, PassAddress
      <3>5. /\ wait.cmd = "DATA" => BodyDue'
            /\ wait.cmd = "BODY" => Handed'
        BY <1>5, <2>5, PassData
      <3>6. Len(todo) \in Nat /\ (todo = <<>> <=> Len(todo) = 0)
        BY Shapes
      <3>7. wait'.cmd = "none" /\ wait' = None /\ todo' = todo
        BY <1>2
      <3>8. CASE wait.cmd = "BODY"
        <4>1. Len(todo') = 0 /\ todo' = <<>> /\ Handed'
          BY <3>3, <3>5, <3>6, <3>7, <3>8
        <4> QED
          BY <3>2, <3>7, <4>1 DEF DialogueInv
      <3>9. CASE wait.cmd = "DATA"
        <4>1. Len(todo') = 1 /\ todo' # <<>> /\ BodyDue'
          BY <3>3, <3>5, <3>6, <3>7, <3>9
        <4> QED
          BY <3>2, <3>7, <4>1 DEF DialogueInv
      <3>10. CASE wait.cmd \in {"MAIL", "RCPT"}
        <4>1. Len(todo') # 1 /\ todo' # <<>> /\ AddressingInv'
          BY <3>3, <3>4, <3>6, <3>7, <3>10
        <4> QED
          BY <3>2, <3>7, <4>1 DEF DialogueInv
      <3> QED
        BY <3>3, <3>8, <3>9, <3>10
    <2> QED
      BY <2>2, <2>3, <2>4, <2>5
  <1>6. AllOk' = AllOk
    BY <1>1 DEF AllOk
  <1> QED
    BY <1>1, <1>2, <1>3, <1>4, <1>5, <1>6 DEF SubmitInv

\* EHLO was refused: HELO comes before the steps that are left.
LEMMA HeloKeeps ==
  ASSUME Inductive, SubmitInv, Receive, wait.cmd = "EHLO", wait' = None,
         todo' = <<Step("HELO")>> \o todo, UNCHANGED <<results, state>>
  PROVE  SubmitInv'
  <1>1. /\ state = "busy" /\ wait # None /\ replies # <<>> /\ replies' = Tail(replies)
        /\ UNCHANGED <<msgs, link, srv, delivered>> /\ Call' = Call
    BY DEF Receive, Call
  <1>2. None.cmd = "none" /\ Call \in Nat
    BY Shapes DEF None, Step
  <1>3. SubmitSound'
    BY <1>1, SoundKept DEF SubmitInv
  <1>4. \A d \in delivered' : d.body < Call
    BY <1>1 DEF SubmitInv
  <1>5. ASSUME AllOk PROVE Call = 0 /\ ModeInv' /\ StreamInv' /\ BetweenInv' /\ LoginShape'
    <2>1. Call = 0
      BY <1>1, <1>2, <1>5 DEF SubmitInv, SubmitShape
    <2>2. ModeInv /\ StreamInv /\ BetweenInv /\ LoginShape
      BY <1>1, <1>5, <2>1 DEF SubmitInv
    <2>3. /\ StreamInv'
          /\ \A j \in 1 .. Len(replies') : replies'[j] = replies[j + 1] /\ j + 1 \in 1 .. Len(replies)
      BY <1>1, <2>2, LineGone
    <2>4. BetweenInv'
      BY <1>1, <2>2, <2>3 DEF BetweenInv, NoEnvelope, NoLine
    <2>5. ModeInv'
      <3>1. link = "up" => srv.env.mode = "cmd"
        BY <2>2, Shapes DEF ModeInv, Opener
      <3> QED
        BY <1>1, <3>1 DEF ModeInv
    <2>6. /\ Len(todo) \in Nat /\ Len(todo') = Len(todo) + 1 /\ todo'[1].cmd = "HELO"
          /\ \A k \in 1 .. Len(todo') : k # 1 => todo'[k] = todo[k - 1] /\ k - 1 \in 1 .. Len(todo)
      BY HeloFirst, Shapes
    <2>7. ASSUME NEW j \in 1 .. Len(todo')
          PROVE  /\ todo'[j].cmd \notin {"MAIL", "RCPT", "DATA", "BODY"}
                 /\ todo'[j].cmd = "AUTH" => j < Len(todo') /\ todo'[j + 1].cmd = "USER"
                 /\ todo'[j].cmd = "USER" => j < Len(todo') /\ todo'[j + 1].cmd = "PASS"
      <3>1. CASE j = 1
        BY <2>6, <3>1
      <3>2. CASE j # 1
        <4>1. todo'[j] = todo[j - 1] /\ j - 1 \in 1 .. Len(todo)
          BY <2>6, <3>2
        <4>2. (j - 1 < Len(todo) <=> j < Len(todo')) /\ (j - 1) + 1 = j /\ (j + 1) - 1 = j
          BY <2>6
        <4>3. j < Len(todo') => j + 1 \in 1 .. Len(todo') /\ j + 1 # 1
          BY <2>6
        <4>4. j < Len(todo') => todo'[j + 1] = todo[j]
          BY <2>6, <4>2, <4>3
        <4> QED
          BY <2>2, <4>1, <4>2, <4>4 DEF LoginShape
      <3> QED
        BY <3>1, <3>2
    <2>8. LoginShape'
      BY <1>2, <2>7 DEF LoginShape
    <2> QED
      BY <2>1, <2>3, <2>4, <2>5, <2>8
  <1>6. AllOk' = AllOk
    BY <1>1 DEF AllOk
  <1> QED
    BY <1>1, <1>2, <1>3, <1>4, <1>5, <1>6 DEF SubmitInv

LEMMA ReceiveKeeps == Inductive /\ SubmitInv /\ Receive => SubmitInv'
  <1> SUFFICES ASSUME Inductive, SubmitInv, Receive PROVE SubmitInv'
    OBVIOUS
  <1> DEFINE l == Head(replies)
  <1>1. CASE ReadsOn(l) /\ UNCHANGED <<results, state, todo, wait>>
    BY <1>1, ReadOnKeeps
  <1>2. CASE Passes(l) /\ wait' = None /\ UNCHANGED <<results, state, todo>>
    BY <1>2, PassKeeps
  <1>3. CASE wait.cmd = "EHLO" /\ wait' = None /\ todo' = <<Step("HELO")>> \o todo /\ UNCHANGED <<results, state>>
    BY <1>3, HeloKeeps
  <1>4. CASE Throw
    <2>1. state' = "idle" /\ results' = Append(results, "threw") /\ UNCHANGED <<msgs, delivered>>
      BY <1>4 DEF Throw, Receive
    <2>2. SubmitSound' /\ ~AllOk'
      BY <2>1, SoundAdded DEF SubmitInv
    <2> QED
      BY <2>1, <2>2 DEF SubmitInv
  <1> QED
    BY <1>1, <1>2, <1>3, <1>4 DEF Receive

-----------------------------------------------------------------------------
(* Return and Submit *)

\* A call that returns has nothing left to say, so the server is not waiting for it.
LEMMA ReturnKeeps == Inductive /\ SubmitInv /\ Return => SubmitInv'
  <1> SUFFICES ASSUME Inductive, SubmitInv, Return PROVE SubmitInv'
    OBVIOUS
  <1>1. /\ state = "busy" /\ wait = None /\ todo = <<>> /\ state' = "idle"
        /\ results' = Append(results, "ok")
        /\ UNCHANGED <<msgs, todo, wait, replies, link, srv, delivered>>
    BY DEF Return
  <1>2. AllOk /\ Call > 0 => Handed
    BY <1>1 DEF SubmitInv, DialogueInv
  <1>3. SubmitSound' /\ Call \in Nat /\ Call' = Call + 1 /\ (AllOk' => AllOk)
    BY <1>1, <1>2, SoundAdded DEF SubmitInv, Handed
  <1>4. ASSUME AllOk PROVE ModeInv' /\ StreamInv' /\ BetweenInv'
    <2>1. ModeInv /\ StreamInv /\ (Call = 0 => BetweenInv)
      BY <1>1, <1>4 DEF SubmitInv
    <2>2. BetweenInv
      <3>1. Call > 0 => NoEnvelope /\ OnlyLines(2)
        BY <1>2, <1>4 DEF Handed
      <3> QED
        BY <1>3, <2>1, <3>1 DEF BetweenInv, NoLine, OnlyLines
    <2>3. ModeInv'
      BY <1>1, <2>1 DEF ModeInv
    <2>4. StreamInv'
      BY <1>1, <2>1 DEF StreamInv
    <2>5. BetweenInv'
      BY <1>1, <2>2 DEF BetweenInv, NoEnvelope, NoLine
    <2> QED
      BY <2>3, <2>4, <2>5
  <1>5. Call' # 0
    BY <1>3
  <1> QED
    BY <1>1, <1>3, <1>4, <1>5 DEF SubmitInv

\* The steps of submit() so far: the sender, then the recipients in S.
Telling(p, S) ==
    /\ p \in Seq(Steps) /\ Len(p) \in Nat /\ Len(p) > 0 /\ p[1].cmd = "MAIL"
    /\ \A k \in 1 .. Len(p) : k > 1 => p[k].cmd = "RCPT"
    /\ \A a : a \in S <=> \E k \in 1 .. Len(p) : p[k].cmd = "RCPT" /\ p[k].arg = a
Rcpts(s) == [n \in 1 .. Len(s) |-> [cmd |-> "RCPT", arg |-> s[n]]]

LEMMA RecipientsTold ==
  ASSUME NEW p, NEW S, Telling(p, S), NEW s \in Seq(Addresses)
  PROVE  Telling(p \o Rcpts(s), S \cup Elems(s))
  <1> DEFINE r == Rcpts(s)
             q == p \o r
  <1>1. /\ p \in Seq(Steps) /\ Len(p) \in Nat /\ Len(p) > 0 /\ p[1].cmd = "MAIL"
        /\ \A k \in 1 .. Len(p) : k > 1 => p[k].cmd = "RCPT"
        /\ \A a : a \in S <=> \E k \in 1 .. Len(p) : p[k].cmd = "RCPT" /\ p[k].arg = a
    BY DEF Telling
  <1>2. Len(s) \in Nat /\ \A n \in 1 .. Len(s) : s[n] \in Addresses
    BY ElementOfSeq
  <1>3. \A n \in 1 .. Len(s) : [cmd |-> "RCPT", arg |-> s[n]] \in Steps
    BY <1>2 DEF Steps, Commands
  <1>4. r \in Seq(Steps) /\ Len(r) = Len(s) /\ \A n \in 1 .. Len(s) : r[n].cmd = "RCPT" /\ r[n].arg = s[n]
    BY <1>2, <1>3 DEF Rcpts
  <1> HIDE DEF r
  <1>5. /\ q \in Seq(Steps) /\ Len(q) = Len(p) + Len(s)
        /\ \A k \in 1 .. Len(p) + Len(s) : q[k] = IF k <= Len(p) THEN p[k] ELSE r[k - Len(p)]
    <2>1. p \in Seq(Steps) /\ r \in Seq(Steps)
      BY <1>1, <1>4
    <2>2. /\ p \o r \in Seq(Steps) /\ Len(p \o r) = Len(p) + Len(r)
          /\ \A k \in 1 .. Len(p) + Len(r) : (p \o r)[k] = IF k <= Len(p) THEN p[k] ELSE r[k - Len(p)]
      BY <2>1, ConcatProperties, Zenon
    <2> QED
      BY <1>4, <2>2
  <1> HIDE DEF q
  <1>6. \A k \in 1 .. Len(p) : k \in 1 .. Len(q) /\ q[k] = p[k]
    BY <1>1, <1>2, <1>5
  <1>7. \A n \in 1 .. Len(s) : Len(p) + n \in 1 .. Len(q) /\ q[Len(p) + n] = r[n]
    <2> SUFFICES ASSUME NEW n \in 1 .. Len(s) PROVE Len(p) + n \in 1 .. Len(q) /\ q[Len(p) + n] = r[n]
      OBVIOUS
    <2>1. Len(p) + n \in 1 .. Len(p) + Len(s) /\ ~(Len(p) + n <= Len(p)) /\ (Len(p) + n) - Len(p) = n
      BY <1>1, <1>2
    <2> QED
      BY <1>5, <2>1
  <1>8. \A k \in 1 .. Len(q) : k > Len(p) => k - Len(p) \in 1 .. Len(s) /\ q[k] = r[k - Len(p)]
    BY <1>1, <1>2, <1>5
  <1>9. \A k \in 1 .. Len(q) : k > 1 => q[k].cmd = "RCPT"
    <2> SUFFICES ASSUME NEW k \in 1 .. Len(q), k > 1 PROVE q[k].cmd = "RCPT"
      OBVIOUS
    <2>1. CASE k > Len(p)
      BY <1>4, <1>8, <2>1
    <2>2. CASE k \in 1 .. Len(p)
      BY <1>1, <1>6, <2>2
    <2> QED
      BY <1>1, <2>1, <2>2
  <1>10. ASSUME NEW a
         PROVE  a \in S \cup Elems(s) <=> \E k \in 1 .. Len(q) : q[k].cmd = "RCPT" /\ q[k].arg = a
    <2>1. ASSUME a \in S PROVE \E k \in 1 .. Len(q) : q[k].cmd = "RCPT" /\ q[k].arg = a
      BY <1>1, <1>6, <2>1
    <2>2. ASSUME a \in Elems(s) PROVE \E k \in 1 .. Len(q) : q[k].cmd = "RCPT" /\ q[k].arg = a
      <3>1. PICK n \in 1 .. Len(s) : a = s[n]
        BY <2>2 DEF Elems
      <3> QED
        BY <1>4, <1>7, <3>1
    <2>3. ASSUME NEW k \in 1 .. Len(q), q[k].cmd = "RCPT", q[k].arg = a PROVE a \in S \cup Elems(s)
      <3>1. CASE k > Len(p)
        BY <1>4, <1>8, <2>3, <3>1 DEF Elems
      <3>2. CASE k \in 1 .. Len(p)
        BY <1>1, <1>6, <2>3, <3>2
      <3> QED
        BY <1>1, <3>1, <3>2
    <2> QED
      BY <2>1, <2>2, <2>3
  <1>11. q[1].cmd = "MAIL" /\ Len(q) \in Nat /\ Len(q) > 0
    BY <1>1, <1>2, <1>5, <1>6
  <1>12. Telling(q, S \cup Elems(s))
    BY <1>5, <1>9, <1>10, <1>11 DEF Telling
  <1> QED
    BY <1>12 DEF q, r

\* The steps of submit() for a message with a recipient.
LEMMA SubmitDialogue ==
  ASSUME NEW m \in Messages, Everyone(m) # {}
  PROVE  LET t == submit(m) IN
         /\ Len(t) \in Nat /\ Len(t) > 3 /\ t[1].cmd = "MAIL"
         /\ \A j \in 1 .. Len(t) :
              /\ t[j].cmd \in {"MAIL", "RCPT", "DATA", "BODY"}
              /\ t[j].cmd = "BODY" <=> j = Len(t)
              /\ t[j].cmd = "DATA" <=> j = Len(t) - 1
              /\ t[j].cmd = "MAIL" => j = 1
         /\ {t[j].arg : j \in {n \in 1 .. Len(t) : t[n].cmd = "RCPT"}} = Everyone(m)
  <1> DEFINE to == <<Step("MAIL")>> \o Rcpts(m.to)
             cc == to \o Rcpts(m.cc)
             p == cc \o Rcpts(m.bcc)
             fin == <<Step("DATA"), Step("BODY")>>
             t == p \o fin
  <1>1. m.to \in Seq(Addresses) /\ m.cc \in Seq(Addresses) /\ m.bcc \in Seq(Addresses)
    BY MailerAssumption DEF MailerAssumption
  <1>2. \A c \in Commands : Step(c) \in Steps /\ Step(c).cmd = c
    BY DEF Step, Steps
  <1>3. Telling(<<Step("MAIL")>>, {})
    <2>1. Step("MAIL") \in Steps /\ Step("MAIL").cmd = "MAIL"
      BY <1>2 DEF Commands
    <2> QED
      BY <2>1 DEF Telling
  <1>4. Telling(to, {} \cup Elems(m.to))
    BY <1>1, <1>3, RecipientsTold
  <1> HIDE DEF to
  <1>5. Telling(cc, ({} \cup Elems(m.to)) \cup Elems(m.cc))
    BY <1>1, <1>4, RecipientsTold
  <1> HIDE DEF cc
  <1>6. Telling(p, (({} \cup Elems(m.to)) \cup Elems(m.cc)) \cup Elems(m.bcc))
    BY <1>1, <1>5, RecipientsTold
  <1>7. submit(m) = t
    BY DEF submit, Rcpts, t, p, cc, to
  <1> HIDE DEF p
  <1>8. Telling(p, Everyone(m))
    <2>1. (({} \cup Elems(m.to)) \cup Elems(m.cc)) \cup Elems(m.bcc) = Everyone(m)
      BY DEF Everyone
    <2> QED
      BY <1>6, <2>1
  <1>9. /\ p \in Seq(Steps) /\ Len(p) \in Nat /\ Len(p) > 0 /\ p[1].cmd = "MAIL"
        /\ \A k \in 1 .. Len(p) : k > 1 => p[k].cmd = "RCPT"
        /\ \A a : a \in Everyone(m) <=> \E k \in 1 .. Len(p) : p[k].cmd = "RCPT" /\ p[k].arg = a
    BY <1>8 DEF Telling
  <1>10. Len(p) > 1
    <2>1. PICK a : a \in Everyone(m)
      OBVIOUS
    <2>2. PICK k \in 1 .. Len(p) : p[k].cmd = "RCPT"
      BY <1>9, <2>1
    <2>3. k # 1
      BY <1>9, <2>2
    <2> QED
      BY <1>9, <2>2, <2>3
  <1>11. fin \in Seq(Steps) /\ Len(fin) = 2 /\ fin[1].cmd = "DATA" /\ fin[2].cmd = "BODY"
    BY <1>2 DEF Commands
  <1> HIDE DEF fin
  <1>12. /\ Len(t) = Len(p) + 2
         /\ \A k \in 1 .. Len(p) + 2 : t[k] = IF k <= Len(p) THEN p[k] ELSE fin[k - Len(p)]
    <2>1. p \in Seq(Steps) /\ fin \in Seq(Steps)
      BY <1>9, <1>11
    <2>2. /\ Len(p \o fin) = Len(p) + Len(fin)
          /\ \A k \in 1 .. Len(p) + Len(fin) :
                (p \o fin)[k] = IF k <= Len(p) THEN p[k] ELSE fin[k - Len(p)]
      BY <2>1, ConcatProperties, Zenon
    <2> QED
      BY <1>11, <2>2
  <1> HIDE DEF t
  <1>13. /\ Len(t) \in Nat /\ Len(t) > 3
         /\ \A k \in 1 .. Len(p) : k \in 1 .. Len(t) /\ t[k] = p[k]
         /\ t[Len(t) - 1] = fin[1] /\ t[Len(t)] = fin[2]
    BY <1>9, <1>10, <1>12
  <1>14. \A j \in 1 .. Len(t) : j \in 1 .. Len(p) \/ j = Len(t) - 1 \/ j = Len(t)
    BY <1>9, <1>12
  <1>15. ASSUME NEW j \in 1 .. Len(t)
         PROVE  /\ t[j].cmd \in {"MAIL", "RCPT", "DATA", "BODY"}
                /\ t[j].cmd = "BODY" <=> j = Len(t)
                /\ t[j].cmd = "DATA" <=> j = Len(t) - 1
                /\ t[j].cmd = "MAIL" => j = 1
                /\ t[j].cmd = "RCPT" => j \in 1 .. Len(p)
    <2>1. CASE j \in 1 .. Len(p)
      <3>1. j # Len(t) /\ j # Len(t) - 1
        BY <1>9, <1>12, <2>1
      <3>2. t[j].cmd = (IF j = 1 THEN "MAIL" ELSE "RCPT")
        BY <1>9, <1>13, <2>1
      <3> QED
        BY <2>1, <3>1, <3>2
    <2>2. CASE j = Len(t) - 1
      <3>1. j # Len(t) /\ t[j].cmd = "DATA"
        BY <1>11, <1>13, <2>2
      <3> QED
        BY <2>2, <3>1
    <2>3. CASE j = Len(t)
      <3>1. j # Len(t) - 1 /\ t[j].cmd = "BODY"
        BY <1>11, <1>13, <2>3
      <3> QED
        BY <2>3, <3>1
    <2> QED
      BY <1>14, <2>1, <2>2, <2>3
  <1>16. {t[j].arg : j \in {n \in 1 .. Len(t) : t[n].cmd = "RCPT"}} = Everyone(m)
    <2>1. ASSUME NEW j \in 1 .. Len(t), t[j].cmd = "RCPT" PROVE t[j].arg \in Everyone(m)
      <3>1. j \in 1 .. Len(p)
        BY <1>15, <2>1
      <3>2. p[j].cmd = "RCPT" /\ p[j].arg = t[j].arg
        BY <1>13, <2>1, <3>1
      <3> QED
        BY <1>9, <3>1, <3>2
    <2>2. ASSUME NEW a \in Everyone(m) PROVE \E j \in 1 .. Len(t) : t[j].cmd = "RCPT" /\ t[j].arg = a
      <3>1. PICK k \in 1 .. Len(p) : p[k].cmd = "RCPT" /\ p[k].arg = a
        BY <1>9
      <3> QED
        BY <1>13, <3>1
    <2> QED
      BY <2>1, <2>2
  <1>17. t[1].cmd = "MAIL"
    BY <1>9, <1>13
  <1> QED
    BY <1>7, <1>13, <1>15, <1>16, <1>17

LEMMA SubmitKeeps ==
  ASSUME Recipients, Inductive, SubmitInv, Submit
  PROVE  SubmitInv'
  <1>1. TypeOK /\ CallInv /\ DeliveryInv
    BY DEF Inductive
  <1>2. /\ state = "idle" /\ state' = "busy" /\ Call' = Call
        /\ UNCHANGED <<results, wait, replies, link, srv, delivered>>
    BY DEF Submit, Call
  <1>3. PICK m \in Messages : msgs' = Append(msgs, m) /\ todo' = submit(m)
    BY DEF Submit
  <1>4. wait' = None /\ None.cmd = "none" /\ Call = Len(msgs) + 1 /\ Call \in Nat
    BY <1>1, <1>2, Shapes DEF CallInv, None, Step
  <1>5. /\ Len(msgs) \in Nat /\ Call > 0 /\ msgs'[Call] = m
        /\ \A k \in 1 .. Call - 1 : msgs'[k] = msgs[k]
    <2>1. msgs \in Seq(Messages)
      BY <1>1 DEF TypeOK
    <2> QED
      BY <1>3, <1>4, <2>1, AppendProperties, LenProperties
  <1>6. SubmitSound'
    <2>1. ASSUME NEW k \in 1 .. Call - 1, HandedOver(k) PROVE HandedOver(k)'
      <3>1. Everyone(msgs[k])' = Everyone(msgs[k]) /\ Of(k)' = Of(k)
        BY <1>2, <1>5, <2>1 DEF Everyone, Of
      <3> QED
        BY <1>2, <2>1, <3>1 DEF HandedOver
    <2> QED
      BY <1>2, <2>1 DEF SubmitInv, SubmitSound
  <1>7. \A d \in delivered' : d.body < Call'
    BY <1>1, <1>2 DEF DeliveryInv
  <1>8. /\ Len(todo') \in Nat /\ Len(todo') > 3 /\ todo'[1].cmd = "MAIL"
        /\ \A j \in 1 .. Len(todo') :
             /\ todo'[j].cmd \in {"MAIL", "RCPT", "DATA", "BODY"}
             /\ todo'[j].cmd = "BODY" <=> j = Len(todo')
             /\ todo'[j].cmd = "DATA" <=> j = Len(todo') - 1
             /\ todo'[j].cmd = "MAIL" => j = 1
        /\ {todo'[j].arg : j \in {n \in 1 .. Len(todo') : todo'[n].cmd = "RCPT"}} = Everyone(m)
    BY <1>3, SubmitDialogue DEF Recipients
  <1>9. ASSUME AllOk PROVE ModeInv' /\ StreamInv' /\ SubmitShape' /\ DialogueInv'
    <2>1. ModeInv /\ StreamInv /\ BetweenInv
      BY <1>2, <1>9 DEF SubmitInv
    <2>2. ModeInv' /\ StreamInv'
      BY <1>2, <2>1 DEF ModeInv, StreamInv
    <2>3. SubmitShape'
      BY <1>4, <1>8 DEF SubmitShape
    <2>4. todo' # <<>> /\ Len(todo') # 1 /\ Len(todo') # 2
      BY <1>8
    <2>5. Left' = Everyone(m)
      BY <1>8 DEF Left
    <2>6. Addressed'
      <3>1. srv'.env.rcpts = {} /\ srv'.env.from = 0 /\ ~srv'.env.junk
        BY <1>2, <2>1 DEF BetweenInv, NoEnvelope
      <3>2. Everyone(msgs[Call])' = Everyone(m)
        BY <1>2, <1>5 DEF Everyone
      <3> QED
        BY <1>8, <2>4, <2>5, <3>1, <3>2 DEF Addressed
    <2>7. NoLine(3, "DATA")'
      BY <1>2, <2>1 DEF BetweenInv, NoLine
    <2>8. AddressingInv'
      BY <1>4, <2>4, <2>6, <2>7 DEF AddressingInv
    <2>9. DialogueInv'
      BY <1>4, <2>4, <2>8 DEF DialogueInv
    <2> QED
      BY <2>2, <2>3, <2>9
  <1>10. AllOk' = AllOk
    BY <1>2 DEF AllOk, Call
  <1> QED
    BY <1>2, <1>4, <1>5, <1>6, <1>7, <1>9, <1>10 DEF SubmitInv

-----------------------------------------------------------------------------
(* The other steps *)

\* The handshake is a step of authenticate(); no login has begun when it is due.
LEMMA SslKeeps == Inductive /\ SubmitInv /\ switch_to_ssl => SubmitInv'
  <1> SUFFICES ASSUME Inductive, SubmitInv, switch_to_ssl PROVE SubmitInv'
    OBVIOUS
  <1>1. /\ state = "busy" /\ wait = None /\ todo # <<>> /\ Head(todo).cmd = "SSL" /\ todo' = Tail(todo)
        /\ link' \in {link, "down"} /\ replies' \in {replies, <<>>}
        /\ (replies' # replies => link' = "down") /\ Call' = Call
        /\ UNCHANGED <<results, msgs, state, wait, srv, delivered>>
    BY DEF switch_to_ssl, Call
  <1>2. /\ Head(todo) = todo[1] /\ 1 \in 1 .. Len(todo) /\ Len(todo') \in Nat /\ Len(todo') = Len(todo) - 1
        /\ \A k \in 1 .. Len(todo') : todo'[k] = todo[k + 1] /\ k + 1 \in 1 .. Len(todo)
    BY <1>1, StepTaken
  <1>3. SubmitSound'
    BY <1>1, SoundKept DEF SubmitInv
  <1>4. \A d \in delivered' : d.body < Call
    BY <1>1 DEF SubmitInv
  <1>5. None.cmd = "none" /\ Call \in Nat /\ Len(todo) \in Nat
    BY Shapes DEF None, Step
  <1>6. ASSUME AllOk PROVE Call = 0 /\ ModeInv' /\ StreamInv' /\ BetweenInv' /\ LoginShape'
    <2>1. Call = 0
      <3>1. SUFFICES ASSUME Call > 0 PROVE FALSE
        BY <1>5
      <3>2. SubmitShape
        BY <1>1, <1>6, <3>1 DEF SubmitInv
      <3>3. todo[1].cmd \in {"MAIL", "RCPT", "DATA", "BODY"}
        BY <1>2, <3>2 DEF SubmitShape
      <3> QED
        BY <1>1, <1>2, <3>3
    <2>2. ModeInv /\ StreamInv /\ BetweenInv /\ LoginShape
      BY <1>1, <1>6, <2>1 DEF SubmitInv
    <2>3. link' = "up" => link = "up" /\ replies' = replies
      BY <1>1
    <2>4. link' = "up" => srv'.env.mode = "cmd"
      BY <1>1, <1>2, <2>2, <2>3 DEF ModeInv, Expected
    <2>5. StreamInv'
      <3>1. CASE replies' = replies
        BY <1>1, <2>2, <2>3, <3>1 DEF StreamInv
      <3>2. CASE replies' = <<>>
        BY <3>2 DEF StreamInv
      <3> QED
        BY <1>1, <3>1, <3>2
    <2>6. BetweenInv'
      BY <1>1, <2>2 DEF BetweenInv, NoEnvelope, NoLine
    <2>7. ASSUME NEW j \in 1 .. Len(todo')
          PROVE  /\ todo'[j].cmd \notin {"MAIL", "RCPT", "DATA", "BODY"}
                 /\ todo'[j].cmd = "AUTH" => j < Len(todo') /\ todo'[j + 1].cmd = "USER"
                 /\ todo'[j].cmd = "USER" => j < Len(todo') /\ todo'[j + 1].cmd = "PASS"
      <3>1. todo'[j] = todo[j + 1] /\ j + 1 \in 1 .. Len(todo)
        BY <1>2
      <3>2. j < Len(todo') => todo'[j + 1] = todo[j + 2]
        BY <1>2
      <3>3. (j + 1) + 1 = j + 2 /\ (j + 1 < Len(todo) <=> j < Len(todo'))
        BY <1>2, <1>5
      <3> QED
        BY <2>2, <3>1, <3>2, <3>3 DEF LoginShape
    <2>8. LoginShape'
      BY <1>1, <1>5, <2>7 DEF LoginShape
    <2> QED
      BY <2>1, <2>4, <2>5, <2>6, <2>8 DEF ModeInv
  <1>7. AllOk' = AllOk
    BY <1>1 DEF AllOk
  <1> QED
    BY <1>1, <1>3, <1>4, <1>6, <1>7 DEF SubmitInv

\* The lines that are lost are the last ones: the one that is read next stays, or nothing does.
LEMMA DisconnectKeeps == Inductive /\ SubmitInv /\ Disconnect => SubmitInv'
  <1> SUFFICES ASSUME Inductive, SubmitInv, Disconnect PROVE SubmitInv'
    OBVIOUS
  <1> DEFINE T == [code : {2, 3, 5}, last : BOOLEAN, of : Commands]
  <1>1. /\ link' = "down" /\ Call' = Call
        /\ UNCHANGED <<results, msgs, state, todo, wait, srv, delivered>>
    BY DEF Disconnect, Call
  <1>2. PICK n \in 0 .. Len(replies) : replies' = SubSeq(replies, 1, n)
    BY DEF Disconnect
  <1>3. replies \in Seq(T) /\ Len(replies) \in Nat
    BY Shapes
  <1> HIDE DEF T
  <1>4. /\ replies' \in Seq(T) /\ n \in Nat /\ n <= Len(replies) /\ Len(replies') = n
        /\ \A k \in 1 .. n : k \in 1 .. Len(replies) /\ replies'[k] = replies[k]
    BY <1>2, <1>3, SubSeqProperties
  <1>5. (replies' = <<>> <=> n = 0) /\ (replies = <<>> <=> Len(replies) = 0)
    BY <1>3, <1>4, EmptySeq
  <1>6. SubmitSound'
    BY <1>1, SoundKept DEF SubmitInv
  <1>7. /\ \A c, cmd : NoLine(c, cmd) => NoLine(c, cmd)'
        /\ \A c : OnlyLines(c) => OnlyLines(c)'
    BY <1>4 DEF NoLine, OnlyLines
  <1>8. /\ \A c, cmd : Behind(c, cmd) => Behind(c, cmd)' \/ Starved'
        /\ replies = <<>> => Starved'
    <2>1. replies' # <<>> => 1 \in 1 .. n
      BY <1>4, <1>5
    <2>2. replies' # <<>> => replies'[1] = replies[1]
      BY <1>4, <2>1
    <2>3. replies = <<>> => replies' = <<>>
      BY <1>3, <1>4, <1>5
    <2> QED
      BY <1>1, <2>2, <2>3 DEF Behind, Starved
  <1>9. (Addressed => Addressed') /\ (NoEnvelope => NoEnvelope') /\ (HandedOver(Call) => HandedOver(Call)')
    BY <1>1 DEF Addressed, Left, NoEnvelope, HandedOver, Of, Everyone
  <1>10. ModeInv'
    BY <1>1 DEF ModeInv
  <1>11. ASSUME StreamInv PROVE StreamInv'
    <2>1. \A j \in 1 .. n : replies'[j].code = 3 => replies'[j].of \in {"AUTH", "USER", "DATA"}
      BY <1>4, <1>11 DEF StreamInv
    <2>2. ASSUME NEW j \in 1 .. n - 1
          PROVE  /\ replies'[j].code = 2 /\ replies'[j + 1].code = 3 => replies'[j + 1].of # "USER"
                 /\ replies'[j].code = 3 /\ replies'[j + 1].code = 2 => replies'[j].of # "AUTH"
      <3>1. j \in 1 .. n /\ j + 1 \in 1 .. n /\ j \in 1 .. Len(replies) - 1
        BY <1>3, <1>4
      <3>2. replies'[j] = replies[j] /\ replies'[j + 1] = replies[j + 1]
        BY <1>4, <3>1
      <3> QED
        BY <1>11, <3>1, <3>2 DEF StreamInv
    <2> QED
      BY <1>1, <1>4, <2>1, <2>2 DEF StreamInv
  <1>12. (LoginShape => LoginShape') /\ (SubmitShape => SubmitShape')
    BY <1>1 DEF LoginShape, SubmitShape
  <1>13. Handed => Handed'
    BY <1>1, <1>7, <1>9 DEF Handed
  <1>14. AddressingInv => AddressingInv'
    <2>1. Behind(3, "AUTH") => (replies' # <<>> => Behind(3, "AUTH")')
      BY <1>8 DEF Starved
    <2>2. replies' # <<>> => replies # <<>>
      BY <1>3, <1>4, <1>5
    <2> QED
      BY <1>1, <1>7, <2>1, <2>2 DEF AddressingInv
  <1>15. (DataInv => DataInv') /\ (BodyDue => BodyDue') /\ (BodyInv => BodyInv')
    <2>1. Starved => Starved'
      BY <1>8 DEF Starved
    <2>2. replies' = <<>> => Starved'
      BY <1>1 DEF Starved
    <2>3. DataInv => DataInv'
      BY <1>1, <1>7, <1>8, <1>9, <2>1, <2>2 DEF DataInv
    <2>4. BodyDue => BodyDue'
      BY <1>8, <2>1 DEF BodyDue
    <2>5. BodyInv => BodyInv'
      BY <1>8, <1>13, <2>1 DEF BodyInv
    <2> QED
      BY <2>3, <2>4, <2>5
  <1>16. DialogueInv => DialogueInv'
    BY <1>1, <1>13, <1>14, <1>15 DEF DialogueInv
  <1>17. BetweenInv => BetweenInv'
    BY <1>7, <1>9 DEF BetweenInv
  <1>18. AllOk' = AllOk
    BY <1>1 DEF AllOk
  <1> QED
    BY <1>1, <1>6, <1>10, <1>11, <1>12, <1>16, <1>17, <1>18 DEF SubmitInv

\* ~SMTPMailer(), the call that runs off its end, and no step.
LEMMA EndKeeps == Inductive /\ SubmitInv /\ (Destroy \/ ReceiveFails \/ UNCHANGED vars) => SubmitInv'
  <1> SUFFICES ASSUME Inductive, SubmitInv, Destroy \/ ReceiveFails \/ UNCHANGED vars PROVE SubmitInv'
    OBVIOUS
  <1>1. UNCHANGED <<results, msgs, todo, wait, replies, srv, delivered>> /\ Call' = Call
    BY DEF Destroy, ReceiveFails, vars, Call
  <1>2. SubmitSound'
    BY <1>1, SoundKept DEF SubmitInv
  <1>3. CASE state' \in {"gone", "undefined"}
    BY <1>2, <1>3 DEF SubmitInv
  <1>4. CASE state' = state /\ link' = link
    <2>1. /\ ModeInv' = ModeInv /\ StreamInv' = StreamInv /\ BetweenInv' = BetweenInv
          /\ LoginShape' = LoginShape /\ SubmitShape' = SubmitShape /\ AllOk' = AllOk
      BY <1>1, <1>4 DEF ModeInv, StreamInv, BetweenInv, NoEnvelope, NoLine, LoginShape, SubmitShape, AllOk
    <2>2. /\ Addressed' = Addressed /\ NoEnvelope' = NoEnvelope /\ HandedOver(Call)' = HandedOver(Call)
          /\ Starved' = Starved /\ \A c, cmd : Behind(c, cmd)' = Behind(c, cmd)
          /\ \A c, cmd : NoLine(c, cmd)' = NoLine(c, cmd)
          /\ \A c : OnlyLines(c)' = OnlyLines(c)
      BY <1>1, <1>4 DEF Addressed, Left, NoEnvelope, HandedOver, Of, Everyone, Starved, Behind, NoLine, OnlyLines
    <2>3. Handed' = Handed
      BY <1>1, <2>2 DEF Handed
    <2>4. DialogueInv' = DialogueInv
      BY <1>1, <1>4, <2>2, <2>3 DEF DialogueInv, AddressingInv, DataInv, BodyDue, BodyInv
    <2> QED
      BY <1>1, <1>2, <1>4, <2>1, <2>4 DEF SubmitInv
  <1> QED
    BY <1>3, <1>4 DEF Destroy, ReceiveFails, vars

LEMMA InitKeeps == Init => SubmitInv
  <1> SUFFICES ASSUME Init PROVE SubmitInv
    OBVIOUS
  <1>1. /\ method \in Methods /\ results = <<>> /\ todo = authenticate(method) /\ wait = None
        /\ replies = <<>> /\ delivered = {} /\ state = "busy"
        /\ srv = [authed |-> FALSE, env |-> Idle] /\ Call = 0
    BY DEF Init, Call
  <1>2. None.cmd = "none" /\ srv.env.mode = "cmd" /\ NoEnvelope
    BY <1>1 DEF None, Step, Idle, NoEnvelope
  <1>3. ModeInv /\ StreamInv /\ BetweenInv
    BY <1>1, <1>2 DEF ModeInv, StreamInv, BetweenInv, NoLine
  <1>4. LoginShape
    <2>1. CASE method = "NONE"
      <3>1. todo = <<Step("SSL"), Step("CONNECT"), Step("EHLO")>>
        BY <1>1, <2>1 DEF authenticate
      <3>2. Len(todo) = 3 /\ todo[1].cmd = "SSL" /\ todo[2].cmd = "CONNECT" /\ todo[3].cmd = "EHLO"
        BY <3>1 DEF Step
      <3>3. \A j \in 1 .. Len(todo) : j = 1 \/ j = 2 \/ j = 3
        BY <3>2
      <3>4. \A j \in 1 .. Len(todo) : todo[j].cmd \in {"SSL", "CONNECT", "EHLO"}
        BY <3>2, <3>3
      <3> QED
        BY <1>1, <1>2, <3>4 DEF LoginShape
    <2>2. CASE method # "NONE"
      <3>1. /\ Len(todo) \in Nat /\ Len(todo) > 3
            /\ \A k \in 1 .. Len(todo) :
                 /\ todo[k].cmd = "PASS" <=> k = Len(todo)
                 /\ todo[k].cmd = "USER" <=> k = Len(todo) - 1
                 /\ todo[k].cmd = "AUTH" <=> k = Len(todo) - 2
                 /\ todo[k].cmd \notin {"MAIL", "RCPT", "DATA", "BODY"}
        BY <1>1, <2>2, AuthenticateSteps
      <3>2. ASSUME NEW j \in 1 .. Len(todo), todo[j].cmd = "AUTH" PROVE j < Len(todo) /\ todo[j + 1].cmd = "USER"
        <4>1. j = Len(todo) - 2
          BY <3>1, <3>2
        <4>2. j + 1 \in 1 .. Len(todo) /\ j + 1 = Len(todo) - 1 /\ j < Len(todo)
          BY <3>1, <4>1
        <4> QED
          BY <3>1, <4>2
      <3>3. ASSUME NEW j \in 1 .. Len(todo), todo[j].cmd = "USER" PROVE j < Len(todo) /\ todo[j + 1].cmd = "PASS"
        <4>1. j = Len(todo) - 1
          BY <3>1, <3>3
        <4>2. j + 1 \in 1 .. Len(todo) /\ j + 1 = Len(todo) /\ j < Len(todo)
          BY <3>1, <4>1
        <4> QED
          BY <3>1, <4>2
      <3> QED
        BY <1>1, <1>2, <3>1, <3>2, <3>3 DEF LoginShape
    <2> QED
      BY <2>1, <2>2
  <1>5. SubmitSound
    BY <1>1 DEF SubmitSound
  <1> QED
    BY <1>1, <1>3, <1>4, <1>5 DEF SubmitInv

-----------------------------------------------------------------------------
\* A submit() that returns, when no call before it threw, has handed its message to the server,
\* once and for all of its recipients, whatever the number of lines of the replies, provided
\* that every message has a recipient.
THEOREM SubmitsHandOver == ASSUME Recipients PROVE Spec => []SubmitSound
  <1>1. Init => Inductive /\ SubmitInv
    BY InitInductive, InitKeeps
  <1>2. Inductive /\ SubmitInv /\ [Next]_vars => SubmitInv'
    BY SslKeeps, SendKeeps, ReceiveKeeps, ReturnKeeps, SubmitKeeps, DisconnectKeeps, EndKeeps
       DEF Next, Client
  <1>3. SubmitInv => SubmitSound
    BY DEF SubmitInv
  <1> QED
    BY Invariance, <1>1, <1>2, <1>3, PTL DEF Spec
=============================================================================
