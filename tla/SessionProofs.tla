--------------------------- MODULE SessionProofs ---------------------------
(* The sessions table for every set of routes in which no session undoes what one within  *)
(* it has done, every number of requests in flight and every expiry.                      *)
EXTENDS Session, SequenceTheorems, FiniteSetTheorems, TLAPS

Names == Opening \cup Handlers

\* A session object before it is known which ids and tokens are in use.
Loose == [id : Nat, data : [Keys -> Nat], set_cookie : BOOLEAN, modified : BOOLEAN, by : Names]

-----------------------------------------------------------------------------
\* The first element of a sequence and the rest of it, by index.
LEMMA FirstAndRest ==
  ASSUME NEW S, NEW s \in Seq(S), s # <<>>
  PROVE  /\ Head(s) = s[1] /\ Head(s) \in S /\ Len(s) \in Nat /\ Len(s) >= 1
         /\ Tail(s) \in Seq(S) /\ Len(Tail(s)) = Len(s) - 1
         /\ \A k \in 1 .. Len(Tail(s)) : Tail(s)[k] = s[k + 1] /\ k + 1 \in 1 .. Len(s)
  <1>1. Len(s) \in Nat /\ Len(s) # 0
    BY EmptySeq, LenProperties
  <1>2. Head(s) = s[1] /\ Len(s) >= 1
    BY <1>1
  <1>3. Head(s) \in S /\ Tail(s) \in Seq(S) /\ Len(Tail(s)) = Len(s) - 1
    BY HeadTailProperties
  <1>4. \A k \in 1 .. Len(Tail(s)) : Tail(s)[k] = s[k + 1]
    BY HeadTailProperties
  <1>5. \A k \in 1 .. Len(Tail(s)) : k + 1 \in 1 .. Len(s)
    BY <1>1, <1>3
  <1> QED
    BY <1>1, <1>2, <1>3, <1>4, <1>5

\* The innermost session of a stack and the others.
LEMMA LastAndFront ==
  ASSUME NEW S, NEW s \in Seq(S), s # <<>>
  PROVE  /\ Len(s) \in Nat /\ Len(s) >= 1 /\ Last(s) = s[Len(s)] /\ Last(s) \in S
         /\ Front(s) \in Seq(S) /\ Len(Front(s)) = Len(s) - 1
         /\ \A k \in 1 .. Len(Front(s)) : Front(s)[k] = s[k] /\ k \in 1 .. Len(s) /\ k < Len(s)
  <1>1. Len(s) \in Nat /\ Len(s) >= 1
    <2>1. Len(s) \in Nat /\ Len(s) # 0
      BY EmptySeq, LenProperties
    <2> QED
      BY <2>1
  <1>2. Last(s) = s[Len(s)] /\ Last(s) \in S
    BY <1>1, ElementOfSeq DEF Last
  <1>3. /\ SubSeq(s, 1, Len(s) - 1) \in Seq(S) /\ Len(SubSeq(s, 1, Len(s) - 1)) = Len(s) - 1
        /\ \A k \in 1 .. Len(s) - 1 : SubSeq(s, 1, Len(s) - 1)[k] = s[k]
    <2>0. \A m \in Nat : m >= 1 => m - 1 \in 0 .. m
      OBVIOUS
    <2>1. PICK n \in 0 .. Len(s) : n = Len(s) - 1
      BY <1>1, <2>0, Zenon
    <2>2. /\ SubSeq(s, 1, n) \in Seq(S) /\ Len(SubSeq(s, 1, n)) = n
          /\ \A k \in 1 .. n : SubSeq(s, 1, n)[k] = s[k]
      BY <1>1, SubSeqProperties
    <2> QED
      BY <2>1, <2>2
  <1>4. /\ Front(s) \in Seq(S) /\ Len(Front(s)) = Len(s) - 1
        /\ \A k \in 1 .. Len(s) - 1 : Front(s)[k] = s[k]
    BY <1>3 DEF Front
  <1>5. \A k \in 1 .. Len(Front(s)) : Front(s)[k] = s[k] /\ k \in 1 .. Len(s) /\ k < Len(s)
    BY <1>1, <1>4
  <1> QED
    BY <1>1, <1>2, <1>4, <1>5

\* A stack with one more session.
LEMMA Pushed ==
  ASSUME NEW S, NEW s \in Seq(S), NEW x \in S
  PROVE  /\ Append(s, x) \in Seq(S) /\ Len(s) \in Nat /\ Len(Append(s, x)) = Len(s) + 1
         /\ Append(s, x)[Len(s) + 1] = x /\ Append(s, x) # <<>>
         /\ \A k \in 1 .. Len(s) : Append(s, x)[k] = s[k]
         /\ \A k \in 1 .. Len(s) + 1 : k \in 1 .. Len(s) \/ k = Len(s) + 1
  BY AppendProperties, LenProperties

\* What is in use stays in use when more ids and tokens are generated.
LEMMA Growing ==
  ASSUME Typed, sids' \in Nat, tokens' \in Nat, sids <= sids', tokens <= tokens'
  PROVE  /\ Data \subseteq Data' /\ Cookies \subseteq Cookies' /\ Answers \subseteq Answers'
         /\ Objects \subseteq Objects' /\ Sent \subseteq Sent' /\ Serving \subseteq Serving'
         /\ Seq(Objects) \subseteq Seq(Objects')
         /\ [n : Nat, answer : Answers] \subseteq [n : Nat, answer : Answers']
  <1>1. sids \in Nat /\ tokens \in Nat
    BY DEF Typed
  <1>2. Data \subseteq Data'
    BY <1>1 DEF Data, Keys
  <1>3. Cookies \subseteq Cookies'
    BY <1>1 DEF Cookies
  <1>4. Answers \subseteq Answers'
    BY <1>1, <1>3 DEF Answers
  <1>5. Objects \subseteq Objects'
    BY <1>1, <1>2 DEF Objects
  <1>6. Sent \subseteq Sent'
    BY <1>1 DEF Sent
  <1>7. Serving \subseteq Serving'
    BY <1>1 DEF Serving
  <1>8. Seq(Objects) \subseteq Seq(Objects')
    BY <1>5, SeqMonotonic
  <1> QED
    BY <1>2, <1>3, <1>4, <1>5, <1>6, <1>7, <1>8

\* The sets depend on the counters only.
LEMMA SameSets ==
  ASSUME UNCHANGED <<sids, tokens>>
  PROVE  /\ Data' = Data /\ Cookies' = Cookies /\ Answers' = Answers
         /\ Objects' = Objects /\ Sent' = Sent /\ Serving' = Serving
  BY DEF Data, Cookies, Answers, Objects, Sent, Serving

\* A request that is served is not idle.
LEMMA Phases ==
  ASSUME Typed
  PROVE  /\ cur.phase # "idle" <=> cur # Idle
         /\ cur # Idle <=> cur \in Serving
         /\ cur \in Serving => cur.phase \in {"in", "back", "unwind"}
  BY DEF Typed, Serving, Idle

-----------------------------------------------------------------------------
\* add(), remove() and clear() change the data and nothing else of a session.
LEMMA Updates ==
  ASSUME NEW s \in Loose, NEW key \in Keys, NEW val \in Nat \ {0}
  PROVE  /\ add(s, key, val) \in Loose /\ add(s, key, val).id = s.id
         /\ add(s, key, val).set_cookie = s.set_cookie /\ add(s, key, val).by = s.by
         /\ add(s, key, val).modified /\ add(s, key, val).data[key] # 0
         /\ add(s, key, val).data[key] = IF s.data[key] = 0 THEN val ELSE s.data[key]
         /\ \A k \in Keys \ {key} : add(s, key, val).data[k] = s.data[k]
         /\ remove(s, key) \in Loose /\ remove(s, key).id = s.id
         /\ remove(s, key).set_cookie = s.set_cookie /\ remove(s, key).by = s.by
         /\ remove(s, key).modified /\ remove(s, key).data[key] = 0
         /\ \A k \in Keys \ {key} : remove(s, key).data[k] = s.data[k]
         /\ clear(s) \in Loose /\ clear(s).id = s.id
         /\ clear(s).set_cookie = s.set_cookie /\ clear(s).by = s.by
         /\ clear(s).modified /\ clear(s).data = Empty
  <1>1. s.data \in [Keys -> Nat] /\ Empty \in [Keys -> Nat]
    BY DEF Loose, Empty
  <1>2. /\ add(s, key, val) \in Loose /\ add(s, key, val).id = s.id
        /\ add(s, key, val).set_cookie = s.set_cookie /\ add(s, key, val).by = s.by
        /\ add(s, key, val).modified
        /\ add(s, key, val).data = IF s.data[key] = 0 THEN [s.data EXCEPT ![key] = val] ELSE s.data
    BY <1>1 DEF Loose, add
  <1>3. /\ remove(s, key) \in Loose /\ remove(s, key).id = s.id
        /\ remove(s, key).set_cookie = s.set_cookie /\ remove(s, key).by = s.by
        /\ remove(s, key).modified /\ remove(s, key).data = [s.data EXCEPT ![key] = 0]
    BY <1>1 DEF Loose, remove
  <1>4. /\ clear(s) \in Loose /\ clear(s).id = s.id
        /\ clear(s).set_cookie = s.set_cookie /\ clear(s).by = s.by
        /\ clear(s).modified /\ clear(s).data = Empty
    BY <1>1 DEF Loose, clear
  <1>5. /\ [s.data EXCEPT ![key] = val][key] = val /\ [s.data EXCEPT ![key] = 0][key] = 0
        /\ \A k \in Keys \ {key} : [s.data EXCEPT ![key] = val][k] = s.data[k]
        /\ \A k \in Keys \ {key} : [s.data EXCEPT ![key] = 0][k] = s.data[k]
    BY <1>1
  <1>6. add(s, key, val).data[key] # 0
    BY <1>2, <1>5
  <1>7. \A k \in Keys \ {key} : add(s, key, val).data[k] = s.data[k]
    BY <1>2, <1>5
  <1>8. add(s, key, val).data[key] = IF s.data[key] = 0 THEN val ELSE s.data[key]
    BY <1>2, <1>5
  <1>9. remove(s, key).data[key] = 0 /\ \A k \in Keys \ {key} : remove(s, key).data[k] = s.data[k]
    BY <1>3, <1>5
  <1> QED
    BY <1>2, <1>3, <1>4, <1>6, <1>7, <1>8, <1>9

\* The statements on the table.
LEMMA RowOps ==
  ASSUME NEW t, NEW id, NEW d
  PROVE  /\ DOMAIN write(t, id, d) = DOMAIN t \cup {id}
         /\ write(t, id, d)[id].data = d /\ write(t, id, d)[id].ts = now + Lifetime
         /\ \A i \in DOMAIN t \ {id} : write(t, id, d)[i] = t[i]
         /\ DOMAIN delete(t, id) = DOMAIN t \ {id}
         /\ \A i \in DOMAIN t \ {id} : delete(t, id)[i] = t[i]
         /\ DOMAIN deleteSessions(t) = {i \in DOMAIN t : t[i].ts >= now}
         /\ \A i \in DOMAIN deleteSessions(t) : deleteSessions(t)[i] = t[i]
  BY DEF write, delete, deleteSessions

LEMMA RowWritten ==
  ASSUME NEW id, NEW d, table' = write(table, id, d)
  PROVE  /\ DOMAIN table' = DOMAIN table \cup {id}
         /\ table'[id].data = d /\ table'[id].ts = now + Lifetime
         /\ \A i \in DOMAIN table \ {id} : table'[i] = table[i]
  <1>1. /\ DOMAIN write(table, id, d) = DOMAIN table \cup {id}
        /\ write(table, id, d)[id].data = d /\ write(table, id, d)[id].ts = now + Lifetime
        /\ \A i \in DOMAIN table \ {id} : write(table, id, d)[i] = table[i]
    BY DEF write
  <1> QED
    BY <1>1

LEMMA RowDeleted ==
  ASSUME NEW id, table' = delete(table, id)
  PROVE  /\ DOMAIN table' = DOMAIN table \ {id}
         /\ \A i \in DOMAIN table \ {id} : table'[i] = table[i]
  <1>1. /\ DOMAIN delete(table, id) = DOMAIN table \ {id}
        /\ \A i \in DOMAIN table \ {id} : delete(table, id)[i] = table[i]
    BY RowOps
  <1> QED
    BY <1>1

\* Session::Session gives the row that the cookie names or nothing under a fresh id.
LEMMA CtorSound ==
  ASSUME Typed, cur.phase = "in", cur.todo # <<>>, NEW s \in SessionCtor
  PROVE  /\ s \in Loose /\ s.data \in Data /\ ~s.modified
         /\ s.by = Head(cur.todo) /\ s.by \in Names
         /\ s.set_cookie => s.id = sids + 1 /\ s.data = Empty
         /\ ~s.set_cookie => /\ s.id = cur.cookie /\ s.id \in DOMAIN table
                             /\ table[s.id].ts \in Nat /\ table[s.id].ts > now
                             /\ s.data = table[s.id].data \/ (Faulty /\ s.data = Empty)
  <1>1. cur \in Serving /\ cur.todo \in Seq(Names) /\ cur.cookie \in Nat /\ sids \in Nat
    BY Phases DEF Typed, Serving, Names
  <1>2. Head(cur.todo) \in Names
    BY <1>1, FirstAndRest
  <1>3. Empty \in Data /\ Data \subseteq [Keys -> Nat]
    BY DEF Typed, Data, Empty, Keys
  <1>4. CASE contains(cur.cookie)
    <2>1. PICK d \in {table[cur.cookie].data} \cup (IF Faulty THEN {Empty} ELSE {}) :
             s = [id |-> cur.cookie, data |-> d, set_cookie |-> FALSE,
                  modified |-> FALSE, by |-> Head(cur.todo)]
      BY <1>4 DEF SessionCtor
    <2>2. cur.cookie \in DOMAIN table /\ table[cur.cookie].ts > now
      BY <1>4 DEF contains
    <2>3. table[cur.cookie].data \in Data /\ table[cur.cookie].ts \in Nat
      BY <2>2 DEF Typed
    <2>4. d \in Data /\ (d = table[cur.cookie].data \/ (Faulty /\ d = Empty))
      BY <1>3, <2>1, <2>3
    <2>5. /\ s.id = cur.cookie /\ s.data = d /\ s.set_cookie = FALSE /\ s.modified = FALSE
          /\ s.by = Head(cur.todo)
      BY <2>1
    <2>6. s \in Loose
      BY <1>1, <1>2, <1>3, <2>1, <2>4 DEF Loose
    <2> QED
      BY <1>2, <2>2, <2>3, <2>4, <2>5, <2>6
  <1>5. CASE ~contains(cur.cookie)
    <2>1. s = [id |-> sids + 1, data |-> Empty, set_cookie |-> TRUE,
               modified |-> FALSE, by |-> Head(cur.todo)]
      BY <1>5 DEF SessionCtor
    <2>2. s \in Loose
      BY <1>1, <1>2, <1>3, <2>1 DEF Loose
    <2> QED
      BY <1>2, <1>3, <2>1, <2>2
  <1> QED
    BY <1>4, <1>5
-----------------------------------------------------------------------------
(* The elements of a chain that construct a session.                       *)

Opens ==
    \/ SessionRequireAuth \/ SessionCheckAuth \/ SessionLoginController
    \/ SessionLogoutController \/ CSRFMiddleware \/ SessionHandler

\* How the request goes on: with the rest of the chain, or with none of it.
GoesOn ==
    /\ cur' \in Serving' /\ cur'.phase \in {"in", "back"} /\ cur'.todo \in {Tail(cur.todo), <<>>}
    /\ cur'.method = cur.method /\ cur'.cookie = cur.cookie /\ cur'.first = cur.first

\* What they share: s0 is constructed, changed to s and put on the stack.
Effect(s0, s) ==
    /\ s0 \in SessionCtor /\ Open(s0)
    /\ s \in Loose /\ s.id = s0.id /\ s.set_cookie = s0.set_cookie /\ s.by = s0.by
    /\ stack' = Append(stack, s)
    /\ tokens' \in Nat /\ tokens <= tokens' /\ s.data["csrf_token"] <= tokens'
    /\ ~s.modified => s.data = s0.data
    /\ s.modified /\ s.data # Empty => Writes(cur.method, s.by)
    /\ s.modified /\ s.data = Empty => Empties(s.by)
    /\ GoesOn
    /\ reply' \in {reply, NoReply}
    /\ granted \subseteq granted'
    /\ s.modified /\ s.data["user_id"] # 0 =>
          s.data["user_id"] = s0.data["user_id"] \/ <<s.id, s.data["user_id"]>> \in granted'
    /\ s.by # "page" /\ (s.by = "logout" => s.data["user_id"] = 0)

\* The constructor generates at most one id.
LEMMA OpenSids ==
  ASSUME Typed, cur.phase = "in", cur.todo # <<>>, NEW s \in SessionCtor, Open(s)
  PROVE  /\ sids \in Nat /\ sids' \in Nat /\ sids <= sids' /\ s.id \in 1 .. sids'
         /\ s.set_cookie => sids' = sids + 1
         /\ ~s.set_cookie => sids' = sids
         /\ DOMAIN table' \subseteq DOMAIN table /\ \A i \in DOMAIN table' : table'[i] = table[i]
         /\ \A i \in DOMAIN table : table[i].ts >= now => i \in DOMAIN table'
  <1>1. sids \in Nat /\ DOMAIN table \subseteq 1 .. sids
    BY DEF Typed
  <1>2. /\ s.set_cookie => s.id = sids + 1
        /\ ~s.set_cookie => s.id \in DOMAIN table
    BY CtorSound
  <1>3. sids' = IF s.set_cookie THEN s.id ELSE sids
    BY DEF Open
  <1>4. table' \in {table, deleteSessions(table)}
    BY DEF Open
  <1>5. /\ DOMAIN table' \subseteq DOMAIN table /\ \A i \in DOMAIN table' : table'[i] = table[i]
        /\ \A i \in DOMAIN table : table[i].ts >= now => i \in DOMAIN table'
    <2>1. CASE table' = table
      BY <2>1
    <2>2. CASE table' = deleteSessions(table)
      <3>1. /\ DOMAIN deleteSessions(table) = {i \in DOMAIN table : table[i].ts >= now}
            /\ \A i \in DOMAIN deleteSessions(table) : deleteSessions(table)[i] = table[i]
        BY RowOps
      <3> QED
        BY <2>2, <3>1
    <2> QED
      BY <1>4, <2>1, <2>2
  <1> QED
    BY <1>1, <1>2, <1>3, <1>5

\* The record of the request keeps its shape.
LEMMA RequestGoesOn ==
  ASSUME Typed, cur.phase = "in", cur.todo # <<>>,
         sids' \in Nat, tokens' \in Nat, sids <= sids', tokens <= tokens',
         NEW u \in Nat, NEW t \in 0 .. tokens',
         \/ cur' = [cur EXCEPT !.todo = Tail(@)]
         \/ cur' = [cur EXCEPT !.todo = <<>>, !.phase = "back"]
         \/ cur' = [cur EXCEPT !.todo = Tail(@), !.user = u]
         \/ cur' = [cur EXCEPT !.todo = Tail(@), !.token = t]
  PROVE  GoesOn
  <1>1. cur \in Serving' /\ cur \in Serving
    BY Phases, Growing
  <1>2. cur.todo \in Seq(Names)
    BY <1>1 DEF Serving, Names
  <1>3. Tail(cur.todo) \in Seq(Names) /\ <<>> \in Seq(Names)
    BY <1>2, FirstAndRest, EmptySeq
  <1>4. PICK tl \in Seq(Names) : tl = Tail(cur.todo)
    BY <1>3
  <1>5. CASE cur' = [cur EXCEPT !.todo = tl]
    BY <1>1, <1>4, <1>5 DEF GoesOn, Serving, Names
  <1>6. CASE cur' = [cur EXCEPT !.todo = <<>>, !.phase = "back"]
    BY <1>1, <1>3, <1>6 DEF GoesOn, Serving, Names
  <1>7. CASE cur' = [cur EXCEPT !.todo = tl, !.user = u]
    BY <1>1, <1>4, <1>7 DEF GoesOn, Serving, Names
  <1>8. CASE cur' = [cur EXCEPT !.todo = tl, !.token = t]
    BY <1>1, <1>4, <1>8 DEF GoesOn, Serving, Names
  <1> QED
    BY <1>4, <1>5, <1>6, <1>7, <1>8

\* An element that leaves the session as it is.
LEMMA PlainEffect ==
  ASSUME Typed, cur.phase = "in", cur.todo # <<>>, NEW s \in SessionCtor, Open(s),
         stack' = Append(stack, s), UNCHANGED <<tokens, granted>>, GoesOn, reply' \in {reply, NoReply},
         s.by # "page", s.by = "logout" => s.data["user_id"] = 0
  PROVE  Effect(s, s)
  <1>1. s \in Loose /\ s.data \in Data /\ ~s.modified
    BY CtorSound
  <1>2. tokens' \in Nat /\ tokens <= tokens' /\ s.data["csrf_token"] <= tokens'
    BY <1>1 DEF Typed, Data
  <1> QED
    BY <1>1, <1>2 DEF Effect
\* Every one of the six elements has this effect.
LEMMA OpensEffect ==
  ASSUME Typed, Opens
  PROVE  cur.phase = "in" /\ cur.todo # <<>> /\ \E s0, s : Effect(s0, s)
  <1>1. cur.phase = "in" /\ cur.todo # <<>>
    BY DEF Opens, SessionRequireAuth, SessionCheckAuth, SessionLoginController,
           SessionLogoutController, CSRFMiddleware, SessionHandler, Called
  <1>2. tokens \in Nat /\ tokens <= tokens /\ sids \in Nat /\ 0 \in 0 .. tokens /\ 0 \in Nat
    BY DEF Typed
  <1>3. "user_id" \in Keys /\ "csrf_token" \in Keys /\ "item" \in Keys /\ \A k \in Keys : Empty[k] = 0
    BY DEF Keys, Empty
  <1>4. ASSUME NEW s \in SessionCtor, Open(s)
        PROVE  /\ s \in Loose /\ s.data \in Data /\ s.data \in [Keys -> Nat] /\ s.data["csrf_token"] <= tokens
               /\ ~s.modified /\ s.by = Head(cur.todo)
               /\ sids' \in Nat /\ sids <= sids'
    BY <1>1, <1>4, CtorSound, OpenSids DEF Data
  <1>5. ASSUME NEW s \in SessionCtor, Open(s), UNCHANGED tokens, next(s) \/ forbidden(s)
        PROVE  GoesOn /\ stack' = Append(stack, s) /\ (forbidden(s) => reply' = NoReply)
    <2>1. cur' = [cur EXCEPT !.todo = Tail(@)] \/ cur' = [cur EXCEPT !.todo = <<>>, !.phase = "back"]
      BY <1>5 DEF next, forbidden
    <2>2. GoesOn
      BY <1>1, <1>2, <1>4, <1>5, <2>1, RequestGoesOn
    <2> QED
      BY <1>5, <2>2 DEF next, forbidden
  <1>6. CASE SessionRequireAuth \/ SessionCheckAuth
    <2>1. PICK s \in SessionCtor :
             /\ Open(s) /\ (next(s) \/ forbidden(s))
             /\ forbidden(s) \/ UNCHANGED reply
             /\ UNCHANGED <<tokens, granted>>
      BY <1>6 DEF SessionRequireAuth, SessionCheckAuth
    <2>2. Head(cur.todo) # "logout" /\ Head(cur.todo) # "page"
      BY <1>6 DEF SessionRequireAuth, SessionCheckAuth, Called
    <2>3. Effect(s, s)
      BY <1>1, <1>4, <1>5, <2>1, <2>2, PlainEffect
    <2> QED
      BY <1>1, <2>3
  <1>7. CASE SessionLoginController
    <2>1. PICK s \in SessionCtor :
             /\ Open(s)
             /\ \/ /\ cur.method = "POST"
                   /\ \E user \in Users :
                        /\ stack' = Append(stack, add(s, "user_id", user))
                        /\ cur' = [cur EXCEPT !.todo = Tail(@), !.user = user]
                        /\ granted' = granted \cup {<<s.id, user>>}
                \/ next(s) /\ UNCHANGED granted
      BY <1>7 DEF SessionLoginController
    <2>2. UNCHANGED <<tokens, reply>> /\ Head(cur.todo) = "login"
      BY <1>7 DEF SessionLoginController, Called
    <2>3. CASE next(s) /\ UNCHANGED granted
      <3>1. Effect(s, s)
        BY <1>1, <1>4, <1>5, <2>1, <2>2, <2>3, PlainEffect
      <3> QED
        BY <1>1, <3>1
    <2>4. ASSUME cur.method = "POST", NEW user \in Users,
                 stack' = Append(stack, add(s, "user_id", user)),
                 cur' = [cur EXCEPT !.todo = Tail(@), !.user = user],
                 granted' = granted \cup {<<s.id, user>>}
          PROVE  Effect(s, add(s, "user_id", user))
      <3> DEFINE a == add(s, "user_id", user)
      <3>1. user \in Nat \ {0}
        BY SessionAssumption DEF SessionAssumption
      <3>2. s \in Loose
        BY <1>4, <2>1
      <3>3. /\ a \in Loose /\ a.id = s.id /\ a.set_cookie = s.set_cookie /\ a.by = s.by /\ a.modified
            /\ a.data["user_id"] = IF s.data["user_id"] = 0 THEN user ELSE s.data["user_id"]
            /\ a.data["user_id"] # 0 /\ a.data["csrf_token"] = s.data["csrf_token"]
        BY <1>3, <3>1, <3>2, Updates
      <3>4. GoesOn
        BY <1>1, <1>2, <1>4, <2>1, <2>2, <2>4, <3>1, RequestGoesOn
      <3>5. Writes(cur.method, a.by) /\ a.data # Empty /\ a.by \notin {"logout", "page"}
        BY <1>3, <1>4, <2>1, <2>2, <2>4, <3>3 DEF Writes
      <3>6. a.data["user_id"] = s.data["user_id"] \/ <<a.id, a.data["user_id"]>> \in granted'
        BY <2>4, <3>3
      <3>7. a.data["csrf_token"] <= tokens' /\ tokens' \in Nat /\ tokens <= tokens'
        BY <1>2, <1>4, <2>1, <2>2, <3>3
      <3> HIDE DEF a
      <3>8. Effect(s, a)
        BY <2>1, <2>2, <2>4, <3>3, <3>4, <3>5, <3>6, <3>7 DEF Effect, a
      <3> QED
        BY <3>8 DEF a
    <2> QED
      BY <1>1, <2>1, <2>3, <2>4
  <1>8. CASE SessionLogoutController
    <2>1. PICK s \in SessionCtor :
             Open(s) /\ next(IF s.data["user_id"] # 0 THEN remove(s, "user_id") ELSE s)
      BY <1>8 DEF SessionLogoutController
    <2>2. UNCHANGED <<tokens, reply, granted>> /\ Head(cur.todo) = "logout"
      BY <1>8 DEF SessionLogoutController, Called
    <2>3. CASE s.data["user_id"] = 0
      <3>1. next(s)
        BY <2>1, <2>3
      <3>2. Effect(s, s)
        BY <1>1, <1>4, <1>5, <2>1, <2>2, <2>3, <3>1, PlainEffect
      <3> QED
        BY <1>1, <3>2
    <2>4. CASE s.data["user_id"] # 0
      <3> DEFINE a == remove(s, "user_id")
      <3>1. stack' = Append(stack, a) /\ cur' = [cur EXCEPT !.todo = Tail(@)]
        BY <2>1, <2>4 DEF next
      <3>2. s \in Loose /\ 1 \in Nat \ {0}
        BY <1>4, <2>1
      <3>3. /\ a \in Loose /\ a.id = s.id /\ a.set_cookie = s.set_cookie /\ a.by = s.by /\ a.modified
            /\ a.data["user_id"] = 0 /\ a.data["csrf_token"] = s.data["csrf_token"]
        BY <1>3, <3>2, Updates
      <3>4. GoesOn
        BY <1>1, <1>2, <1>4, <2>1, <2>2, <3>1, RequestGoesOn
      <3>5. Writes(cur.method, a.by) /\ Empties(a.by) /\ a.by # "page"
        BY <1>4, <2>1, <2>2, <3>3 DEF Writes, Empties
      <3>6. a.data["csrf_token"] <= tokens' /\ tokens' \in Nat /\ tokens <= tokens'
        BY <1>2, <1>4, <2>1, <2>2, <3>3
      <3> HIDE DEF a
      <3>7. Effect(s, a)
        BY <2>1, <2>2, <3>1, <3>3, <3>4, <3>5, <3>6 DEF Effect
      <3> QED
        BY <1>1, <3>7
    <2> QED
      BY <2>3, <2>4
  <1>9. CASE CSRFMiddleware
    <2>1. PICK s \in SessionCtor :
             /\ Open(s)
             /\ \/ cur.method = "GET" /\ ensure_session_has_token(s) /\ UNCHANGED reply
                \/ forbidden(s) /\ UNCHANGED tokens
                \/ /\ stack' = Append(stack, s)
                   /\ cur' = [cur EXCEPT !.todo = Tail(@), !.token = cur.submitted]
                   /\ UNCHANGED <<tokens, reply>>
      BY <1>9 DEF CSRFMiddleware
    <2>2. UNCHANGED granted /\ Head(cur.todo) = "csrf"
      BY <1>9 DEF CSRFMiddleware, Called
    <2>3. CASE forbidden(s) /\ UNCHANGED tokens
      <3>1. Effect(s, s)
        BY <1>1, <1>4, <1>5, <2>1, <2>2, <2>3, PlainEffect
      <3> QED
        BY <1>1, <3>1
    <2>4. ASSUME NEW t \in 0 .. tokens, stack' = Append(stack, s), UNCHANGED <<tokens, reply>>,
                 cur' = [cur EXCEPT !.todo = Tail(@), !.token = t]
          PROVE  Effect(s, s)
      <3>1. GoesOn
        BY <1>1, <1>2, <1>4, <2>1, <2>4, RequestGoesOn
      <3> QED
        BY <1>1, <1>4, <2>1, <2>2, <2>4, <3>1, PlainEffect
    <2>5. CASE cur.method = "GET" /\ ensure_session_has_token(s) /\ UNCHANGED reply
      <3>1. CASE /\ stack' = Append(stack, s) /\ UNCHANGED tokens
                 /\ cur' = [cur EXCEPT !.todo = Tail(@), !.token = s.data["csrf_token"]]
        <4>1. s.data["csrf_token"] \in 0 .. tokens
          BY <1>2, <1>3, <1>4, <2>1
        <4>2. Effect(s, s)
          BY <2>4, <2>5, <3>1, <4>1
        <4> QED
          BY <1>1, <4>2
      <3>2. CASE /\ tokens' = tokens + 1 /\ stack' = Append(stack, add(s, "csrf_token", tokens'))
                 /\ s.data["csrf_token"] = 0
                 /\ cur' = [cur EXCEPT !.todo = Tail(@), !.token = tokens']
        <4>1. PICK t \in Nat \ {0} : t = tokens'
          BY <1>2, <3>2
        <4> DEFINE a == add(s, "csrf_token", t)
        <4>2. s \in Loose
          BY <1>4, <2>1
        <4>3. /\ a \in Loose /\ a.id = s.id /\ a.set_cookie = s.set_cookie /\ a.by = s.by /\ a.modified
              /\ a.data["csrf_token"] = IF s.data["csrf_token"] = 0 THEN t ELSE s.data["csrf_token"]
              /\ a.data["csrf_token"] # 0 /\ a.data["user_id"] = s.data["user_id"]
          BY <1>3, <4>1, <4>2, Updates
        <4>4. t \in 0 .. tokens' /\ tokens' \in Nat /\ tokens <= tokens' /\ a.data["csrf_token"] <= tokens'
          BY <1>2, <3>2, <4>1, <4>3
        <4>5. GoesOn
          BY <1>1, <1>2, <1>4, <2>1, <3>2, <4>1, <4>4, RequestGoesOn
        <4>6. Writes(cur.method, a.by) /\ a.data # Empty /\ a.by \notin {"logout", "page"}
          BY <1>3, <1>4, <2>1, <2>2, <2>5, <4>3 DEF Writes
        <4> HIDE DEF a
        <4>7. Effect(s, a)
          BY <2>1, <2>2, <2>5, <3>2, <4>1, <4>3, <4>4, <4>5, <4>6 DEF Effect, a
        <4> QED
          BY <1>1, <4>7
      <3> QED
        BY <2>5, <3>1, <3>2 DEF ensure_session_has_token
    <2>6. CASE /\ stack' = Append(stack, s)
               /\ cur' = [cur EXCEPT !.todo = Tail(@), !.token = cur.submitted]
               /\ UNCHANGED <<tokens, reply>>
      <3>1. cur.submitted \in 0 .. tokens
        BY <1>1, Phases DEF Serving
      <3>2. Effect(s, s)
        BY <2>4, <2>6, <3>1
      <3> QED
        BY <1>1, <3>2
    <2> QED
      BY <2>1, <2>3, <2>5, <2>6
  <1>10. CASE SessionHandler
    <2>1. UNCHANGED <<tokens, reply, granted>>
      BY <1>10 DEF SessionHandler
    <2>2. CASE Called("store") /\ \E s \in SessionCtor : Open(s) /\ next(add(s, "item", 1))
      <3>1. PICK s \in SessionCtor : Open(s) /\ next(add(s, "item", 1))
        BY <2>2
      <3> DEFINE a == add(s, "item", 1)
      <3>2. s \in Loose /\ 1 \in Nat \ {0} /\ Head(cur.todo) = "store"
        BY <1>4, <2>2, <3>1 DEF Called
      <3>3. /\ a \in Loose /\ a.id = s.id /\ a.set_cookie = s.set_cookie /\ a.by = s.by /\ a.modified
            /\ a.data["item"] # 0 /\ a.data["csrf_token"] = s.data["csrf_token"]
            /\ a.data["user_id"] = s.data["user_id"]
        BY <1>3, <3>2, Updates
      <3>4. stack' = Append(stack, a) /\ cur' = [cur EXCEPT !.todo = Tail(@)]
        BY <3>1 DEF next
      <3>5. GoesOn
        BY <1>1, <1>2, <1>4, <2>1, <3>1, <3>4, RequestGoesOn
      <3>6. Writes(cur.method, a.by) /\ a.data # Empty /\ a.by \notin {"logout", "page"}
        BY <1>3, <1>4, <3>1, <3>2, <3>3 DEF Writes
      <3>7. a.data["csrf_token"] <= tokens' /\ tokens' \in Nat /\ tokens <= tokens'
        BY <1>2, <1>4, <2>1, <3>1, <3>3
      <3> HIDE DEF a
      <3>8. Effect(s, a)
        BY <2>1, <3>1, <3>3, <3>4, <3>5, <3>6, <3>7 DEF Effect
      <3> QED
        BY <1>1, <3>8
    <2>3. CASE Called("clear") /\ \E s \in SessionCtor : Open(s) /\ next(clear(s))
      <3>1. PICK s \in SessionCtor : Open(s) /\ next(clear(s))
        BY <2>3
      <3> DEFINE a == clear(s)
      <3>2. s \in Loose /\ 1 \in Nat \ {0} /\ Head(cur.todo) = "clear"
        BY <1>4, <2>3, <3>1 DEF Called
      <3>3. /\ a \in Loose /\ a.id = s.id /\ a.set_cookie = s.set_cookie /\ a.by = s.by /\ a.modified
            /\ a.data = Empty
        BY <1>3, <3>2, Updates
      <3>4. stack' = Append(stack, a) /\ cur' = [cur EXCEPT !.todo = Tail(@)]
        BY <3>1 DEF next
      <3>5. GoesOn
        BY <1>1, <1>2, <1>4, <2>1, <3>1, <3>4, RequestGoesOn
      <3>6. Empties(a.by) /\ a.by \notin {"logout", "page"}
        BY <1>4, <3>1, <3>2, <3>3 DEF Empties
      <3>7. a.data["csrf_token"] = 0 /\ a.data["user_id"] = 0
        BY <1>3, <3>3
      <3>8. a.data["csrf_token"] <= tokens' /\ tokens' \in Nat /\ tokens <= tokens'
        BY <1>2, <2>1, <3>7
      <3> HIDE DEF a
      <3>9. Effect(s, a)
        BY <2>1, <3>1, <3>3, <3>4, <3>5, <3>6, <3>7, <3>8 DEF Effect
      <3> QED
        BY <1>1, <3>9
    <2> QED
      BY <1>10, <2>2, <2>3 DEF SessionHandler
  <1> QED
    BY <1>6, <1>7, <1>8, <1>9, <1>10 DEF Opens
\* The stack and the request after one of them.
LEMMA OpenTyped ==
  ASSUME Typed, cur.phase = "in", cur.todo # <<>>, NEW s0, NEW s, Effect(s0, s)
  PROVE  /\ Typed' /\ cur \in Serving /\ cur' \in Serving' /\ cur' # Idle
         /\ Len(stack) \in Nat /\ Len(stack') = Len(stack) + 1 /\ stack'[Len(stack) + 1] = s
         /\ \A k \in 1 .. Len(stack) : stack'[k] = stack[k] /\ stack[k] \in Objects
         /\ \A k \in 1 .. Len(stack') : k \in 1 .. Len(stack) \/ k = Len(stack) + 1
  <1>1. /\ s0 \in SessionCtor /\ Open(s0) /\ s \in Loose /\ s.id = s0.id /\ stack' = Append(stack, s)
        /\ tokens' \in Nat /\ tokens <= tokens' /\ s.data["csrf_token"] <= tokens'
        /\ cur' \in Serving' /\ reply' \in {reply, NoReply}
    BY DEF Effect, GoesOn
  <1>2. /\ sids \in Nat /\ sids' \in Nat /\ sids <= sids' /\ s.id \in 1 .. sids'
        /\ DOMAIN table' \subseteq DOMAIN table /\ \A i \in DOMAIN table' : table'[i] = table[i]
    BY <1>1, OpenSids
  <1>3. UNCHANGED <<now, jar, page, sent, flight, outbox, removed>>
    BY <1>1 DEF Open
  <1>4. s \in Objects'
    BY <1>1, <1>2 DEF Objects, Loose, Names, Data
  <1>5. /\ Data \subseteq Data' /\ Cookies \subseteq Cookies' /\ Answers \subseteq Answers'
        /\ Sent \subseteq Sent' /\ Seq(Objects) \subseteq Seq(Objects')
        /\ [n : Nat, answer : Answers] \subseteq [n : Nat, answer : Answers']
    BY <1>1, <1>2, Growing
  <1>6. stack \in Seq(Objects) /\ stack \in Seq(Objects')
    BY <1>5 DEF Typed
  <1>7. /\ stack' \in Seq(Objects') /\ Len(stack) \in Nat /\ Len(stack') = Len(stack) + 1
        /\ stack'[Len(stack) + 1] = s
        /\ \A k \in 1 .. Len(stack) : stack'[k] = stack[k]
        /\ \A k \in 1 .. Len(stack) + 1 : k \in 1 .. Len(stack) \/ k = Len(stack) + 1
    BY <1>1, <1>4, <1>6, Pushed
  <1>8. \A k \in 1 .. Len(stack) : stack[k] \in Objects
    BY <1>6, ElementOfSeq
  <1>9. cur' # Idle /\ cur \in Serving
    <2>1. cur'.phase \in {"in", "back", "unwind"}
      BY <1>1 DEF Serving
    <2> QED
      BY <2>1, Phases DEF Idle
  <1>10. reply' \in Answers'
    <2>1. NoReply \in Answers'
      BY <1>1 DEF NoReply, Answers
    <2> QED
      BY <1>1, <1>5, <2>1 DEF Typed
  <1>11. \A i \in DOMAIN table' : table'[i].data \in Data' /\ table'[i].ts \in Nat
    BY <1>2, <1>5 DEF Typed
  <1>12. page' \in 0 .. tokens' /\ jar' \in Cookies' /\ DOMAIN table' \subseteq 1 .. sids'
         /\ removed' \subseteq 1 .. sids' /\ flight' \subseteq Sent'
         /\ outbox' \subseteq [n : Nat, answer : Answers']
    BY <1>1, <1>2, <1>3, <1>5 DEF Typed
  <1>13. Typed'
    BY <1>1, <1>2, <1>3, <1>7, <1>9, <1>10, <1>11, <1>12 DEF Typed
  <1> QED
    BY <1>1, <1>7, <1>8, <1>9, <1>13

\* The session goes where the element was in the chain.
LEMMA OpenChain ==
  ASSUME Typed, ChainInv, cur.phase = "in", cur.todo # <<>>, NEW s0, NEW s, Effect(s0, s)
  PROVE  ChainInv'
  <1>1. /\ cur \in Serving /\ cur' \in Serving'
        /\ Len(stack) \in Nat /\ Len(stack') = Len(stack) + 1 /\ stack'[Len(stack) + 1] = s
        /\ \A k \in 1 .. Len(stack) : stack'[k] = stack[k]
        /\ \A k \in 1 .. Len(stack') : k \in 1 .. Len(stack) \/ k = Len(stack) + 1
    BY OpenTyped
  <1>2. s.by = Head(cur.todo) /\ cur'.method = cur.method /\ cur'.todo \in {Tail(cur.todo), <<>>}
    BY CtorSound DEF Effect, GoesOn
  <1>3. cur.todo \in Seq(Names) /\ cur # Idle
    BY <1>1, Phases DEF Serving, Names
  <1>4. /\ Head(cur.todo) = cur.todo[1] /\ Len(cur.todo) \in Nat /\ Len(cur.todo) >= 1
        /\ Len(Tail(cur.todo)) = Len(cur.todo) - 1
        /\ \A k \in 1 .. Len(Tail(cur.todo)) : Tail(cur.todo)[k] = cur.todo[k + 1] /\ k + 1 \in 1 .. Len(cur.todo)
    BY <1>3, FirstAndRest
  <1>5. PICK r \in Routes :
            /\ cur.method = r.method
            /\ Len(stack) + Len(cur.todo) <= Len(r.chain)
            /\ \A k \in 1 .. Len(stack) : stack[k].by = r.chain[k]
            /\ \A k \in 1 .. Len(cur.todo) : cur.todo[k] = r.chain[Len(stack) + k]
    BY <1>3 DEF ChainInv
  <1>6. s.by = r.chain[Len(stack) + 1]
    BY <1>2, <1>4, <1>5
  <1>7. \A k \in 1 .. Len(stack') : stack'[k].by = r.chain[k]
    BY <1>1, <1>5, <1>6
  <1>8. CASE cur'.todo = <<>>
    <2>1. Len(cur'.todo) = 0
      BY <1>8
    <2>2. Len(stack') + Len(cur'.todo) <= Len(r.chain)
      BY <1>1, <1>4, <1>5, <2>1
    <2>3. \A k \in 1 .. Len(cur'.todo) : cur'.todo[k] = r.chain[Len(stack') + k]
      BY <2>1
    <2> QED
      BY <1>2, <1>5, <1>7, <2>2, <2>3 DEF ChainInv
  <1>9. CASE cur'.todo = Tail(cur.todo)
    <2>1. PICK tl : tl = Tail(cur.todo) /\ tl = cur'.todo
      BY <1>9
    <2>2. /\ Len(tl) = Len(cur.todo) - 1
          /\ \A k \in 1 .. Len(tl) : tl[k] = cur.todo[k + 1] /\ k + 1 \in 1 .. Len(cur.todo)
      BY <1>4, <2>1
    <2>3. Len(stack') + Len(tl) <= Len(r.chain)
      <3>1. \A a, b \in Nat : b >= 1 => (a + 1) + (b - 1) = a + b
        OBVIOUS
      <3>2. Len(stack') + Len(tl) = Len(stack) + Len(cur.todo)
        BY <1>1, <1>4, <2>2, <3>1
      <3> QED
        BY <1>5, <3>2
    <2>4. ASSUME NEW k \in 1 .. Len(tl) PROVE tl[k] = r.chain[Len(stack') + k]
      <3>1. tl[k] = r.chain[Len(stack) + (k + 1)]
        BY <1>5, <2>2
      <3>2. Len(stack) + (k + 1) = Len(stack') + k
        BY <1>1
      <3> QED
        BY <3>1, <3>2
    <2>5. /\ Len(stack') + Len(cur'.todo) <= Len(r.chain)
          /\ \A k \in 1 .. Len(cur'.todo) : cur'.todo[k] = r.chain[Len(stack') + k]
      BY <2>1, <2>3, <2>4, Zenon
    <2>6. cur'.method = r.method
      BY <1>2, <1>5
    <2> QED
      BY <1>7, <2>5, <2>6, Zenon DEF ChainInv
  <1> QED
    BY <1>2, <1>8, <1>9

\* The new session is one of the cookie's row, or has an id that nothing else has.
LEMMA OpenObjects ==
  ASSUME TableInv, cur.phase = "in", cur.todo # <<>>, NEW s0, NEW s, Effect(s0, s)
  PROVE  RowsNonEmpty' /\ ObjectInv' /\ WriterInv' /\ NeverResurrected'
  <1>1. Typed /\ RowsNonEmpty /\ ObjectInv /\ WriterInv /\ NeverResurrected
    BY DEF TableInv
  <1>2. /\ cur \in Serving /\ cur' \in Serving' /\ cur' # Idle
        /\ Len(stack) \in Nat /\ Len(stack') = Len(stack) + 1 /\ stack'[Len(stack) + 1] = s
        /\ \A k \in 1 .. Len(stack) : stack'[k] = stack[k] /\ stack[k] \in Objects
        /\ \A k \in 1 .. Len(stack') : k \in 1 .. Len(stack) \/ k = Len(stack) + 1
    BY <1>1, OpenTyped
  <1>3. /\ s0 \in SessionCtor /\ Open(s0) /\ s.id = s0.id /\ s.set_cookie = s0.set_cookie
        /\ ~s.modified => s.data = s0.data
        /\ s.modified /\ s.data # Empty => Writes(cur.method, s.by)
        /\ s.modified /\ s.data = Empty => Empties(s.by)
        /\ s.by # "page" /\ s.set_cookie \in BOOLEAN
        /\ cur'.method = cur.method /\ cur'.cookie = cur.cookie /\ cur'.first = cur.first
    BY DEF Effect, GoesOn, Loose
  <1>4. /\ s.set_cookie => s.id = sids + 1 /\ s0.data = Empty
        /\ ~s.set_cookie => /\ s.id = cur.cookie /\ s.id \in DOMAIN table
                            /\ s0.data = table[s.id].data \/ (Faulty /\ s0.data = Empty)
    BY <1>1, <1>3, CtorSound
  <1>5. /\ sids \in Nat /\ DOMAIN table' \subseteq DOMAIN table /\ \A i \in DOMAIN table' : table'[i] = table[i]
    BY <1>1, <1>3, OpenSids
  <1>6. /\ cur.first \in Nat /\ cur.first <= sids /\ cur.cookie \in Nat /\ cur.cookie <= cur.first
        /\ DOMAIN table \subseteq 1 .. sids /\ removed \subseteq 1 .. sids /\ removed' = removed
    <2>1. cur.first \in 0 .. sids /\ cur.cookie \in 0 .. sids /\ cur # Idle
      BY <1>1, <1>2, Phases DEF Serving
    <2>2. cur.cookie <= cur.first
      BY <1>1, <2>1 DEF ObjectInv
    <2>3. DOMAIN table \subseteq 1 .. sids /\ removed \subseteq 1 .. sids /\ removed' = removed
      BY <1>1, <1>3 DEF Typed, Open
    <2> QED
      BY <1>5, <2>1, <2>2, <2>3
  <1>7. RowsNonEmpty' /\ NeverResurrected'
    BY <1>1, <1>5, <1>6 DEF RowsNonEmpty, NeverResurrected
  <1>8. WriterInv'
    <2>1. s.id \notin removed
      <3>1. CASE s.set_cookie
        BY <1>4, <1>5, <1>6, <3>1
      <3>2. CASE ~s.set_cookie
        BY <1>1, <1>4, <3>2 DEF NeverResurrected
      <3> QED
        BY <3>1, <3>2
    <2> QED
      BY <1>1, <1>2, <1>3, <1>6, <2>1 DEF WriterInv
  <1>9. ASSUME NEW k \in 1 .. Len(stack)
        PROVE  /\ stack[k].id \in Nat /\ stack[k].id <= sids /\ stack[k].set_cookie \in BOOLEAN
               /\ stack[k].set_cookie => s.id # stack[k].id
               /\ s.set_cookie => s.id # stack[k].id
    <2>1. stack[k].id \in Nat /\ stack[k].id <= sids /\ stack[k].set_cookie \in BOOLEAN
      BY <1>2 DEF Objects
    <2>2. stack[k].set_cookie => stack[k].id > cur.first
      BY <1>1 DEF ObjectInv
    <2> QED
      BY <1>3, <1>4, <1>5, <1>6, <2>1, <2>2
  <1>10. ~s.set_cookie /\ s.data = Empty => Empties(s.by)
    <2>1. CASE s.modified
      BY <1>3, <2>1
    <2>2. CASE ~s.modified /\ ~s.set_cookie /\ s.data = Empty
      <3>1. Faulty
        BY <1>1, <1>3, <1>4, <2>2 DEF RowsNonEmpty
      <3> QED
        BY <1>3, <3>1 DEF Empties
    <2> QED
      BY <2>1, <2>2
  <1>11. ASSUME NEW k \in 1 .. Len(stack')
         PROVE  LET x == stack'[k] IN
                /\ x.set_cookie => /\ x.id > cur'.first /\ x.id \notin DOMAIN table'
                                   /\ \A j \in 1 .. Len(stack') : j # k => stack'[j].id # x.id
                /\ ~x.set_cookie => x.id = cur'.cookie
                /\ x.set_cookie /\ ~x.modified => x.data = Empty
                /\ x.modified /\ x.data # Empty => Writes(cur'.method, x.by)
                /\ ~x.set_cookie /\ x.data = Empty => Empties(x.by)
    <2>1. CASE k = Len(stack) + 1
      <3>1. stack'[k] = s
        BY <1>2, <2>1
      <3>2. s.set_cookie => s.id > cur'.first /\ s.id \notin DOMAIN table'
        BY <1>3, <1>4, <1>5, <1>6
      <3>3. s.set_cookie => \A j \in 1 .. Len(stack') : j # k => stack'[j].id # s.id
        BY <1>2, <1>9, <2>1
      <3> QED
        BY <1>3, <1>4, <1>10, <3>1, <3>2, <3>3
    <2>2. CASE k \in 1 .. Len(stack)
      <3>1. stack'[k] = stack[k]
        BY <1>2, <2>2
      <3>2. stack[k].set_cookie => \A j \in 1 .. Len(stack') : j # k => stack'[j].id # stack[k].id
        BY <1>1, <1>2, <1>9, <2>2 DEF ObjectInv
      <3>3. stack[k].set_cookie => stack[k].id > cur'.first /\ stack[k].id \notin DOMAIN table'
        BY <1>1, <1>3, <1>5, <2>2 DEF ObjectInv
      <3>4. /\ ~stack[k].set_cookie => stack[k].id = cur'.cookie
            /\ stack[k].set_cookie /\ ~stack[k].modified => stack[k].data = Empty
            /\ stack[k].modified /\ stack[k].data # Empty => Writes(cur'.method, stack[k].by)
            /\ ~stack[k].set_cookie /\ stack[k].data = Empty => Empties(stack[k].by)
        BY <1>1, <1>3, <2>2 DEF ObjectInv
      <3> QED
        BY <3>1, <3>2, <3>3, <3>4
    <2> QED
      BY <1>2, <2>1, <2>2
  <1>12. ObjectInv'
    BY <1>3, <1>6, <1>11 DEF ObjectInv
  <1> QED
    BY <1>7, <1>8, <1>12
-----------------------------------------------------------------------------
(* Session::~Session.                                                      *)

\* The stack and the request after a destructor.
LEMMA DtorStack ==
  ASSUME Typed, SessionDtor
  PROVE  /\ cur \in Serving /\ cur' \in Serving /\ cur # Idle /\ cur' # Idle
         /\ cur.todo = <<>> /\ cur'.todo = <<>> /\ cur'.phase # "in"
         /\ cur'.phase = "unwind" <=> cur.phase = "unwind"
         /\ cur'.method = cur.method /\ cur'.cookie = cur.cookie /\ cur'.first = cur.first
         /\ cur'.user = cur.user /\ cur'.token = cur.token
         /\ stack # <<>> /\ Len(stack) \in Nat /\ Len(stack) >= 1 /\ Len(stack) \in 1 .. Len(stack)
         /\ Last(stack) = stack[Len(stack)] /\ Last(stack) \in Objects
         /\ stack' \in Seq(Objects) /\ Len(stack') = Len(stack) - 1
         /\ \A k \in 1 .. Len(stack') : stack'[k] = stack[k] /\ k \in 1 .. Len(stack) /\ k < Len(stack)
         /\ UNCHANGED <<now, sids, tokens, jar, page, sent, flight, outbox>>
  <1>1. /\ cur.phase # "idle" /\ cur.todo = <<>> /\ stack # <<>> /\ stack' = Front(stack)
        /\ cur' = [cur EXCEPT !.phase = IF @ = "in" THEN "back" ELSE @]
        /\ UNCHANGED <<now, sids, tokens, jar, page, sent, flight, outbox>>
    BY DEF SessionDtor
  <1>2. cur \in Serving /\ cur # Idle /\ cur.phase \in {"in", "back", "unwind"}
    BY <1>1, Phases
  <1>3. /\ cur' \in Serving /\ cur'.todo = cur.todo /\ cur'.method = cur.method
        /\ cur'.cookie = cur.cookie /\ cur'.first = cur.first /\ cur'.user = cur.user
        /\ cur'.token = cur.token /\ cur'.phase = IF cur.phase = "in" THEN "back" ELSE cur.phase
    BY <1>1, <1>2 DEF Serving
  <1>4. cur' # Idle
    BY <1>2, <1>3 DEF Idle
  <1>5. stack \in Seq(Objects)
    BY DEF Typed
  <1>6. /\ Len(stack) \in Nat /\ Len(stack) >= 1
        /\ Last(stack) = stack[Len(stack)] /\ Last(stack) \in Objects
        /\ stack' \in Seq(Objects) /\ Len(stack') = Len(stack) - 1
        /\ \A k \in 1 .. Len(stack') : stack'[k] = stack[k] /\ k \in 1 .. Len(stack) /\ k < Len(stack)
    BY <1>1, <1>5, LastAndFront
  <1>7. \A n \in Nat : n >= 1 => n \in 1 .. n
    OBVIOUS
  <1>8. Len(stack) \in 1 .. Len(stack)
    BY <1>6, <1>7
  <1> QED
    BY <1>1, <1>2, <1>3, <1>4, <1>6, <1>8

\* What a destructor does to the table and to the header.
LEMMA DtorEffect ==
  ASSUME SessionDtor
  PROVE  LET s == Last(stack) IN
         /\ \/ UNCHANGED <<table, removed>>
            \/ s.modified /\ s.data # Empty /\ table' = write(table, s.id, s.data) /\ UNCHANGED removed
            \/ /\ ~s.set_cookie /\ s.data = Empty
               /\ table' = delete(table, s.id) /\ removed' = removed \cup {s.id}
         /\ \/ UNCHANGED reply
            \/ s.set_cookie /\ s.data # Empty /\ SetCookie(s.id, now + Lifetime)
            \/ ~s.set_cookie /\ s.data = Empty /\ SetCookie(0, 0)
  <1> DEFINE s == Last(stack)
  <1>1. CASE s.data = Empty
    <2>1. Invalidate(s)
      BY <1>1 DEF SessionDtor
    <2> QED
      BY <1>1, <2>1 DEF Invalidate
  <1>2. CASE s.data # Empty
    <2>1. Persist(s)
      BY <1>2 DEF SessionDtor
    <2> QED
      BY <1>2, <2>1 DEF Persist
  <1> QED
    BY <1>1, <1>2

\* A header names an id that was generated.
LEMMA CookieSet ==
  ASSUME Typed, NEW id \in 0 .. sids, NEW e \in 0 .. MaxTime + Lifetime, SetCookie(id, e)
  PROVE  /\ reply' \in Answers /\ reply'.cookies = {[id |-> id, expires |-> e]}
         /\ reply'.token = reply.token
  <1>1. reply \in Answers
    BY DEF Typed
  <1>2. [id |-> id, expires |-> e] \in Cookies
    BY DEF Cookies
  <1>3. reply' = [reply EXCEPT !.cookies = {[id |-> id, expires |-> e]}]
    BY DEF SetCookie
  <1>4. reply'.cookies = {[id |-> id, expires |-> e]} /\ reply'.token = reply.token
    BY <1>1, <1>3 DEF Answers
  <1>5. {[id |-> id, expires |-> e]} \in {{}} \cup {{c} : c \in Cookies}
    BY <1>2
  <1>6. reply' \in Answers
    BY <1>1, <1>3, <1>5 DEF Answers
  <1> QED
    BY <1>4, <1>6

LEMMA DtorTyped ==
  ASSUME Typed, SessionDtor
  PROVE  Typed'
  <1> DEFINE s == Last(stack)
  <1>1. /\ cur' \in Serving /\ cur' # Idle /\ s \in Objects /\ stack' \in Seq(Objects)
        /\ UNCHANGED <<now, sids, tokens, jar, page, sent, flight, outbox>>
    BY DtorStack
  <1>2. /\ Data' = Data /\ Cookies' = Cookies /\ Answers' = Answers
        /\ Objects' = Objects /\ Sent' = Sent /\ Serving' = Serving
    BY <1>1, SameSets
  <1>3. /\ now \in 0 .. MaxTime /\ MaxTime \in Nat /\ Lifetime \in Nat /\ sids \in Nat
        /\ now + Lifetime \in 0 .. MaxTime + Lifetime /\ 0 \in 0 .. MaxTime + Lifetime
        /\ now + Lifetime \in Nat
    BY SessionAssumption DEF SessionAssumption, Typed
  <1>4. s.id \in 1 .. sids /\ s.id \in 0 .. sids /\ 0 \in 0 .. sids /\ s.data \in Data
    BY <1>1, <1>3 DEF Objects
  <1>5. /\ DOMAIN table' \subseteq 1 .. sids /\ removed' \subseteq 1 .. sids
        /\ \A i \in DOMAIN table' : table'[i].data \in Data /\ table'[i].ts \in Nat
    <2>1. /\ DOMAIN table \subseteq 1 .. sids /\ removed \subseteq 1 .. sids
          /\ \A i \in DOMAIN table : table[i].data \in Data /\ table[i].ts \in Nat
      BY DEF Typed
    <2>2. CASE UNCHANGED <<table, removed>>
      BY <2>1, <2>2
    <2>3. CASE table' = write(table, s.id, s.data) /\ UNCHANGED removed
      <3>1. /\ DOMAIN table' = DOMAIN table \cup {s.id}
            /\ table'[s.id].data = s.data /\ table'[s.id].ts = now + Lifetime
            /\ \A i \in DOMAIN table \ {s.id} : table'[i] = table[i]
        BY <2>3, RowWritten
      <3> QED
        BY <1>3, <1>4, <2>1, <2>3, <3>1
    <2>4. CASE table' = delete(table, s.id) /\ removed' = removed \cup {s.id}
      <3>1. /\ DOMAIN table' = DOMAIN table \ {s.id}
            /\ \A i \in DOMAIN table \ {s.id} : table'[i] = table[i]
        BY <2>4, RowDeleted
      <3> QED
        BY <1>4, <2>1, <2>4, <3>1
    <2> QED
      BY <2>2, <2>3, <2>4, DtorEffect
  <1>6. reply' \in Answers
    <2>1. CASE UNCHANGED reply
      BY <2>1 DEF Typed
    <2>2. CASE SetCookie(s.id, now + Lifetime)
      BY <1>3, <1>4, <2>2, CookieSet
    <2>3. CASE SetCookie(0, 0)
      BY <1>3, <1>4, <2>3, CookieSet
    <2> QED
      BY <2>1, <2>2, <2>3, DtorEffect
  <1> QED
    BY <1>1, <1>2, <1>5, <1>6 DEF Typed

\* A destructor takes the last element of what was called of the chain.
LEMMA DtorChain ==
  ASSUME Typed, ChainInv, SessionDtor
  PROVE  ChainInv'
  <1>1. /\ cur # Idle /\ cur.todo = <<>> /\ cur'.todo = <<>> /\ cur'.method = cur.method
        /\ Len(stack) \in Nat /\ Len(stack') = Len(stack) - 1 /\ Len(stack) >= 1
        /\ \A k \in 1 .. Len(stack') : stack'[k] = stack[k] /\ k \in 1 .. Len(stack)
    BY DtorStack
  <1>2. PICK r \in Routes :
            /\ cur.method = r.method
            /\ Len(stack) + Len(cur.todo) <= Len(r.chain)
            /\ \A k \in 1 .. Len(stack) : stack[k].by = r.chain[k]
    BY <1>1 DEF ChainInv
  <1>3. Len(cur.todo) = 0 /\ Len(cur'.todo) = 0
    BY <1>1
  <1>4. Len(r.chain) \in Nat
    BY SessionAssumption, LenProperties DEF SessionAssumption
  <1>5. Len(stack') + Len(cur'.todo) <= Len(r.chain)
    <2>1. \A a, b \in Nat : a >= 1 /\ a + 0 <= b => (a - 1) + 0 <= b
      OBVIOUS
    <2> QED
      BY <1>1, <1>2, <1>3, <1>4, <2>1
  <1>6. \A k \in 1 .. Len(cur'.todo) : cur'.todo[k] = r.chain[Len(stack') + k]
    BY <1>3
  <1> QED
    BY <1>1, <1>2, <1>5, <1>6 DEF ChainInv

\* The route of the request that is served.
LEMMA RouteOf ==
  ASSUME Typed, ChainInv, cur # Idle
  PROVE  \E r \in Routes :
            /\ cur.method = r.method /\ Len(r.chain) \in Nat /\ Len(stack) \in Nat /\ Len(cur.todo) \in Nat
            /\ \A k \in 1 .. Len(stack) : k \in 1 .. Len(r.chain) /\ stack[k].by = r.chain[k]
            /\ \A k \in 1 .. Len(cur.todo) :
                 Len(stack) + k \in 1 .. Len(r.chain) /\ cur.todo[k] = r.chain[Len(stack) + k]
            /\ Len(stack) + Len(cur.todo) <= Len(r.chain)
  <1>1. PICK r \in Routes :
            /\ cur.method = r.method
            /\ Len(stack) + Len(cur.todo) <= Len(r.chain)
            /\ \A k \in 1 .. Len(stack) : stack[k].by = r.chain[k]
            /\ \A k \in 1 .. Len(cur.todo) : cur.todo[k] = r.chain[Len(stack) + k]
    BY DEF ChainInv
  <1>2. Len(r.chain) \in Nat
    BY SessionAssumption, LenProperties DEF SessionAssumption
  <1>3. stack \in Seq(Objects) /\ cur.todo \in Seq(Names)
    BY Phases DEF Typed, Serving, Names
  <1>4. Len(stack) \in Nat /\ Len(cur.todo) \in Nat
    BY <1>3, LenProperties
  <1>5. \A a, b, c \in Nat : a + b <= c =>
           (\A k \in 1 .. a : k \in 1 .. c) /\ (\A k \in 1 .. b : a + k \in 1 .. c)
    OBVIOUS
  <1>6. /\ \A k \in 1 .. Len(stack) : k \in 1 .. Len(r.chain)
        /\ \A k \in 1 .. Len(cur.todo) : Len(stack) + k \in 1 .. Len(r.chain)
    BY <1>1, <1>2, <1>4, <1>5
  <1> QED
    BY <1>1, <1>2, <1>4, <1>6

\* The sessions that are left when the innermost one has ended.
LEMMA FewerObjects ==
  ASSUME ObjectInv, cur # Idle, cur'.method = cur.method, cur'.cookie = cur.cookie, cur'.first = cur.first,
         \A k \in 1 .. Len(stack') : stack'[k] = stack[k] /\ k \in 1 .. Len(stack),
         \A k \in 1 .. Len(stack') : stack[k].set_cookie => stack[k].id \notin DOMAIN table'
  PROVE  ObjectInv'
  <1>1. cur'.cookie <= cur'.first
    BY DEF ObjectInv
  <1>2. ASSUME NEW k \in 1 .. Len(stack')
        PROVE  LET x == stack'[k] IN
               /\ x.set_cookie => /\ x.id > cur'.first /\ x.id \notin DOMAIN table'
                                  /\ \A j \in 1 .. Len(stack') : j # k => stack'[j].id # x.id
               /\ ~x.set_cookie => x.id = cur'.cookie
               /\ x.set_cookie /\ ~x.modified => x.data = Empty
               /\ x.modified /\ x.data # Empty => Writes(cur'.method, x.by)
               /\ ~x.set_cookie /\ x.data = Empty => Empties(x.by)
    <2>1. PICK x : x = stack[k] /\ x = stack'[k] /\ k \in 1 .. Len(stack)
      OBVIOUS
    <2>2. /\ x.set_cookie => /\ x.id > cur.first
                             /\ \A j \in 1 .. Len(stack) : j # k => stack[j].id # x.id
          /\ ~x.set_cookie => x.id = cur.cookie
          /\ x.set_cookie /\ ~x.modified => x.data = Empty
          /\ x.modified /\ x.data # Empty => Writes(cur.method, x.by)
          /\ ~x.set_cookie /\ x.data = Empty => Empties(x.by)
      BY <2>1 DEF ObjectInv
    <2>3. x.set_cookie => x.id \notin DOMAIN table'
      BY <2>1
    <2>4. x.set_cookie => \A j \in 1 .. Len(stack') : j # k => stack'[j].id # x.id
      BY <2>2
    <2> QED
      BY <2>1, <2>2, <2>3, <2>4
  <1> QED
    BY <1>1, <1>2 DEF ObjectInv

\* No destructor brings back a row or deletes one that will be written.
LEMMA DtorObjects ==
  ASSUME RoutesOrdered, TableInv, SessionDtor
  PROVE  RowsNonEmpty' /\ ObjectInv' /\ WriterInv' /\ NeverResurrected'
  <1> DEFINE s == Last(stack)
             n == Len(stack)
  <1>1. Typed /\ RowsNonEmpty /\ ChainInv /\ ObjectInv /\ WriterInv /\ NeverResurrected
    BY DEF TableInv
  <1>2. /\ cur # Idle /\ cur'.method = cur.method /\ cur'.cookie = cur.cookie /\ cur'.first = cur.first
        /\ n \in Nat /\ n \in 1 .. n /\ s = stack[n] /\ s \in Objects /\ Len(stack') = n - 1
        /\ \A k \in 1 .. Len(stack') : stack'[k] = stack[k] /\ k \in 1 .. n /\ k < n
    BY <1>1, DtorStack
  <1>3. /\ s.set_cookie => s.id \notin DOMAIN table
        /\ s.modified /\ s.data # Empty => Writes(cur.method, s.by)
        /\ ~s.set_cookie /\ s.data = Empty => Empties(s.by)
        /\ \A k \in 1 .. Len(stack') : stack[k].set_cookie => stack[k].id # s.id
    <2>1. \A k \in 1 .. Len(stack') : k # n
      BY <1>2
    <2> QED
      BY <1>1, <1>2, <2>1 DEF ObjectInv
  <1>4. Writes(cur.method, s.by) => s.id \notin removed
    BY <1>1, <1>2 DEF WriterInv
  <1>5. \A k \in 1 .. Len(stack') : Empties(s.by) => ~Writes(cur.method, stack[k].by)
    <2>1. PICK r \in Routes :
             /\ cur.method = r.method
             /\ \A k \in 1 .. n : k \in 1 .. Len(r.chain) /\ stack[k].by = r.chain[k]
      BY <1>1, <1>2, RouteOf
    <2>2. ASSUME NEW k \in 1 .. Len(stack'), Empties(s.by) PROVE ~Writes(cur.method, stack[k].by)
      <3>1. k \in 1 .. Len(r.chain) /\ n \in 1 .. Len(r.chain) /\ k < n /\ k \in 1 .. n
        BY <1>2, <2>1
      <3>2. stack[k].by = r.chain[k] /\ s.by = r.chain[n]
        BY <1>2, <2>1, <3>1
      <3>3. Writes(r.method, r.chain[k]) => ~Empties(r.chain[n])
        BY <3>1 DEF RoutesOrdered
      <3> QED
        BY <2>1, <2>2, <3>2, <3>3
    <2> QED
      BY <2>2
  <1>6. CASE UNCHANGED <<table, removed>>
    <2>1. RowsNonEmpty' /\ NeverResurrected'
      BY <1>1, <1>6 DEF RowsNonEmpty, NeverResurrected
    <2>2. ObjectInv'
      <3>1. \A k \in 1 .. Len(stack') : stack[k].set_cookie => stack[k].id \notin DOMAIN table'
        BY <1>1, <1>2, <1>6 DEF ObjectInv
      <3> QED
        BY <1>1, <1>2, <3>1, FewerObjects
    <2>3. WriterInv'
      BY <1>1, <1>2, <1>6 DEF WriterInv
    <2> QED
      BY <2>1, <2>2, <2>3
  <1>7. CASE s.modified /\ s.data # Empty /\ table' = write(table, s.id, s.data) /\ UNCHANGED removed
    <2>1. /\ DOMAIN table' = DOMAIN table \cup {s.id} /\ table'[s.id].data = s.data
          /\ \A i \in DOMAIN table \ {s.id} : table'[i] = table[i]
      BY <1>7, RowWritten
    <2>2. RowsNonEmpty'
      BY <1>1, <1>7, <2>1 DEF RowsNonEmpty
    <2>3. NeverResurrected'
      BY <1>1, <1>3, <1>4, <1>7, <2>1 DEF NeverResurrected
    <2>4. ObjectInv'
      <3>1. \A k \in 1 .. Len(stack') : stack[k].set_cookie => stack[k].id \notin DOMAIN table
        BY <1>1, <1>2 DEF ObjectInv
      <3>2. \A k \in 1 .. Len(stack') : stack[k].set_cookie => stack[k].id \notin DOMAIN table'
        BY <1>3, <2>1, <3>1
      <3> QED
        BY <1>1, <1>2, <3>2, FewerObjects
    <2>5. WriterInv'
      BY <1>1, <1>2, <1>7 DEF WriterInv
    <2> QED
      BY <2>2, <2>3, <2>4, <2>5
  <1>8. CASE /\ ~s.set_cookie /\ s.data = Empty
             /\ table' = delete(table, s.id) /\ removed' = removed \cup {s.id}
    <2>1. /\ DOMAIN table' = DOMAIN table \ {s.id}
          /\ \A i \in DOMAIN table \ {s.id} : table'[i] = table[i]
      BY <1>8, RowDeleted
    <2>2. RowsNonEmpty'
      BY <1>1, <2>1 DEF RowsNonEmpty
    <2>3. NeverResurrected'
      BY <1>1, <1>8, <2>1 DEF NeverResurrected
    <2>4. ObjectInv'
      <3>1. \A k \in 1 .. Len(stack') : stack[k].set_cookie => stack[k].id \notin DOMAIN table
        BY <1>1, <1>2 DEF ObjectInv
      <3>2. \A k \in 1 .. Len(stack') : stack[k].set_cookie => stack[k].id \notin DOMAIN table'
        BY <2>1, <3>1
      <3> QED
        BY <1>1, <1>2, <3>2, FewerObjects
    <2>5. WriterInv'
      BY <1>2, <1>3, <1>5, <1>8 DEF WriterInv
    <2> QED
      BY <2>2, <2>3, <2>4, <2>5
  <1> QED
    BY <1>6, <1>7, <1>8, DtorEffect
-----------------------------------------------------------------------------
(* The other steps leave the table and the sessions that are open alone.   *)

\* A request that is still served, with no more elements of its chain.
Ends(p) ==
    /\ cur' = [cur EXCEPT !.todo = <<>>, !.phase = p]
    /\ UNCHANGED <<table, removed, stack, sids, tokens>>

LEMMA EndsRequest ==
  ASSUME Typed, cur.phase = "in", NEW p \in {"back", "unwind"}, Ends(p)
  PROVE  /\ cur \in Serving /\ cur' \in Serving /\ cur # Idle /\ cur' # Idle /\ cur'.phase = p
         /\ cur'.todo = <<>> /\ Len(cur'.todo) = 0
         /\ cur'.method = cur.method /\ cur'.cookie = cur.cookie /\ cur'.first = cur.first
         /\ cur'.user = cur.user /\ cur'.token = cur.token
  <1>1. cur \in Serving /\ cur # Idle
    BY Phases
  <1>2. <<>> \in Seq(Opening \cup Handlers)
    BY EmptySeq
  <1>3. /\ cur' \in Serving /\ cur'.phase = p /\ cur'.todo = <<>>
        /\ cur'.method = cur.method /\ cur'.cookie = cur.cookie /\ cur'.first = cur.first
        /\ cur'.user = cur.user /\ cur'.token = cur.token
    BY <1>1, <1>2 DEF Ends, Serving
  <1>4. cur' # Idle
    BY <1>3 DEF Idle
  <1> QED
    BY <1>1, <1>3, <1>4

LEMMA EndsSound ==
  ASSUME TableInv, cur.phase = "in", NEW p \in {"back", "unwind"}, Ends(p)
  PROVE  RowsNonEmpty' /\ ChainInv' /\ ObjectInv' /\ WriterInv' /\ NeverResurrected'
  <1>1. Typed /\ RowsNonEmpty /\ ChainInv /\ ObjectInv /\ WriterInv /\ NeverResurrected
    BY DEF TableInv
  <1>2. /\ cur # Idle /\ cur' # Idle /\ cur'.todo = <<>> /\ Len(cur'.todo) = 0
        /\ cur'.method = cur.method /\ cur'.cookie = cur.cookie /\ cur'.first = cur.first
    BY <1>1, EndsRequest
  <1>3. UNCHANGED <<table, removed, stack>>
    BY DEF Ends
  <1>4. RowsNonEmpty' /\ NeverResurrected'
    BY <1>1, <1>3 DEF RowsNonEmpty, NeverResurrected
  <1>5. WriterInv'
    BY <1>1, <1>2, <1>3 DEF WriterInv
  <1>6. ObjectInv'
    BY <1>1, <1>2, <1>3 DEF ObjectInv
  <1>7. ChainInv'
    <2>1. PICK r \in Routes :
             /\ cur.method = r.method /\ Len(r.chain) \in Nat /\ Len(stack) \in Nat /\ Len(cur.todo) \in Nat
             /\ \A k \in 1 .. Len(stack) : stack[k].by = r.chain[k]
             /\ Len(stack) + Len(cur.todo) <= Len(r.chain)
      BY <1>1, <1>2, RouteOf
    <2>2. \A a, b, c \in Nat : a + b <= c => a + 0 <= c
      OBVIOUS
    <2>3. Len(stack) + 0 <= Len(r.chain)
      BY <2>1, <2>2
    <2> QED
      BY <1>2, <1>3, <2>1, <2>3 DEF ChainInv
  <1> QED
    BY <1>4, <1>5, <1>6, <1>7

\* Nothing is open before a request is served and after it.
LEMMA NothingOpen ==
  ASSUME TableInv, stack' = <<>>, UNCHANGED <<table, removed>>,
         cur' # Idle => cur'.cookie <= cur'.first
  PROVE  RowsNonEmpty' /\ ObjectInv' /\ WriterInv' /\ NeverResurrected'
  <1>1. RowsNonEmpty /\ NeverResurrected /\ Len(stack') = 0
    BY DEF TableInv
  <1>2. RowsNonEmpty' /\ NeverResurrected'
    BY <1>1 DEF RowsNonEmpty, NeverResurrected
  <1>3. ObjectInv' /\ WriterInv'
    BY <1>1 DEF ObjectInv, WriterInv
  <1> QED
    BY <1>2, <1>3

\* The browser and the clock.
Outside ==
    \/ \E route \in Routes : Send(route)
    \/ \E r \in outbox : Deliver(r) \/ Lose(r)
    \/ Tick \/ UNCHANGED vars

LEMMA OutsideTyped ==
  ASSUME Typed, Outside
  PROVE  Typed' /\ UNCHANGED <<table, sids, tokens, cur, stack, reply, granted, removed>>
  <1>1. UNCHANGED <<table, sids, tokens, cur, stack, reply, granted, removed>>
    BY DEF Outside, Send, Deliver, Lose, Tick, vars
  <1>2. /\ Data' = Data /\ Cookies' = Cookies /\ Answers' = Answers
        /\ Objects' = Objects /\ Sent' = Sent /\ Serving' = Serving
    BY <1>1, SameSets
  <1>3. /\ MaxTime \in Nat /\ MaxRequests \in Nat /\ sent \in Nat /\ now \in Nat /\ sids \in Nat
        /\ sent <= MaxRequests /\ now <= MaxTime
    BY SessionAssumption DEF SessionAssumption, Typed
  <1>4. CASE \E route \in Routes : Send(route)
    <2>1. PICK route \in Routes : Send(route)
      BY <1>4
    <2>2. /\ sent' = sent + 1 /\ sent < MaxRequests /\ UNCHANGED <<now, jar, page, outbox>>
          /\ flight' = flight \cup {[n |-> sent + 1, route |-> route, submitted |-> page,
                                     cookie |-> IF jar.expires > now THEN jar.id ELSE 0]}
      BY <2>1 DEF Send
    <2>3. jar.id \in 0 .. sids /\ 0 \in 0 .. sids /\ page \in 0 .. tokens
      BY <1>3 DEF Typed, Cookies
    <2>4. flight' \subseteq Sent
      BY <1>3, <2>2, <2>3 DEF Typed, Sent
    <2>5. sent' \in 0 .. MaxRequests
      BY <1>3, <2>2
    <2> QED
      BY <1>1, <1>2, <2>2, <2>4, <2>5 DEF Typed
  <1>5. CASE \E r \in outbox : Deliver(r) \/ Lose(r)
    <2>1. PICK r \in outbox : Deliver(r) \/ Lose(r)
      BY <1>5
    <2>2. outbox' \subseteq outbox /\ UNCHANGED <<now, sent, flight>>
      BY <2>1 DEF Deliver, Lose
    <2>3. r.answer \in Answers
      BY DEF Typed
    <2>4. r.answer.cookies \subseteq Cookies /\ r.answer.token \in 0 .. tokens
      BY <2>3 DEF Answers
    <2>5. jar' \in Cookies /\ page' \in 0 .. tokens
      BY <2>1, <2>4 DEF Deliver, Lose, Typed
    <2> QED
      BY <1>1, <1>2, <2>2, <2>5 DEF Typed
  <1>6. CASE Tick
    <2>1. now' \in 0 .. MaxTime /\ UNCHANGED <<jar, page, sent, flight, outbox>>
      BY <1>3, <1>6 DEF Tick
    <2> QED
      BY <1>1, <1>2, <2>1 DEF Typed
  <1>7. CASE UNCHANGED vars
    BY <1>1, <1>2, <1>7 DEF Typed, vars
  <1> QED
    BY <1>1, <1>4, <1>5, <1>6, <1>7 DEF Outside

\* The connection takes up a request, answers it, or dies with the process.
LEMMA BeginTable ==
  ASSUME TableInv, NEW r \in flight, Begin(r)
  PROVE  TableInv'
  <1>1. Typed /\ RowsNonEmpty /\ NeverResurrected
    BY DEF TableInv
  <1>2. /\ cur.phase = "idle" /\ flight' = flight \ {r} /\ reply' = NoReply
        /\ cur' = [phase |-> "in", method |-> r.route.method, todo |-> r.route.chain,
                   cookie |-> r.cookie, submitted |-> r.submitted, n |-> r.n,
                   user |-> 0, token |-> 0, first |-> sids]
        /\ UNCHANGED <<now, table, sids, tokens, jar, page, sent, stack, outbox, granted, removed>>
    BY DEF Begin
  <1>3. stack = <<>> /\ stack' = <<>>
    BY <1>1, <1>2, Phases DEF Typed
  <1>4. r \in Sent /\ sids \in Nat /\ tokens \in Nat
    BY <1>1 DEF Typed
  <1>5. /\ r.route \in Routes /\ r.submitted \in 0 .. tokens /\ r.cookie \in 0 .. sids /\ r.n \in Nat
        /\ r.route.method \in {"GET", "POST"} /\ r.route.chain \in Seq(Opening \cup Handlers)
    BY <1>4, SessionAssumption DEF SessionAssumption, Sent
  <1>6. /\ Data' = Data /\ Cookies' = Cookies /\ Answers' = Answers
        /\ Objects' = Objects /\ Sent' = Sent /\ Serving' = Serving
    BY <1>2, SameSets
  <1>7. /\ cur' \in Serving /\ cur'.method = r.route.method /\ cur'.todo = r.route.chain
        /\ cur'.cookie <= cur'.first /\ cur'.phase = "in"
    BY <1>2, <1>4, <1>5 DEF Serving
  <1>8. cur' # Idle /\ NoReply \in Answers
    BY <1>4, <1>7 DEF Idle, NoReply, Answers
  <1>9. Typed'
    BY <1>1, <1>2, <1>3, <1>6, <1>7, <1>8 DEF Typed
  <1>10. RowsNonEmpty' /\ ObjectInv' /\ WriterInv' /\ NeverResurrected'
    BY <1>2, <1>3, <1>7, NothingOpen
  <1>11. ChainInv'
    <2>1. Len(stack') = 0 /\ Len(r.route.chain) \in Nat
      BY <1>3, <1>5, LenProperties
    <2>2. \A n \in Nat : 0 + n <= n /\ \A k \in 1 .. n : 0 + k = k
      OBVIOUS
    <2>3. \A k \in 1 .. Len(stack') : stack'[k].by = r.route.chain[k]
      BY <2>1
    <2>4. /\ 0 + Len(r.route.chain) <= Len(r.route.chain)
          /\ \A k \in 1 .. Len(r.route.chain) : r.route.chain[k] = r.route.chain[0 + k]
      BY <2>1, <2>2
    <2> QED
      BY <1>5, <1>7, <2>1, <2>3, <2>4 DEF ChainInv
  <1> QED
    BY <1>9, <1>10, <1>11 DEF TableInv

LEMMA IdleTable ==
  ASSUME TableInv, Respond \/ Crash
  PROVE  TableInv'
  <1>1. Typed /\ RowsNonEmpty /\ NeverResurrected
    BY DEF TableInv
  <1>2. /\ cur' = Idle /\ reply' = NoReply
        /\ UNCHANGED <<now, table, sids, tokens, jar, page, sent, flight, granted, removed>>
    BY DEF Respond, Crash
  <1>3. stack' = <<>> /\ stack' \in Seq(Objects)
    BY EmptySeq DEF Respond, Handled, Crash
  <1>4. /\ Data' = Data /\ Cookies' = Cookies /\ Answers' = Answers
        /\ Objects' = Objects /\ Sent' = Sent /\ Serving' = Serving
    BY <1>2, SameSets
  <1>5. NoReply \in Answers
    BY <1>1 DEF Typed, NoReply, Answers
  <1>6. outbox' \subseteq [n : Nat, answer : Answers]
    <2>1. CASE Respond
      <3>1. cur.n \in Nat
        BY <1>1, <2>1, Phases DEF Respond, Handled, Serving
      <3> QED
        BY <1>1, <1>5, <2>1, <3>1 DEF Respond, Typed
    <2>2. CASE Crash
      BY <1>1, <2>2 DEF Crash, Typed
    <2> QED
      BY <2>1, <2>2
  <1>7. Typed'
    BY <1>1, <1>2, <1>3, <1>4, <1>5, <1>6 DEF Typed
  <1>8. RowsNonEmpty' /\ ObjectInv' /\ WriterInv' /\ NeverResurrected'
    BY <1>2, <1>3, NothingOpen
  <1>9. ChainInv'
    BY <1>2 DEF ChainInv
  <1> QED
    BY <1>7, <1>8, <1>9 DEF TableInv

\* The handler of a page, and an exception.
LEMMA EndsTable ==
  ASSUME TableInv, PageHandler \/ Throw
  PROVE  TableInv'
  <1>1. Typed
    BY DEF TableInv
  <1>2. PICK p \in {"back", "unwind"} : Ends(p)
    BY DEF PageHandler, Throw, Ends
  <1>3. /\ cur.phase = "in"
        /\ UNCHANGED <<now, table, sids, tokens, jar, page, sent, flight, stack, outbox, granted, removed>>
    BY DEF PageHandler, Throw, Called
  <1>4. cur \in Serving /\ cur' \in Serving /\ cur' # Idle
    BY <1>1, <1>2, <1>3, EndsRequest
  <1>5. /\ Data' = Data /\ Cookies' = Cookies /\ Answers' = Answers
        /\ Objects' = Objects /\ Sent' = Sent /\ Serving' = Serving
    BY <1>3, SameSets
  <1>6. reply' \in Answers
    <2>1. cur.token \in 0 .. tokens /\ reply \in Answers
      BY <1>1, <1>4 DEF Typed, Serving
    <2>2. CASE PageHandler
      BY <2>1, <2>2 DEF PageHandler, Answers
    <2>3. CASE Throw
      BY <2>1, <2>3 DEF Throw
    <2> QED
      BY <2>2, <2>3
  <1>7. Typed'
    BY <1>1, <1>3, <1>4, <1>5, <1>6 DEF Typed
  <1>8. RowsNonEmpty' /\ ChainInv' /\ ObjectInv' /\ WriterInv' /\ NeverResurrected'
    BY <1>2, <1>3, EndsSound
  <1> QED
    BY <1>7, <1>8 DEF TableInv

LEMMA OutsideTable ==
  ASSUME TableInv, Outside
  PROVE  TableInv'
  <1>1. Typed' /\ UNCHANGED <<table, sids, tokens, cur, stack, reply, granted, removed>>
    BY OutsideTyped DEF TableInv
  <1>2. RowsNonEmpty' /\ ChainInv' /\ ObjectInv' /\ WriterInv' /\ NeverResurrected'
    BY <1>1 DEF TableInv, RowsNonEmpty, ChainInv, ObjectInv, WriterInv, NeverResurrected
  <1> QED
    BY <1>1, <1>2 DEF TableInv

LEMMA InitTable == Init => TableInv
  <1> SUFFICES ASSUME Init PROVE TableInv
    OBVIOUS
  <1>1. /\ now = 0 /\ table = <<>> /\ sids = 0 /\ tokens = 0
        /\ jar = NoCookie /\ page = 0 /\ sent = 0 /\ flight = {}
        /\ cur = Idle /\ stack = <<>> /\ reply = NoReply /\ outbox = {} /\ removed = {}
    BY DEF Init
  <1>2. MaxTime \in Nat /\ Lifetime \in Nat /\ MaxRequests \in Nat
    BY SessionAssumption DEF SessionAssumption
  <1>3. DOMAIN table = {} /\ Len(stack) = 0 /\ stack \in Seq(Objects)
    BY <1>1, EmptySeq
  <1>4. jar \in Cookies /\ reply \in Answers
    BY <1>1, <1>2 DEF NoCookie, Cookies, NoReply, Answers
  <1>5. Typed
    BY <1>1, <1>2, <1>3, <1>4 DEF Typed
  <1>6. RowsNonEmpty /\ NeverResurrected
    BY <1>1, <1>3 DEF RowsNonEmpty, NeverResurrected
  <1>7. ChainInv /\ ObjectInv /\ WriterInv
    BY <1>1, <1>3 DEF ChainInv, ObjectInv, WriterInv
  <1> QED
    BY <1>5, <1>6, <1>7 DEF TableInv

\* Every step is one of these.
LEMMA Steps ==
  ASSUME [Next]_vars
  PROVE  \/ Opens \/ SessionDtor \/ PageHandler \/ Throw \/ Respond \/ Crash \/ Outside
         \/ \E r \in flight : Begin(r)
  BY DEF Next, Opens, Outside

LEMMA NextTable ==
  ASSUME RoutesOrdered, TableInv, [Next]_vars
  PROVE  TableInv'
  <1>1. CASE Opens
    <2>1. Typed /\ ChainInv
      BY DEF TableInv
    <2>2. PICK s0, s : cur.phase = "in" /\ cur.todo # <<>> /\ Effect(s0, s)
      BY <1>1, <2>1, OpensEffect
    <2>3. Typed'
      BY <2>1, <2>2, OpenTyped
    <2>4. ChainInv'
      BY <2>1, <2>2, OpenChain
    <2>5. RowsNonEmpty' /\ ObjectInv' /\ WriterInv' /\ NeverResurrected'
      BY <2>2, OpenObjects
    <2> QED
      BY <2>3, <2>4, <2>5 DEF TableInv
  <1>2. CASE SessionDtor
    <2>1. Typed' /\ ChainInv'
      BY <1>2, DtorTyped, DtorChain DEF TableInv
    <2>2. RowsNonEmpty' /\ ObjectInv' /\ WriterInv' /\ NeverResurrected'
      BY <1>2, DtorObjects
    <2> QED
      BY <2>1, <2>2 DEF TableInv
  <1> QED
    BY <1>1, <1>2, Steps, BeginTable, IdleTable, EndsTable, OutsideTable

-----------------------------------------------------------------------------
\* Whatever fails, whenever the process dies and however requests overlap, the sessions that
\* are open follow the chain of a route and the table is the one they say.
THEOREM TableInvariance ==
  ASSUME RoutesOrdered
  PROVE  Spec => []TableInv
  <1>1. TableInv /\ [Next]_vars => TableInv'
    BY NextTable
  <1> QED
    BY InitTable, <1>1, PTL DEF Spec

\* What a destructor has deleted no enclosing session and no late request brings back, for every
\* set of routes in which no session that is written encloses one that is deleted.
THEOREM DeletedStayDeleted ==
  ASSUME RoutesOrdered
  PROVE  Spec => []NeverResurrected
  <1>1. TableInv => NeverResurrected
    BY DEF TableInv
  <1> QED
    BY TableInvariance, <1>1, PTL

\* The table stays sound, also when statements on it fail: no row without data, none under an
\* id that was not generated, none that was deleted, and at most one Set-Cookie header.
THEOREM TableStaysSound ==
  ASSUME RoutesOrdered
  PROVE  Spec => []TableSound
  <1>1. Typed => TypeOK
    <2> SUFFICES ASSUME Typed PROVE TypeOK
      OBVIOUS
    <2>1. /\ now \in 0 .. MaxTime /\ sids \in Nat /\ tokens \in Nat
          /\ sent \in 0 .. MaxRequests /\ page \in 0 .. tokens /\ DOMAIN table \subseteq 1 .. sids
          /\ cur = Idle => stack = <<>>
      BY DEF Typed
    <2>2. \A i \in DOMAIN table : table[i].data \in [Keys -> Nat] /\ table[i].ts \in Nat
      BY DEF Typed, Data
    <2>3. Cookies \subseteq Cookie /\ Objects \subseteq SessionObject
      BY SessionAssumption, <2>1 DEF SessionAssumption, Cookies, Cookie, Objects, SessionObject, Data
    <2>4. jar \in Cookie /\ jar.id <= sids
      BY <2>1, <2>3 DEF Typed, Cookies
    <2>5. stack \in Seq(Objects)
      BY DEF Typed
    <2>6. DOMAIN stack = 1 .. Len(stack) /\ \A i \in 1 .. Len(stack) : stack[i] \in Objects
      BY <2>5, LenProperties, ElementOfSeq
    <2>7. \A i \in DOMAIN stack : stack[i] \in SessionObject
      BY <2>3, <2>6
    <2>8. reply.cookies \in {{}} \cup {{c} : c \in Cookies}
      BY DEF Typed, Answers
    <2>9. reply.cookies \subseteq Cookie
      BY <2>3, <2>8
    <2>10. Cardinality(reply.cookies) <= 1
      <3>1. CASE reply.cookies = {}
        BY <3>1, FS_EmptySet
      <3>2. CASE \E c \in Cookies : reply.cookies = {c}
        <4>1. PICK c \in Cookies : reply.cookies = {c}
          BY <3>2
        <4>2. Cardinality({c}) = 1
          BY FS_Singleton
        <4> QED
          BY <4>1, <4>2
      <3> QED
        BY <2>8, <3>1, <3>2
    <2>11. cur.phase \in {"idle", "in", "back", "unwind"}
      BY Phases DEF Typed, Idle
    <2> QED
      BY <2>1, <2>2, <2>4, <2>7, <2>9, <2>10, <2>11 DEF TypeOK
  <1>2. TableInv => TableSound
    BY <1>1 DEF TableInv, TableSound
  <1> QED
    BY TableInvariance, <1>2, PTL
-----------------------------------------------------------------------------
(* Logins and logouts, when no statement fails.                            *)

LEMMA OpenGrant ==
  ASSUME ~Faulty, TableInv, AuthSound, GrantInv, cur.phase = "in", cur.todo # <<>>,
         NEW s0, NEW s, Effect(s0, s)
  PROVE  AuthSound' /\ GrantInv'
  <1>1. Typed
    BY DEF TableInv
  <1>2. /\ Len(stack) \in Nat /\ Len(stack') = Len(stack) + 1 /\ stack'[Len(stack) + 1] = s
        /\ \A k \in 1 .. Len(stack) : stack'[k] = stack[k]
        /\ \A k \in 1 .. Len(stack') : k \in 1 .. Len(stack) \/ k = Len(stack) + 1
    BY <1>1, OpenTyped
  <1>3. /\ s0 \in SessionCtor /\ Open(s0) /\ s.id = s0.id /\ s.set_cookie = s0.set_cookie
        /\ ~s.modified => s.data = s0.data
        /\ granted \subseteq granted'
        /\ s.modified /\ s.data["user_id"] # 0 =>
              s.data["user_id"] = s0.data["user_id"] \/ <<s.id, s.data["user_id"]>> \in granted'
        /\ s.by = "logout" => s.data["user_id"] = 0
    BY DEF Effect
  <1>4. /\ s.set_cookie => s.id = sids + 1 /\ s0.data = Empty
        /\ ~s.set_cookie => s.id \in DOMAIN table /\ s0.data = table[s.id].data
    BY <1>1, <1>3, CtorSound
  <1>5. DOMAIN table' \subseteq DOMAIN table /\ \A i \in DOMAIN table' : table'[i] = table[i]
    BY <1>1, <1>3, OpenSids
  <1>6. AuthSound'
    BY <1>3, <1>5 DEF AuthSound
  <1>7. s.modified /\ s.data["user_id"] # 0 => <<s.id, s.data["user_id"]>> \in granted'
    <2>1. SUFFICES ASSUME s.data["user_id"] # 0, s.data["user_id"] = s0.data["user_id"]
                   PROVE  <<s.id, s.data["user_id"]>> \in granted'
      BY <1>3
    <2>2. ~s.set_cookie
      BY <1>4, <2>1 DEF Empty, Keys
    <2> QED
      BY <1>3, <1>4, <2>1, <2>2 DEF AuthSound
  <1>8. s.by = "logout" /\ ~s.modified /\ s.id \in DOMAIN table' => table'[s.id].data["user_id"] = 0
    <2>1. SUFFICES ASSUME s.by = "logout", ~s.modified, s.id \in DOMAIN table'
                   PROVE  table'[s.id].data["user_id"] = 0
      OBVIOUS
    <2>2. sids \in Nat /\ DOMAIN table \subseteq 1 .. sids
      BY <1>1 DEF Typed
    <2>3. ~s.set_cookie
      BY <1>4, <1>5, <2>1, <2>2
    <2> QED
      BY <1>3, <1>4, <1>5, <2>1, <2>3
  <1>9. GrantInv'
    <2>1. ASSUME NEW k \in 1 .. Len(stack')
          PROVE  LET x == stack'[k] IN
                 /\ x.modified /\ x.data["user_id"] # 0 => <<x.id, x.data["user_id"]>> \in granted'
                 /\ x.by = "logout" => /\ x.data["user_id"] = 0
                                       /\ ~x.modified /\ x.id \in DOMAIN table' =>
                                             table'[x.id].data["user_id"] = 0
      <3>1. CASE k = Len(stack) + 1
        BY <1>2, <1>3, <1>7, <1>8, <3>1
      <3>2. CASE k \in 1 .. Len(stack)
        BY <1>2, <1>3, <1>5, <3>2 DEF GrantInv
      <3> QED
        BY <1>2, <3>1, <3>2
    <2> QED
      BY <2>1 DEF GrantInv
  <1> QED
    BY <1>6, <1>9

LEMMA DtorGrant ==
  ASSUME ~Faulty, RoutesOrdered, TableInv, AuthSound, GrantInv, SessionDtor
  PROVE  AuthSound' /\ GrantInv'
  <1> DEFINE s == Last(stack)
             n == Len(stack)
  <1>1. Typed /\ ChainInv /\ ObjectInv
    BY DEF TableInv
  <1>2. /\ cur # Idle /\ n \in Nat /\ n \in 1 .. n /\ s = stack[n] /\ Len(stack') = n - 1
        /\ \A k \in 1 .. Len(stack') : stack'[k] = stack[k] /\ k \in 1 .. n /\ k < n
    BY <1>1, DtorStack
  <1>3. /\ s.set_cookie => s.id \notin DOMAIN table
        /\ s.modified /\ s.data # Empty => Writes(cur.method, s.by)
        /\ s.modified /\ s.data["user_id"] # 0 => <<s.id, s.data["user_id"]>> \in granted
        /\ s.by = "logout" => /\ s.data["user_id"] = 0
                              /\ ~s.modified /\ s.id \in DOMAIN table => table[s.id].data["user_id"] = 0
    BY <1>1, <1>2 DEF ObjectInv, GrantInv
  <1>4. granted' = IF s.by = "logout" THEN {g \in granted : g[1] # s.id} ELSE granted
    BY DEF SessionDtor
  <1>5. \/ UNCHANGED table /\ (s.data = Empty => s.set_cookie) /\ (s.data # Empty => ~s.modified)
        \/ s.modified /\ s.data # Empty /\ table' = write(table, s.id, s.data)
        \/ table' = delete(table, s.id)
    <2>1. CASE s.data = Empty
      <3>1. Invalidate(s)
        BY <2>1 DEF SessionDtor
      <3> QED
        BY <2>1, <3>1 DEF Invalidate
    <2>2. CASE s.data # Empty
      <3>1. Persist(s)
        BY <2>2 DEF SessionDtor
      <3> QED
        BY <2>2, <3>1 DEF Persist
    <2> QED
      BY <2>1, <2>2
  <1>6. PICK r \in Routes :
           /\ cur.method = r.method
           /\ \A k \in 1 .. n : k \in 1 .. Len(r.chain) /\ stack[k].by = r.chain[k]
    BY <1>1, <1>2, RouteOf
  <1>7. ASSUME NEW k \in 1 .. Len(stack')
        PROVE  /\ s.by = "logout" => ~Writes(cur.method, stack[k].by)
               /\ stack[k].by = "logout" => ~Writes(cur.method, s.by)
    <2>1. k \in 1 .. Len(r.chain) /\ n \in 1 .. Len(r.chain) /\ k < n /\ k \in 1 .. n
      BY <1>2, <1>6
    <2>2. stack[k].by = r.chain[k] /\ s.by = r.chain[n]
      BY <1>2, <1>6, <2>1
    <2>3. /\ Writes(r.method, r.chain[k]) => ~Empties(r.chain[n])
          /\ r.chain[k] = "logout" => ~Writes(r.method, r.chain[n])
      BY <2>1 DEF RoutesOrdered
    <2> QED
      BY <1>6, <2>2, <2>3 DEF Empties
  <1>8. ASSUME NEW i \in DOMAIN table', table'[i].data["user_id"] # 0
        PROVE  <<i, table'[i].data["user_id"]>> \in granted'
    <2>1. \A u : <<i, u>> \in granted /\ i # s.id => <<i, u>> \in granted'
      BY <1>4
    <2>2. CASE UNCHANGED table /\ (s.data = Empty => s.set_cookie) /\ (s.data # Empty => ~s.modified)
      <3>1. <<i, table[i].data["user_id"]>> \in granted
        BY <1>8, <2>2 DEF AuthSound
      <3>2. CASE s.by = "logout" /\ i = s.id
        <4>1. ~s.set_cookie
          BY <1>3, <1>8, <2>2, <3>2
        <4> QED
          BY <1>3, <1>8, <2>2, <3>2, <4>1
      <3>3. CASE s.by # "logout"
        BY <1>4, <2>2, <3>1, <3>3
      <3>4. CASE i # s.id
        BY <2>1, <2>2, <3>1, <3>4
      <3> QED
        BY <3>2, <3>3, <3>4
    <2>3. CASE s.modified /\ s.data # Empty /\ table' = write(table, s.id, s.data)
      <3>1. /\ DOMAIN table' = DOMAIN table \cup {s.id} /\ table'[s.id].data = s.data
            /\ \A j \in DOMAIN table \ {s.id} : table'[j] = table[j]
        BY <2>3, RowWritten
      <3>2. CASE i = s.id
        BY <1>3, <1>4, <1>8, <2>3, <3>1, <3>2
      <3>3. CASE i # s.id
        BY <1>8, <2>1, <3>1, <3>3 DEF AuthSound
      <3> QED
        BY <3>2, <3>3
    <2>4. CASE table' = delete(table, s.id)
      <3>1. /\ DOMAIN table' = DOMAIN table \ {s.id}
            /\ \A j \in DOMAIN table \ {s.id} : table'[j] = table[j]
        BY <2>4, RowDeleted
      <3> QED
        BY <1>8, <2>1, <3>1 DEF AuthSound
    <2> QED
      BY <1>5, <2>2, <2>3, <2>4
  <1>9. ASSUME NEW k \in 1 .. Len(stack')
        PROVE  LET x == stack'[k] IN
               /\ x.modified /\ x.data["user_id"] # 0 => <<x.id, x.data["user_id"]>> \in granted'
               /\ x.by = "logout" => /\ x.data["user_id"] = 0
                                     /\ ~x.modified /\ x.id \in DOMAIN table' =>
                                           table'[x.id].data["user_id"] = 0
    <2> DEFINE x == stack[k]
    <2>1. stack'[k] = x /\ k \in 1 .. n
      BY <1>2
    <2>2. /\ x.modified /\ x.data # Empty => Writes(cur.method, x.by)
          /\ x.modified /\ x.data["user_id"] # 0 => <<x.id, x.data["user_id"]>> \in granted
          /\ x.by = "logout" => /\ x.data["user_id"] = 0
                                /\ ~x.modified /\ x.id \in DOMAIN table => table[x.id].data["user_id"] = 0
      BY <1>1, <2>1 DEF ObjectInv, GrantInv
    <2>3. x.modified /\ x.data["user_id"] # 0 => <<x.id, x.data["user_id"]>> \in granted'
      <3>1. x.data["user_id"] # 0 => x.data # Empty
        BY DEF Empty, Keys
      <3> QED
        BY <1>4, <1>7, <2>2, <3>1
    <2>4. ASSUME x.by = "logout", ~x.modified, x.id \in DOMAIN table' PROVE table'[x.id].data["user_id"] = 0
      <3>1. CASE UNCHANGED table
        BY <2>2, <2>4, <3>1
      <3>2. CASE s.modified /\ s.data # Empty /\ table' = write(table, s.id, s.data)
        BY <1>3, <1>7, <2>4, <3>2
      <3>3. CASE table' = delete(table, s.id)
        <4>1. /\ DOMAIN table' = DOMAIN table \ {s.id}
              /\ \A j \in DOMAIN table \ {s.id} : table'[j] = table[j]
          BY <3>3, RowDeleted
        <4> QED
          BY <2>2, <2>4, <4>1
      <3> QED
        BY <1>5, <3>1, <3>2, <3>3
    <2> QED
      BY <2>1, <2>2, <2>3, <2>4
  <1>10. AuthSound'
    BY <1>8 DEF AuthSound
  <1>11. GrantInv'
    BY <1>9 DEF GrantInv
  <1> QED
    BY <1>10, <1>11

LEMMA NextGrant ==
  ASSUME ~Faulty, RoutesOrdered, TableInv, AuthSound, GrantInv, [Next]_vars
  PROVE  AuthSound' /\ GrantInv'
  <1>1. Typed
    BY DEF TableInv
  <1>2. CASE Opens
    <2>1. PICK s0, s : cur.phase = "in" /\ cur.todo # <<>> /\ Effect(s0, s)
      BY <1>1, <1>2, OpensEffect
    <2> QED
      BY <2>1, OpenGrant
  <1>3. CASE SessionDtor
    BY <1>3, DtorGrant
  <1>4. CASE UNCHANGED <<table, granted, stack>>
    BY <1>4 DEF AuthSound, GrantInv
  <1>5. CASE UNCHANGED <<table, granted>> /\ stack' = <<>>
    <2>1. Len(stack') = 0
      BY <1>5
    <2> QED
      BY <1>5, <2>1 DEF AuthSound, GrantInv
  <1>6. PageHandler \/ Throw \/ (\E r \in flight : Begin(r)) => UNCHANGED <<table, granted, stack>>
    BY DEF PageHandler, Throw, Begin
  <1>7. Respond \/ Crash => UNCHANGED <<table, granted>> /\ stack' = <<>>
    BY DEF Respond, Handled, Crash
  <1>8. Outside => UNCHANGED <<table, granted, stack>>
    BY <1>1, OutsideTyped
  <1> QED
    BY <1>2, <1>3, <1>4, <1>5, <1>6, <1>7, <1>8, Steps

\* A row says that a user is logged in only if that user logged in under its id and has not been
\* logged out since, however sessions are nested (SessionLoginController, SessionLogoutController).
THEOREM LogoutsHold ==
  ASSUME ~Faulty, RoutesOrdered
  PROVE  Spec => []AuthSound
  <1>1. Init => AuthSound /\ GrantInv
    <2> SUFFICES ASSUME Init PROVE AuthSound /\ GrantInv
      OBVIOUS
    <2>1. DOMAIN table = {} /\ Len(stack) = 0
      BY DEF Init
    <2> QED
      BY <2>1 DEF AuthSound, GrantInv
  <1>2. TableInv /\ (AuthSound /\ GrantInv) /\ [Next]_vars => (AuthSound /\ GrantInv)'
    BY NextGrant
  <1> QED
    BY <1>1, <1>2, TableInvariance, PTL DEF Spec

-----------------------------------------------------------------------------
(* The header that announces a session, when at most one session changes.  *)

LEMMA OneChangeOrders == OneChange => RoutesOrdered
  BY DEF OneChange, RoutesOrdered, Changes, Empties

\* A session that does not change ends without a trace.
LEMMA QuietDtor ==
  ASSUME Typed, ObjectInv, SessionDtor, ~Changes(cur.method, Last(stack).by)
  PROVE  UNCHANGED <<table, removed, reply>>
  <1> DEFINE s == Last(stack)
  <1>1. Len(stack) \in 1 .. Len(stack) /\ s = stack[Len(stack)] /\ s \in Objects
    BY DtorStack
  <1>2. /\ s.modified /\ s.data # Empty => Changes(cur.method, s.by)
        /\ ~s.set_cookie /\ s.data = Empty => Changes(cur.method, s.by)
        /\ s.set_cookie /\ ~s.modified => s.data = Empty
    BY <1>1 DEF ObjectInv, Changes
  <1>3. s.modified \in BOOLEAN /\ s.set_cookie \in BOOLEAN
    BY <1>1 DEF Objects
  <1> QED
    BY <1>2, <1>3, DtorEffect

\* The others of a session that changes do not.
LEMMA OthersQuiet ==
  ASSUME OneChange, Typed, ChainInv, cur # Idle, NEW j \in 1 .. Len(stack),
         Changes(cur.method, stack[j].by)
  PROVE  \A k \in 1 .. Len(stack) : k # j => ~Changes(cur.method, stack[k].by)
  <1>1. PICK r \in Routes :
           /\ cur.method = r.method /\ Len(r.chain) \in Nat
           /\ \A k \in 1 .. Len(stack) : k \in 1 .. Len(r.chain) /\ stack[k].by = r.chain[k]
    BY RouteOf
  <1>2. ASSUME NEW k \in 1 .. Len(stack), k # j PROVE ~Changes(cur.method, stack[k].by)
    <2>1. j \in 1 .. Len(r.chain) /\ k \in 1 .. Len(r.chain) /\ (j < k \/ k < j)
      BY <1>1, <1>2
    <2>2. ~(Changes(r.method, r.chain[j]) /\ Changes(r.method, r.chain[k]))
      BY <2>1 DEF OneChange
    <2> QED
      BY <1>1, <2>2
  <1> QED
    BY <1>2

LEMMA DtorAnnounce ==
  ASSUME OneChange, TableInv, AnnounceInv, SessionDtor
  PROVE  AnnounceInv'
  <1> DEFINE s == Last(stack)
             n == Len(stack)
  <1>1. Typed /\ ChainInv /\ ObjectInv
    BY DEF TableInv
  <1>2. /\ cur # Idle /\ cur'.method = cur.method /\ cur'.first = cur.first /\ cur'.phase # "in"
        /\ cur \in Serving /\ n \in Nat /\ n \in 1 .. n /\ s = stack[n] /\ s \in Objects /\ Len(stack') = n - 1
        /\ \A k \in 1 .. Len(stack') : stack'[k] = stack[k] /\ k \in 1 .. n /\ k < n
    BY <1>1, DtorStack
  <1>3. CASE \E i \in DOMAIN table : i > cur.first
    <2>1. \A k \in 1 .. n : ~Changes(cur.method, stack[k].by)
      BY <1>2, <1>3 DEF AnnounceInv
    <2>2. UNCHANGED <<table, reply>>
      BY <1>1, <1>2, <2>1, QuietDtor
    <2>3. \A i \in DOMAIN table : i > cur.first => \E c \in reply.cookies : c.id = i
      BY <1>2 DEF AnnounceInv
    <2> QED
      BY <1>2, <2>1, <2>2, <2>3 DEF AnnounceInv
  <1>4. CASE ~\E i \in DOMAIN table : i > cur.first
    <2>1. SUFFICES ASSUME NEW i \in DOMAIN table', i > cur.first
                   PROVE  /\ \E c \in reply'.cookies : c.id = i
                          /\ \A k \in 1 .. Len(stack') : ~Changes(cur.method, stack'[k].by)
      BY <1>2 DEF AnnounceInv
    <2>2. i \notin DOMAIN table
      BY <1>4, <2>1
    <2>3. s.modified /\ s.data # Empty /\ table' = write(table, s.id, s.data)
      <3>1. table' = delete(table, s.id) => DOMAIN table' \subseteq DOMAIN table
        BY RowDeleted
      <3> QED
        BY <2>1, <2>2, <3>1, DtorEffect
    <2>4. i = s.id
      <3>1. DOMAIN table' = DOMAIN table \cup {s.id}
        BY <2>3, RowWritten
      <3> QED
        BY <2>1, <2>2, <3>1
    <2>5. /\ s.id \in 0 .. sids /\ cur.cookie \in Nat /\ cur.first \in Nat /\ s.id \in Nat
          /\ s.set_cookie \in BOOLEAN
      <3>1. sids \in Nat
        BY <1>1 DEF Typed
      <3>2. s.id \in 1 .. sids /\ s.set_cookie \in BOOLEAN
        BY <1>2 DEF Objects
      <3>3. cur.cookie \in 0 .. sids /\ cur.first \in 0 .. sids
        BY <1>2 DEF Serving
      <3> QED
        BY <3>1, <3>2, <3>3
    <2>6. s.set_cookie
      <3>1. cur.cookie <= cur.first /\ (~s.set_cookie => s.id = cur.cookie)
        BY <1>1, <1>2 DEF ObjectInv
      <3> QED
        BY <2>1, <2>4, <2>5, <3>1
    <2>7. SetCookie(s.id, now + Lifetime)
      <3>1. Persist(s)
        BY <2>3 DEF SessionDtor
      <3> QED
        BY <2>6, <3>1 DEF Persist
    <2>8. now + Lifetime \in 0 .. MaxTime + Lifetime
      BY <1>1, SessionAssumption DEF SessionAssumption, Typed
    <2>9. reply'.cookies = {[id |-> s.id, expires |-> now + Lifetime]}
      BY <1>1, <2>5, <2>7, <2>8, CookieSet
    <2>10. \E c \in reply'.cookies : c.id = i
      BY <2>4, <2>9
    <2>11. Changes(cur.method, s.by)
      BY <1>1, <1>2, <2>3 DEF ObjectInv, Changes
    <2>12. \A k \in 1 .. n : k # n => ~Changes(cur.method, stack[k].by)
      BY <1>1, <1>2, <2>11, OthersQuiet
    <2>13. \A k \in 1 .. Len(stack') : ~Changes(cur.method, stack'[k].by)
      BY <1>2, <2>12
    <2> QED
      BY <2>10, <2>13
  <1> QED
    BY <1>3, <1>4

LEMMA NextAnnounce ==
  ASSUME OneChange, TableInv, AnnounceInv, [Next]_vars
  PROVE  AnnounceInv'
  <1>1. Typed
    BY DEF TableInv
  <1>2. CASE Opens
    <2>1. PICK s0, s : cur.phase = "in" /\ cur.todo # <<>> /\ Effect(s0, s)
      BY <1>1, <1>2, OpensEffect
    <2>2. cur # Idle /\ cur'.first = cur.first
      BY <1>1, <2>1, Phases DEF Effect, GoesOn
    <2>3. DOMAIN table' \subseteq DOMAIN table
      BY <1>1, <2>1, OpenSids DEF Effect
    <2> QED
      BY <2>1, <2>2, <2>3 DEF AnnounceInv
  <1>3. CASE SessionDtor
    BY <1>3, DtorAnnounce
  <1>4. CASE PageHandler \/ Throw
    <2>1. cur.phase = "in" /\ UNCHANGED table
      BY <1>4 DEF PageHandler, Throw, Called
    <2>2. \E p \in {"back", "unwind"} : Ends(p)
      BY <1>4 DEF PageHandler, Throw, Ends
    <2>3. cur # Idle /\ cur'.first = cur.first
      BY <1>1, <2>1, <2>2, EndsRequest
    <2> QED
      BY <2>1, <2>3 DEF AnnounceInv
  <1>5. CASE \E r \in flight : Begin(r)
    <2>1. cur'.first = sids /\ UNCHANGED table
      BY <1>5 DEF Begin
    <2>2. sids \in Nat /\ DOMAIN table \subseteq 1 .. sids
      BY <1>1 DEF Typed
    <2>3. \A i \in DOMAIN table' : ~(i > cur'.first)
      BY <2>1, <2>2
    <2> QED
      BY <2>3 DEF AnnounceInv
  <1>6. CASE Respond \/ Crash
    BY <1>6 DEF Respond, Crash, AnnounceInv
  <1>7. CASE Outside
    <2>1. UNCHANGED <<table, cur, stack, reply>>
      BY <1>1, <1>7, OutsideTyped
    <2> QED
      BY <2>1 DEF AnnounceInv
  <1> QED
    BY <1>2, <1>3, <1>4, <1>5, <1>6, <1>7, Steps

\* The cookie that a response with a header announces.
LEMMA HeldCookie ==
  ASSUME Typed, NEW c \in reply.cookies
  PROVE  Held = c.id
  <1>1. reply.cookies \in {{}} \cup {{x} : x \in Cookies}
    BY DEF Typed, Answers
  <1>2. reply.cookies = {c}
    BY <1>1
  <1> QED
    BY <1>2 DEF Held

\* The row that a request created under a new id is the one its response announces, also when
\* statements on the table fail, if at most one session of the request changes.
THEOREM SessionsAnnounced ==
  ASSUME OneChange
  PROVE  Spec => []NewSessionAnnounced
  <1>1. RoutesOrdered
    BY OneChangeOrders
  <1>2. Init => AnnounceInv
    BY DEF Init, AnnounceInv
  <1>3. TableInv /\ AnnounceInv /\ [Next]_vars => AnnounceInv'
    BY NextAnnounce
  <1>4. TableInv /\ AnnounceInv => NewSessionAnnounced
    <2> SUFFICES ASSUME TableInv, AnnounceInv, Handled, cur.phase = "back",
                        NEW i \in DOMAIN table, i > cur.first
                 PROVE  i = Held
      BY DEF NewSessionAnnounced
    <2>1. Typed
      BY DEF TableInv
    <2>2. cur # Idle
      BY <2>1, Phases
    <2>3. PICK c \in reply.cookies : c.id = i
      BY <2>2 DEF AnnounceInv
    <2> QED
      BY <2>1, <2>3, HeldCookie
  <1> QED
    BY <1>1, <1>2, <1>3, <1>4, TableInvariance, PTL DEF Spec

-----------------------------------------------------------------------------
(* The token of a form and the user of a login, when they come from the    *)
(* innermost session and the sessions around it do not change.             *)

\* What an element leaves for the form and of the login.
LeavesForm ==
    \/ cur'.token = cur.token /\ cur'.user = cur.user
    \/ /\ Head(cur.todo) = "csrf" /\ cur'.user = cur.user
       /\ \E x \in Loose : stack' = Append(stack, x) /\ x.data["csrf_token"] = cur'.token
    \/ /\ Head(cur.todo) = "login" /\ cur.method = "POST" /\ cur'.token = cur.token
       /\ \E x \in Loose : /\ stack' = Append(stack, x) /\ x.modified
                           /\ x.data["user_id"] \in Nat \ {0}

LEMMA CurFields ==
  ASSUME NEW c \in Serving, NEW tl, NEW u, NEW t
  PROVE  /\ [c EXCEPT !.todo = tl].token = c.token /\ [c EXCEPT !.todo = tl].user = c.user
         /\ [c EXCEPT !.todo = tl, !.phase = u].token = c.token
         /\ [c EXCEPT !.todo = tl, !.phase = u].user = c.user
         /\ [c EXCEPT !.todo = tl, !.user = u].token = c.token
         /\ [c EXCEPT !.todo = tl, !.token = t].user = c.user
         /\ [c EXCEPT !.todo = tl, !.token = t].token = t
  BY DEF Serving

\* A login leaves the user in its session, a form the token, and no other element either.
LEMMA OpensForm ==
  ASSUME Typed, Opens
  PROVE  LeavesForm
  <1>1. cur.phase = "in" /\ cur.todo # <<>>
    BY OpensEffect
  <1>2. cur \in Serving
    BY <1>1, Phases
  <1>3. PICK tl : tl = Tail(cur.todo)
    OBVIOUS
  <1>4. /\ "user_id" \in Keys /\ "csrf_token" \in Keys /\ tokens \in Nat
        /\ \A s \in SessionCtor : s \in Loose /\ s.data \in [Keys -> Nat]
    BY <1>1, CtorSound DEF Keys, Typed, Data
  <1>5. ASSUME NEW s, next(s) \/ forbidden(s)
        PROVE  cur'.token = cur.token /\ cur'.user = cur.user
    <2>1. CASE cur' = [cur EXCEPT !.todo = tl]
      BY <1>2, <2>1, CurFields
    <2>2. CASE cur' = [cur EXCEPT !.todo = <<>>, !.phase = "back"]
      BY <1>2, <2>2, CurFields
    <2> QED
      BY <1>3, <1>5, <2>1, <2>2 DEF next, forbidden
  <1>6. CASE SessionRequireAuth \/ SessionCheckAuth \/ SessionLogoutController \/ SessionHandler
    <2>1. \E s : next(s) \/ forbidden(s)
      BY <1>6 DEF SessionRequireAuth, SessionCheckAuth, SessionLogoutController, SessionHandler
    <2> QED
      BY <1>5, <2>1 DEF LeavesForm
  <1>7. CASE SessionLoginController
    <2>1. PICK s \in SessionCtor :
                \/ /\ cur.method = "POST"
                   /\ \E user \in Users :
                        /\ stack' = Append(stack, add(s, "user_id", user))
                        /\ cur' = [cur EXCEPT !.todo = Tail(@), !.user = user]
                \/ next(s)
      BY <1>7 DEF SessionLoginController
    <2>2. Head(cur.todo) = "login"
      BY <1>7 DEF SessionLoginController, Called
    <2>3. CASE next(s)
      BY <1>5, <2>3 DEF LeavesForm
    <2>4. ASSUME cur.method = "POST", NEW user \in Users,
                 stack' = Append(stack, add(s, "user_id", user)),
                 cur' = [cur EXCEPT !.todo = Tail(@), !.user = user]
          PROVE  LeavesForm
      <3> DEFINE a == add(s, "user_id", user)
      <3>1. user \in Nat \ {0}
        BY SessionAssumption DEF SessionAssumption
      <3>2. a \in Loose /\ a.modified /\ a.data["user_id"] # 0
        BY <1>4, <3>1, Updates
      <3>3. a.data["user_id"] \in Nat \ {0}
        BY <1>4, <3>2 DEF Loose
      <3>4. cur' = [cur EXCEPT !.todo = tl, !.user = user]
        BY <1>3, <2>4
      <3>5. cur'.token = cur.token
        BY <1>2, <3>4, CurFields
      <3> HIDE DEF a
      <3> QED
        BY <2>2, <2>4, <3>2, <3>3, <3>5 DEF LeavesForm, a
    <2> QED
      BY <2>1, <2>3, <2>4
  <1>8. CASE CSRFMiddleware
    <2>1. PICK s \in SessionCtor :
                \/ ensure_session_has_token(s)
                \/ forbidden(s)
                \/ /\ cur.submitted = s.data["csrf_token"] /\ stack' = Append(stack, s)
                   /\ cur' = [cur EXCEPT !.todo = Tail(@), !.token = cur.submitted]
      BY <1>8 DEF CSRFMiddleware
    <2>2. Head(cur.todo) = "csrf"
      BY <1>8 DEF CSRFMiddleware, Called
    <2>3. CASE forbidden(s)
      BY <1>5, <2>3 DEF LeavesForm
    <2>4. ASSUME NEW x \in Loose, stack' = Append(stack, x), NEW t, x.data["csrf_token"] = t,
                 cur' = [cur EXCEPT !.todo = Tail(@), !.token = t]
          PROVE  LeavesForm
      <3>1. cur' = [cur EXCEPT !.todo = tl, !.token = t]
        BY <1>3, <2>4
      <3>2. cur'.token = t /\ cur'.user = cur.user
        BY <1>2, <3>1, CurFields
      <3> QED
        BY <2>2, <2>4, <3>2 DEF LeavesForm
    <2>5. CASE /\ cur.submitted = s.data["csrf_token"] /\ stack' = Append(stack, s)
               /\ cur' = [cur EXCEPT !.todo = Tail(@), !.token = cur.submitted]
      BY <1>4, <2>4, <2>5
    <2>6. CASE ensure_session_has_token(s)
      <3>1. CASE /\ stack' = Append(stack, s)
                 /\ cur' = [cur EXCEPT !.todo = Tail(@), !.token = s.data["csrf_token"]]
        BY <1>4, <2>4, <3>1
      <3>2. CASE /\ tokens' = tokens + 1 /\ stack' = Append(stack, add(s, "csrf_token", tokens'))
                 /\ s.data["csrf_token"] = 0
                 /\ cur' = [cur EXCEPT !.todo = Tail(@), !.token = tokens']
        <4>1. PICK t \in Nat \ {0} : t = tokens'
          BY <1>4, <3>2
        <4> DEFINE a == add(s, "csrf_token", t)
        <4>2. a \in Loose /\ a.data["csrf_token"] = t
          BY <1>4, <3>2, Updates
        <4>3. stack' = Append(stack, a) /\ cur' = [cur EXCEPT !.todo = Tail(@), !.token = t]
          BY <3>2, <4>1
        <4> HIDE DEF a
        <4> QED
          BY <2>4, <4>2, <4>3
      <3> QED
        BY <2>6, <3>1, <3>2 DEF ensure_session_has_token
    <2> QED
      BY <2>1, <2>3, <2>5, <2>6
  <1> QED
    BY <1>6, <1>7, <1>8 DEF Opens

\* Within a form or a login there is only a handler, and it does not change what changed.
LEMMA WithinForm ==
  ASSUME FormsInnermost, Typed, ChainInv, cur.phase = "in", cur.todo # <<>>, stack # <<>>,
         Last(stack).by \in {"csrf", "login"}
  PROVE  /\ Head(cur.todo) \in Handlers /\ Tail(cur.todo) = <<>>
         /\ OneChange => ~(Changes(cur.method, Last(stack).by) /\ Changes(cur.method, Head(cur.todo)))
  <1> DEFINE n == Len(stack)
  <1>1. cur \in Serving /\ cur # Idle /\ stack \in Seq(Objects) /\ cur.todo \in Seq(Names)
    BY Phases DEF Typed, Serving, Names
  <1>2. n \in Nat /\ n >= 1 /\ Last(stack) = stack[n]
    BY <1>1, LastAndFront
  <1>3. /\ Head(cur.todo) = cur.todo[1] /\ Len(cur.todo) \in Nat /\ Len(cur.todo) >= 1
        /\ Tail(cur.todo) \in Seq(Names) /\ Len(Tail(cur.todo)) = Len(cur.todo) - 1
    BY <1>1, FirstAndRest
  <1>4. PICK r \in Routes :
           /\ cur.method = r.method /\ Len(r.chain) \in Nat
           /\ \A k \in 1 .. n : k \in 1 .. Len(r.chain) /\ stack[k].by = r.chain[k]
           /\ \A k \in 1 .. Len(cur.todo) : n + k \in 1 .. Len(r.chain) /\ cur.todo[k] = r.chain[n + k]
           /\ n + Len(cur.todo) <= Len(r.chain)
    BY <1>1, RouteOf
  <1>5. n \in 1 .. n /\ 1 \in 1 .. Len(cur.todo)
    BY <1>2, <1>3
  <1>6. /\ n \in 1 .. Len(r.chain) /\ Last(stack).by = r.chain[n]
        /\ n + 1 \in 1 .. Len(r.chain) /\ Head(cur.todo) = r.chain[n + 1] /\ n < n + 1
    BY <1>2, <1>3, <1>4, <1>5
  <1>7. r.chain[n + 1] \in Handlers
    BY <1>6 DEF FormsInnermost
  <1>8. ~(n + 1 \in 1 .. Len(r.chain) - 1)
    BY <1>7, SessionAssumption DEF SessionAssumption, Opening, Handlers
  <1>9. Len(Tail(cur.todo)) = 0
    <2>1. \A a, b, c \in Nat :
             a + 1 \in 1 .. c /\ ~(a + 1 \in 1 .. c - 1) /\ a + b <= c /\ b >= 1 => b - 1 = 0
      OBVIOUS
    <2>2. Len(cur.todo) - 1 = 0
      BY <1>2, <1>3, <1>4, <1>6, <1>8, <2>1
    <2> QED
      BY <1>3, <2>2
  <1>10. Tail(cur.todo) = <<>>
    BY <1>3, <1>9, EmptySeq
  <1>11. OneChange => ~(Changes(cur.method, Last(stack).by) /\ Changes(cur.method, Head(cur.todo)))
    <2>1. OneChange => ~(Changes(r.method, r.chain[n]) /\ Changes(r.method, r.chain[n + 1]))
      BY <1>6 DEF OneChange
    <2> QED
      BY <1>4, <1>6, <2>1
  <1> QED
    BY <1>6, <1>7, <1>10, <1>11

\* A new session keeps what its element left, and nothing is open within a form or a login that
\* could change it.
LEMMA OpenStored ==
  ASSUME ~Faulty, OneChange, FormsInnermost, TableInv, StoredInv, Opens
  PROVE  StoredInv'
  <1> DEFINE n == Len(stack)
  <1>1. Typed /\ ChainInv
    BY DEF TableInv
  <1>2. PICK s0, s : cur.phase = "in" /\ cur.todo # <<>> /\ Effect(s0, s)
    BY <1>1, OpensEffect
  <1>3. /\ s0 \in SessionCtor /\ Open(s0) /\ s \in Loose /\ s.id = s0.id /\ s.set_cookie = s0.set_cookie
        /\ s.by = s0.by /\ s.by # "page" /\ stack' = Append(stack, s) /\ (~s.modified => s.data = s0.data)
        /\ cur'.phase \in {"in", "back"} /\ cur'.todo \in {Tail(cur.todo), <<>>}
        /\ cur'.method = cur.method /\ reply' \in {reply, NoReply}
    BY <1>2 DEF Effect, GoesOn
  <1>4. cur # Idle /\ cur' # Idle /\ n \in Nat /\ stack \in Seq(Objects) /\ stack \in Seq(Loose)
    <2>1. cur # Idle /\ cur' # Idle /\ n \in Nat
      BY <1>1, <1>2, OpenTyped, Phases
    <2>2. Objects \subseteq Loose
      BY <1>1 DEF Objects, Loose, Data, Names, Typed
    <2>3. stack \in Seq(Objects)
      BY <1>1 DEF Typed
    <2> QED
      BY <2>1, <2>2, <2>3, SeqMonotonic
  <1>5. /\ Append(stack, s) \in Seq(Loose) /\ Len(Append(stack, s)) = n + 1
        /\ Append(stack, s)[n + 1] = s /\ Append(stack, s) # <<>>
    BY <1>3, <1>4, Pushed
  <1>6. stack' # <<>> /\ Last(stack') = s
    <2>1. Last(Append(stack, s)) = Append(stack, s)[Len(Append(stack, s))]
      BY DEF Last
    <2> QED
      BY <1>3, <1>5, <2>1
  <1>7. ASSUME NEW x \in Loose, stack' = Append(stack, x) PROVE x = s
    <2>1. Append(stack, x)[n + 1] = x
      BY <1>4, Pushed
    <2> QED
      BY <1>3, <1>5, <1>7, <2>1
  <1>8. reply = NoReply /\ reply' = NoReply
    BY <1>2, <1>3, <1>4 DEF StoredInv
  <1>9. reply'.token = 0 /\ reply'.cookies = {}
    BY <1>8 DEF NoReply
  <1>10. s.by = Head(cur.todo) /\ s0.by = s.by
    BY <1>1, <1>2, <1>3, CtorSound
  <1>11. cur.token # 0 => cur'.todo = <<>> /\ s.by \in Handlers
    <2> SUFFICES ASSUME cur.token # 0 PROVE cur'.todo = <<>> /\ s.by \in Handlers
      OBVIOUS
    <2>1. Kept("csrf", "csrf_token", {cur.token})
      BY <1>2, <1>4 DEF StoredInv
    <2>2. stack # <<>> /\ Last(stack).by = "csrf"
      BY <1>2, <2>1 DEF Kept
    <2>3. Head(cur.todo) \in Handlers /\ Tail(cur.todo) = <<>>
      BY <1>1, <1>2, <2>2, WithinForm
    <2> QED
      BY <1>3, <1>10, <2>3
  <1>12. cur.user = 0
    <2> SUFFICES ASSUME cur.user # 0 PROVE FALSE
      OBVIOUS
    <2>1. cur.method = "POST" /\ Kept("login", "user_id", Nat \ {0})
      BY <1>2, <1>4 DEF StoredInv
    <2>2. stack # <<>> /\ Last(stack).by = "login"
      BY <1>2, <2>1 DEF Kept
    <2>3. /\ Head(cur.todo) \in Handlers
          /\ ~(Changes(cur.method, Last(stack).by) /\ Changes(cur.method, Head(cur.todo)))
      BY <1>1, <1>2, <2>2, WithinForm
    <2>4. Changes(cur.method, Last(stack).by)
      BY <2>1, <2>2 DEF Changes, Writes
    <2>5. Changes(cur.method, Head(cur.todo))
      BY <1>3, <1>10, <2>3 DEF Changes, Writes, Empties, Handlers
    <2> QED
      BY <2>3, <2>4, <2>5
  <1>13. LeavesForm
    BY <1>1, OpensForm
  <1>14. ASSUME cur'.token # 0, cur'.todo # <<>> PROVE Kept("csrf", "csrf_token", {cur.token})'
    <2>1. s.by = "csrf" /\ s.data["csrf_token"] = cur'.token
      <3>1. CASE cur'.token = cur.token
        BY <1>11, <1>14, <3>1
      <3>2. CASE Head(cur.todo) = "csrf" /\ \E x \in Loose : stack' = Append(stack, x) /\ x.data["csrf_token"] = cur'.token
        BY <1>7, <1>10, <3>2
      <3> QED
        BY <1>13, <3>1, <3>2 DEF LeavesForm
    <2>2. s.modified \/ (s.id \in DOMAIN table' /\ table'[s.id].data["csrf_token"] = s.data["csrf_token"])
      <3> SUFFICES ASSUME ~s.modified
                   PROVE  s.id \in DOMAIN table' /\ table'[s.id].data["csrf_token"] = s.data["csrf_token"]
        OBVIOUS
      <3>1. s.data # Empty
        BY <1>14, <2>1 DEF Empty, Keys
      <3>2. /\ s0.set_cookie => s0.data = Empty
            /\ ~s0.set_cookie => /\ s0.id \in DOMAIN table /\ table[s0.id].ts \in Nat /\ table[s0.id].ts > now
                                 /\ s0.data = table[s0.id].data \/ (Faulty /\ s0.data = Empty)
        BY <1>1, <1>2, <1>3, CtorSound
      <3>3. s.id \in DOMAIN table /\ table[s.id].ts \in Nat /\ table[s.id].ts > now /\ s.data = table[s.id].data
        BY <1>3, <3>1, <3>2
      <3>4. table[s.id].ts >= now
        BY <1>1, <3>3 DEF Typed
      <3>5. /\ \A i \in DOMAIN table' : table'[i] = table[i]
            /\ \A i \in DOMAIN table : table[i].ts >= now => i \in DOMAIN table'
        BY <1>1, <1>2, <1>3, OpenSids
      <3> QED
        BY <3>3, <3>4, <3>5
    <2> QED
      BY <1>6, <1>9, <2>1, <2>2 DEF Kept
  <1>15. ASSUME cur'.user # 0 PROVE cur'.method = "POST" /\ Kept("login", "user_id", Nat \ {0})'
    <2>1. /\ Head(cur.todo) = "login" /\ cur.method = "POST"
          /\ \E x \in Loose : stack' = Append(stack, x) /\ x.modified /\ x.data["user_id"] \in Nat \ {0}
      BY <1>12, <1>13, <1>15 DEF LeavesForm
    <2>2. s.by = "login" /\ s.modified /\ s.data["user_id"] \in Nat \ {0}
      BY <1>7, <1>10, <2>1
    <2> QED
      BY <1>3, <1>6, <1>9, <2>1, <2>2 DEF Kept
  <1> QED
    BY <1>8, <1>9, <1>14, <1>15 DEF StoredInv

\* The session of a form or of a login writes what it keeps, and those around it leave it.
LEMMA DtorKept ==
  ASSUME ~Faulty, FormsInnermost, TableInv, SessionDtor, cur.phase # "unwind",
         NEW e \in {"csrf", "login"}, NEW key \in Keys, NEW vals, 0 \notin vals, Kept(e, key, vals)
  PROVE  Kept(e, key, vals)' /\ reply'.token = reply.token
  <1> DEFINE s == Last(stack)
             n == Len(stack)
  <1>1. Typed /\ ChainInv /\ ObjectInv
    BY DEF TableInv
  <1>2. /\ cur # Idle /\ cur \in Serving /\ cur'.method = cur.method /\ cur'.cookie = cur.cookie
        /\ cur' \in Serving /\ cur'.phase # "in" /\ cur'.phase # "unwind"
        /\ n \in Nat /\ n \in 1 .. n /\ s = stack[n] /\ s \in Objects /\ stack # <<>> /\ Len(stack') = n - 1
        /\ \A k \in 1 .. Len(stack') : stack'[k] = stack[k] /\ k \in 1 .. n /\ k < n
    BY <1>1, DtorStack
  <1>3. cur'.phase = "back"
    BY <1>2 DEF Serving
  <1>4. CASE /\ reply.cookies = {} /\ s.by = e /\ s.data[key] \in vals
             /\ s.modified \/ (s.id \in DOMAIN table /\ table[s.id].data[key] = s.data[key])
    <2>1. s.data # Empty
      BY <1>4 DEF Empty
    <2>2. Persist(s)
      BY <2>1 DEF SessionDtor
    <2>3. /\ s.set_cookie \in BOOLEAN /\ s.modified \in BOOLEAN /\ s.id \in 0 .. sids
      BY <1>1, <1>2 DEF Objects, Typed
    <2>4. /\ ~s.set_cookie => s.id = cur.cookie
          /\ s.set_cookie /\ ~s.modified => s.data = Empty
      BY <1>1, <1>2 DEF ObjectInv
    <2>5. Held' = s.id /\ reply'.token = reply.token
      <3>1. CASE s.set_cookie
        <4>1. SetCookie(s.id, now + Lifetime)
          BY <2>2, <3>1 DEF Persist
        <4>2. now + Lifetime \in 0 .. MaxTime + Lifetime
          BY <1>1, SessionAssumption DEF SessionAssumption, Typed
        <4>3. reply'.cookies = {[id |-> s.id, expires |-> now + Lifetime]} /\ reply'.token = reply.token
          BY <1>1, <2>3, <4>1, <4>2, CookieSet
        <4>4. PICK c : c = [id |-> s.id, expires |-> now + Lifetime]
          OBVIOUS
        <4>5. reply'.cookies = {c}
          BY <4>3, <4>4
        <4>6. Held' = c.id
          BY <4>5 DEF Held
        <4>7. c.id = s.id
          BY <4>4
        <4> QED
          BY <4>3, <4>6, <4>7
      <3>2. CASE ~s.set_cookie
        <4>1. reply' = reply
          BY <2>2, <3>2 DEF Persist
        <4> QED
          BY <1>2, <1>4, <2>4, <3>2, <4>1 DEF Held
      <3> QED
        BY <2>3, <3>1, <3>2
    <2>6. s.id \in DOMAIN table' /\ table'[s.id].data[key] \in vals
      <3>1. CASE s.modified
        <4>1. table' = write(table, s.id, s.data)
          BY <2>2, <3>1 DEF Persist
        <4>2. s.id \in DOMAIN table' /\ table'[s.id].data = s.data
          BY <4>1, RowWritten
        <4> QED
          BY <1>4, <4>2
      <3>2. CASE ~s.modified
        <4>1. UNCHANGED table
          BY <2>2, <3>2 DEF Persist
        <4> QED
          BY <1>4, <3>2, <4>1
      <3> QED
        BY <3>1, <3>2
    <2>7. PICK r \in Routes :
             /\ cur.method = r.method
             /\ \A k \in 1 .. n : k \in 1 .. Len(r.chain) /\ stack[k].by = r.chain[k]
      BY <1>1, <1>2, RouteOf
    <2>8. ASSUME NEW k \in 1 .. Len(stack') PROVE ~Changes(cur.method, stack'[k].by)
      <3>1. stack'[k] = stack[k] /\ k \in 1 .. n /\ k < n
        BY <1>2
      <3>2. /\ k \in 1 .. Len(r.chain) /\ n \in 1 .. Len(r.chain)
            /\ stack[k].by = r.chain[k] /\ r.chain[n] = e
        BY <1>2, <1>4, <2>7, <3>1
      <3>3. ~Changes(r.method, r.chain[k])
        BY <3>1, <3>2 DEF FormsInnermost
      <3> QED
        BY <2>7, <3>1, <3>2, <3>3
    <2> QED
      BY <1>2, <1>3, <2>5, <2>6, <2>8 DEF Kept
  <1>5. CASE /\ \A k \in 1 .. n : ~Changes(cur.method, stack[k].by)
             /\ Held \in DOMAIN table /\ table[Held].data[key] \in vals
    <2>1. UNCHANGED <<table, reply>>
      BY <1>1, <1>2, <1>5, QuietDtor
    <2>2. Held' = Held
      BY <1>2, <2>1 DEF Held
    <2>3. \A k \in 1 .. Len(stack') : ~Changes(cur'.method, stack'[k].by)
      BY <1>2, <1>5
    <2> QED
      BY <1>3, <1>5, <2>1, <2>2, <2>3 DEF Kept
  <1> QED
    BY <1>4, <1>5 DEF Kept

LEMMA DtorStored ==
  ASSUME ~Faulty, FormsInnermost, TableInv, StoredInv, SessionDtor
  PROVE  StoredInv'
  <1>1. Typed
    BY DEF TableInv
  <1>2. /\ cur # Idle /\ cur.todo = <<>> /\ cur'.todo = <<>> /\ cur'.phase # "in"
        /\ (cur'.phase = "unwind" <=> cur.phase = "unwind") /\ cur'.method = cur.method
        /\ cur'.user = cur.user /\ cur'.token = cur.token /\ Last(stack) \in Objects
    BY <1>1, DtorStack
  <1> SUFFICES ASSUME cur.phase # "unwind" PROVE StoredInv'
    BY <1>2 DEF StoredInv
  <1>3. /\ reply.token \in {0, cur.token}
        /\ cur.token # 0 /\ reply.token # 0 => Kept("csrf", "csrf_token", {cur.token})
        /\ cur.user # 0 => cur.method = "POST" /\ Kept("login", "user_id", Nat \ {0})
    BY <1>2 DEF StoredInv
  <1>4. reply'.token = reply.token
    <2> DEFINE s == Last(stack)
    <2>1. ASSUME NEW id \in 0 .. sids, NEW e \in 0 .. MaxTime + Lifetime, SetCookie(id, e)
          PROVE  reply'.token = reply.token
      BY <1>1, <2>1, CookieSet
    <2>2. /\ 0 \in 0 .. sids /\ s.id \in 0 .. sids
          /\ 0 \in 0 .. MaxTime + Lifetime /\ now + Lifetime \in 0 .. MaxTime + Lifetime
      BY <1>1, <1>2, SessionAssumption DEF SessionAssumption, Typed, Objects
    <2>3. UNCHANGED reply \/ SetCookie(s.id, now + Lifetime) \/ SetCookie(0, 0)
      BY DtorEffect
    <2> QED
      BY <2>1, <2>2, <2>3
  <1>5. cur.token # 0 /\ reply.token # 0 => Kept("csrf", "csrf_token", {cur.token})'
    <2> SUFFICES ASSUME cur.token # 0, reply.token # 0 PROVE Kept("csrf", "csrf_token", {cur.token})'
      OBVIOUS
    <2>1. PICK v : v = cur.token /\ v = cur'.token
      BY <1>2
    <2>2. Kept("csrf", "csrf_token", {v})
      BY <1>3, <2>1
    <2>3. "csrf_token" \in Keys /\ 0 \notin {v}
      BY <2>1 DEF Keys
    <2>4. Kept("csrf", "csrf_token", {v})'
      BY <2>2, <2>3, DtorKept
    <2> QED
      BY <2>1, <2>4 DEF Kept
  <1>6. cur.user # 0 => cur'.method = "POST" /\ Kept("login", "user_id", Nat \ {0})'
    <2>1. "user_id" \in Keys /\ 0 \notin Nat \ {0}
      BY DEF Keys
    <2> QED
      BY <1>2, <1>3, <2>1, DtorKept
  <1> QED
    BY <1>2, <1>3, <1>4, <1>5, <1>6 DEF StoredInv

LEMMA NextStored ==
  ASSUME ~Faulty, OneChange, FormsInnermost, TableInv, StoredInv, [Next]_vars
  PROVE  StoredInv'
  <1>1. Typed
    BY DEF TableInv
  <1>2. CASE Opens
    BY <1>2, OpenStored
  <1>3. CASE SessionDtor
    BY <1>3, DtorStored
  <1>4. CASE PageHandler
    <2>1. /\ cur.phase = "in" /\ cur.todo # <<>> /\ reply' = [reply EXCEPT !.token = cur.token]
          /\ UNCHANGED <<table, stack>> /\ Ends("back")
      BY <1>4 DEF PageHandler, Called, Ends
    <2>2. /\ cur # Idle /\ cur'.phase = "back" /\ cur'.todo = <<>> /\ cur'.method = cur.method
          /\ cur'.user = cur.user /\ cur'.token = cur.token
      BY <1>1, <2>1, EndsRequest
    <2>3. reply = NoReply
      BY <2>1, <2>2 DEF StoredInv
    <2>4. reply'.cookies = {} /\ reply'.token = cur.token
      BY <2>1, <2>3 DEF NoReply
    <2>5. ASSUME NEW e, NEW key, NEW vals, Kept(e, key, vals)
          PROVE  /\ stack # <<>>
                 /\ LET s == Last(stack) IN
                      /\ s.by = e /\ s.data[key] \in vals
                      /\ s.modified \/ (s.id \in DOMAIN table /\ table[s.id].data[key] = s.data[key])
      BY <2>1, <2>5 DEF Kept
    <2>6. cur.token # 0 => Kept("csrf", "csrf_token", {cur.token})'
      <3>1. cur.token # 0 => Kept("csrf", "csrf_token", {cur.token})
        BY <2>1, <2>2 DEF StoredInv
      <3> QED
        BY <2>1, <2>2, <2>4, <2>5, <3>1 DEF Kept
    <2>7. cur.user # 0 => cur.method = "POST" /\ Kept("login", "user_id", Nat \ {0})'
      <3>1. cur.user # 0 => cur.method = "POST" /\ Kept("login", "user_id", Nat \ {0})
        BY <2>1, <2>2 DEF StoredInv
      <3> QED
        BY <2>1, <2>2, <2>4, <2>5, <3>1 DEF Kept
    <2> QED
      BY <2>2, <2>4, <2>6, <2>7 DEF StoredInv
  <1>5. CASE Throw
    <2>1. cur.phase = "in" /\ Ends("unwind")
      BY <1>5 DEF Throw, Ends
    <2>2. cur'.phase = "unwind"
      BY <1>1, <2>1, EndsRequest
    <2> QED
      BY <2>2 DEF StoredInv
  <1>6. CASE \E r \in flight : Begin(r)
    <2>1. cur'.user = 0 /\ cur'.token = 0 /\ reply' = NoReply
      BY <1>6 DEF Begin
    <2>2. reply'.token = 0
      BY <2>1 DEF NoReply
    <2> QED
      BY <2>1, <2>2 DEF StoredInv
  <1>7. CASE Respond \/ Crash
    BY <1>7 DEF Respond, Crash, StoredInv
  <1>8. CASE Outside
    <2>1. UNCHANGED <<table, cur, stack, reply>>
      BY <1>1, <1>8, OutsideTyped
    <2>2. ASSUME NEW e, NEW key, NEW vals, Kept(e, key, vals) PROVE Kept(e, key, vals)'
      BY <2>1, <2>2 DEF Kept, Held
    <2>3. Kept("csrf", "csrf_token", {cur.token}) => Kept("csrf", "csrf_token", {cur.token})'
      <3>1. PICK v : v = {cur.token} /\ v = {cur'.token}
        BY <2>1
      <3>2. Kept("csrf", "csrf_token", v) => Kept("csrf", "csrf_token", v)'
        BY <2>2
      <3> QED
        BY <3>1, <3>2 DEF Kept
    <2> QED
      BY <2>1, <2>2, <2>3 DEF StoredInv
  <1> QED
    BY <1>2, <1>3, <1>4, <1>5, <1>6, <1>7, <1>8, Steps

\* When a response is complete, the token of its form and the user it logged in are stored under
\* the cookie its client will have, if forms and logins are innermost and no statement on the table
\* fails (CSRFMiddleware::handle, SessionLoginController::handle, Session::~Session).
THEOREM FormsAndLoginsStored ==
  ASSUME ~Faulty, OneChange, FormsInnermost
  PROVE  Spec => []RequestStored
  <1>1. RoutesOrdered
    BY OneChangeOrders
  <1>2. Init => StoredInv
    BY DEF Init, StoredInv
  <1>3. TableInv /\ StoredInv /\ [Next]_vars => StoredInv'
    BY NextStored
  <1>4. TableInv /\ StoredInv => RequestStored
    <2> SUFFICES ASSUME TableInv, StoredInv, Handled, cur.phase = "back"
                 PROVE  /\ reply.token # 0 =>
                              Held \in DOMAIN table /\ table[Held].data["csrf_token"] = reply.token
                        /\ cur.user # 0 =>
                              Held \in DOMAIN table /\ table[Held].data["user_id"] # 0
      BY DEF RequestStored, PageTokenStored, LoginKept
    <2>1. cur # Idle /\ stack = <<>>
      BY Phases DEF TableInv, Handled
    <2>2. \A e, key, vals : Kept(e, key, vals) => Held \in DOMAIN table /\ table[Held].data[key] \in vals
      BY <2>1 DEF Kept
    <2>3. /\ reply.token \in {0, cur.token}
          /\ cur.token # 0 /\ reply.token # 0 => Kept("csrf", "csrf_token", {cur.token})
          /\ cur.user # 0 => Kept("login", "user_id", Nat \ {0})
      BY <2>1 DEF StoredInv
    <2> QED
      BY <2>2, <2>3
  <1> QED
    BY <1>1, <1>2, <1>3, <1>4, TableInvariance, PTL DEF Spec
=============================================================================
