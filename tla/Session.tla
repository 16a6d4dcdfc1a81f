------------------------------ MODULE Session ------------------------------
(***************************************************************************)
(* Cookie sessions: ws::Session with SQLite3SessionManager behind it, the  *)
(* middleware that opens one (SessionRequireAuth, SessionCheckAuth,        *)
(* SessionLoginController, SessionLogoutController, CSRFMiddleware) and    *)
(* the handlers of a route, which may open one too.                        *)
(*                                                                         *)
(* A Session object lives as long as the scope that declares it, so the    *)
(* sessions of one request form a stack: a middleware's session is         *)
(* constructed before ctx.next() and destroyed after it.  Each has its own *)
(* copy of the row it read, and each decides in its destructor what to do  *)
(* with the row and with the one Set-Cookie header of the response.        *)
(* HttpServer runs all handlers on one thread, so one request is served at *)
(* a time, but requests of a browser are in flight together: the cookie a  *)
(* request carries is the one the browser had when it sent it.             *)
(***************************************************************************)
EXTENDS Naturals, Sequences, FiniteSets, SequencesExt

CONSTANTS
    Users,        \* users the authentication provider accepts, positive numbers
    Routes,       \* registered routes: [method, chain], a chain ends in a handler
    MaxRequests,  \* bound: requests the browser sends
    MaxInFlight,  \* bound: requests and responses of the browser under way
    MaxTime,      \* bound: clock
    Lifetime,     \* session_id_max_lifetime_ and session_cookie_expiration_
    Faulty        \* TRUE if a statement on the session database may fail

Opening  == {"require", "check", "login", "logout", "csrf"}
Handlers == {"page", "store", "clear"}

ASSUME SessionAssumption ==
    /\ Users \subseteq Nat \ {0}
    /\ MaxRequests \in Nat /\ MaxInFlight \in Nat /\ MaxTime \in Nat
    /\ Lifetime \in Nat \ {0}
    /\ Faulty \in BOOLEAN
    /\ \A r \in Routes :
         /\ r.method \in {"GET", "POST"}
         /\ r.chain \in Seq(Opening \cup Handlers)
         /\ r.chain # <<>> /\ Last(r.chain) \in Handlers
         /\ \A i \in 1 .. Len(r.chain) - 1 : r.chain[i] \in Opening

VARIABLES
    now,       \* the system clock, in seconds
    table,     \* the sessions table: sid -> [data, ts]
    sids,      \* session ids generated so far; ids are 1 .. sids
    tokens,    \* CSRF tokens generated so far
    jar,       \* the browser's session cookie, id 0 when it has none
    page,      \* the CSRF token in the form the browser shows, 0 for none
    sent,      \* number of requests sent
    flight,    \* requests on their way to the server
    cur,       \* the request being served
    stack,     \* its live Session objects, innermost last
    reply,     \* its response_: [cookies, token], cookies the Set-Cookie header
    outbox,    \* responses on their way to the browser
    granted,   \* history: <<sid, user>> logged in and not logged out since
    removed    \* history: sids a destructor deleted

vars == <<now, table, sids, tokens, jar, page, sent, flight, cur, stack, reply,
          outbox, granted, removed>>

-----------------------------------------------------------------------------
(* Session data: a std::map, here total with 0 for an absent key.          *)

Keys  == {"user_id", "csrf_token", "item"}
Empty == [k \in Keys |-> 0]

NoCookie == [id |-> 0, expires |-> 0]
NoReply  == [cookies |-> {}, token |-> 0]
Idle     == [phase |-> "idle"]

Init ==
    /\ now = 0 /\ table = <<>> /\ sids = 0 /\ tokens = 0
    /\ jar = NoCookie /\ page = 0 /\ sent = 0 /\ flight = {}
    /\ cur = Idle /\ stack = <<>> /\ reply = NoReply /\ outbox = {}
    /\ granted = {} /\ removed = {}

\* Session::add: emplace never overwrites, the object is modified either way.
add(s, key, val) ==
    [s EXCEPT !.modified = TRUE,
              !.data = IF @[key] = 0 THEN [@ EXCEPT ![key] = val] ELSE @]

\* A bug: the session is not marked modified.
remove_unmarked(s, key) == [s EXCEPT !.data[key] = 0]

\* Session::remove.
remove(s, key) == [s EXCEPT !.modified = TRUE, !.data[key] = 0]

\* Session::clear.
clear(s) == [s EXCEPT !.modified = TRUE, !.data = Empty]

-----------------------------------------------------------------------------
(* SQLite3SessionManager.                                                  *)

\* deleteSessions(now), which gc() runs on some of its calls.
deleteSessions(t) == [i \in {j \in DOMAIN t : t[j].ts >= now} |-> t[i]]

\* contains(id): the row exists and has not expired.
contains(id) == id \in DOMAIN table /\ table[id].ts > now

\* REPLACE INTO sessions.
write(t, id, data) ==
    [i \in DOMAIN t \cup {id} |->
        IF i = id THEN [data |-> data, ts |-> now + Lifetime] ELSE t[i]]

\* DELETE FROM sessions WHERE sid = ?.
delete(t, id) == [i \in DOMAIN t \ {id} |-> t[i]]

\* A bug: the constructor forgets that the id is new.
SessionCtorForgetsNew ==
    {[id |-> IF contains(cur.cookie) THEN cur.cookie ELSE sids + 1,
      data |-> IF contains(cur.cookie) THEN table[cur.cookie].data ELSE Empty,
      set_cookie |-> FALSE, modified |-> FALSE, by |-> Head(cur.todo)]}

\* Session::Session.  open() may collect garbage, which contains() does not see.
\* A valid cookie gives the row's data (none if the read fails, which the
\* constructor ignores), any other cookie a fresh id.
SessionCtor ==
    IF contains(cur.cookie)
    THEN {[id |-> cur.cookie, data |-> d, set_cookie |-> FALSE,
           modified |-> FALSE, by |-> Head(cur.todo)] :
              d \in {table[cur.cookie].data} \cup (IF Faulty THEN {Empty} ELSE {})}
    ELSE {[id |-> sids + 1, data |-> Empty, set_cookie |-> TRUE,
           modified |-> FALSE, by |-> Head(cur.todo)]}

-----------------------------------------------------------------------------
(* A request passes through the chain of its route.                        *)

\* The chain element just called constructs the session s.
Open(s) ==
    /\ sids' = IF s.set_cookie THEN s.id ELSE sids
    /\ table' \in {table, deleteSessions(table)}
    /\ UNCHANGED <<now, jar, page, sent, flight, outbox, removed>>

Called(name) == cur.phase = "in" /\ cur.todo # <<>> /\ Head(cur.todo) = name

\* MiddlewareContext::next, with s the caller's session.
next(s) ==
    /\ stack' = Append(stack, s)
    /\ cur' = [cur EXCEPT !.todo = Tail(@)]

\* res = stockReply(forbidden) ; return, with s still to be destroyed.
forbidden(s) ==
    /\ stack' = Append(stack, s)
    /\ cur' = [cur EXCEPT !.todo = <<>>, !.phase = "back"]
    /\ reply' = NoReply

SessionRequireAuth ==
    /\ Called("require")
    /\ \E s \in SessionCtor :
         /\ Open(s)
         /\ \/ s.data["user_id"] = 0 /\ forbidden(s)
            \/ s.data["user_id"] # 0 /\ next(s) /\ UNCHANGED reply
    /\ UNCHANGED <<tokens, granted>>

SessionCheckAuth ==
    /\ Called("check")
    /\ \E s \in SessionCtor : Open(s) /\ next(s)
    /\ UNCHANGED <<tokens, reply, granted>>

\* user is what authenticate() returned, 0 for null.
SessionLoginController ==
    /\ Called("login")
    /\ \E s \in SessionCtor :
         /\ Open(s)
         /\ \/ /\ cur.method = "POST"
               /\ \E user \in Users :
                    /\ stack' = Append(stack, add(s, "user_id", user))
                    /\ cur' = [cur EXCEPT !.todo = Tail(@), !.user = user]
                    /\ granted' = granted \cup {<<s.id, user>>}
            \/ next(s) /\ UNCHANGED granted    \* a GET, or refused credentials
    /\ UNCHANGED <<tokens, reply>>

SessionLogoutController ==
    /\ Called("logout")
    /\ \E s \in SessionCtor :
         /\ Open(s)
         /\ next(IF s.data["user_id"] # 0 THEN remove(s, "user_id") ELSE s)
    /\ UNCHANGED <<tokens, reply, granted>>

\* A bug: a token for every view; add() keeps the old one in the session.
ensure_always_generates(s) ==
    /\ tokens' = tokens + 1
    /\ stack' = Append(stack, add(s, "csrf_token", tokens'))
    /\ cur' = [cur EXCEPT !.todo = Tail(@), !.token = tokens']

\* The session's token, generated and added if it has none, for the form.
ensure_session_has_token(s) ==
    \/ /\ s.data["csrf_token"] # 0
       /\ stack' = Append(stack, s)
       /\ cur' = [cur EXCEPT !.todo = Tail(@), !.token = s.data["csrf_token"]]
       /\ UNCHANGED tokens
    \/ /\ s.data["csrf_token"] = 0
       /\ tokens' = tokens + 1
       /\ stack' = Append(stack, add(s, "csrf_token", tokens'))
       /\ cur' = [cur EXCEPT !.todo = Tail(@), !.token = tokens']

CSRFMiddleware ==
    /\ Called("csrf")
    /\ \E s \in SessionCtor :
         /\ Open(s)
         /\ \/ cur.method = "GET" /\ ensure_session_has_token(s) /\ UNCHANGED reply
            \/ /\ cur.method = "POST"
               /\ cur.submitted = 0 \/ cur.submitted # s.data["csrf_token"]
               /\ forbidden(s) /\ UNCHANGED tokens
            \/ /\ cur.method = "POST"
               /\ cur.submitted # 0 /\ cur.submitted = s.data["csrf_token"]
               /\ stack' = Append(stack, s)
               /\ cur' = [cur EXCEPT !.todo = Tail(@), !.token = cur.submitted]
               /\ UNCHANGED <<tokens, reply>>
    /\ UNCHANGED granted

\* A handler that opens a session and stores an entry, or clears it.
SessionHandler ==
    /\ \/ Called("store") /\ \E s \in SessionCtor : Open(s) /\ next(add(s, "item", 1))
       \/ Called("clear") /\ \E s \in SessionCtor : Open(s) /\ next(clear(s))
    /\ UNCHANGED <<tokens, reply, granted>>

\* A handler that renders a form with the token the middleware left, if any.
PageHandler ==
    /\ Called("page")
    /\ cur' = [cur EXCEPT !.todo = <<>>, !.phase = "back"]
    /\ reply' = [reply EXCEPT !.token = cur.token]
    /\ UNCHANGED <<now, table, sids, tokens, jar, page, sent, flight, stack,
                   outbox, granted, removed>>

\* A constructor, a middleware or the handler throws a std::runtime_error.
Throw ==
    /\ cur.phase = "in"
    /\ cur' = [cur EXCEPT !.todo = <<>>, !.phase = "unwind"]
    /\ UNCHANGED <<now, table, sids, tokens, jar, page, sent, flight, stack,
                   reply, outbox, granted, removed>>

-----------------------------------------------------------------------------
(* Session::~Session, on return and during unwinding alike.                *)

SetCookie(id, expires) ==
    reply' = [reply EXCEPT !.cookies = {[id |-> id, expires |-> expires]}]

\* A bug: emptied data is written back like any other.
InvalidateWritesBack(s) ==
    /\ table' = IF s.modified THEN write(table, s.id, s.data) ELSE table
    /\ UNCHANGED <<reply, removed>>

\* Empty data under a new id leaves nothing, under an old one deletes it.
Invalidate(s) ==
    \/ s.set_cookie /\ UNCHANGED <<reply, table, removed>>
    \/ /\ ~s.set_cookie
       /\ SetCookie(0, 0)
       /\ \/ table' = delete(table, s.id) /\ removed' = removed \cup {s.id}
          \/ Faulty /\ UNCHANGED <<table, removed>>

\* A bug: the row is written whether or not the session changed it.
PersistAlways(s) ==
    /\ IF s.set_cookie THEN SetCookie(s.id, now + Lifetime) ELSE UNCHANGED reply
    /\ table' = write(table, s.id, s.data)
    /\ UNCHANGED removed

\* Data is announced under a new id and written if it was modified.
Persist(s) ==
    /\ IF s.set_cookie THEN SetCookie(s.id, now + Lifetime) ELSE UNCHANGED reply
    /\ \/ s.modified /\ table' = write(table, s.id, s.data)
       \/ (s.modified => Faulty) /\ UNCHANGED table
    /\ UNCHANGED removed

SessionDtor ==
    /\ cur.phase # "idle" /\ cur.todo = <<>> /\ stack # <<>>
    /\ LET s == Last(stack) IN
         /\ IF s.data = Empty THEN Invalidate(s) ELSE Persist(s)
         /\ granted' = IF s.by = "logout"
                       THEN {g \in granted : g[1] # s.id} ELSE granted
    /\ stack' = Front(stack)
    /\ cur' = [cur EXCEPT !.phase = IF @ = "in" THEN "back" ELSE @]
    /\ UNCHANGED <<now, sids, tokens, jar, page, sent, flight, outbox>>

-----------------------------------------------------------------------------
(* Connection: one request after the other, a response for each.           *)

\* handler_->handle(request_, response_) starts on some request in flight.
Begin(r) ==
    /\ cur.phase = "idle" /\ r \in flight
    /\ flight' = flight \ {r}
    /\ cur' = [phase |-> "in", method |-> r.route.method, todo |-> r.route.chain,
               cookie |-> r.cookie, submitted |-> r.submitted, n |-> r.n,
               user |-> 0, token |-> 0, first |-> sids]
    /\ reply' = NoReply
    /\ UNCHANGED <<now, table, sids, tokens, jar, page, sent, stack, outbox,
                   granted, removed>>

Handled == cur.phase \in {"back", "unwind"} /\ stack = <<>>

\* The response is written; after an exception it is a stock reply.
Respond ==
    /\ Handled
    /\ outbox' = outbox \cup {[n |-> cur.n,
                               answer |-> IF cur.phase = "unwind" THEN NoReply ELSE reply]}
    /\ cur' = Idle /\ reply' = NoReply
    /\ UNCHANGED <<now, table, sids, tokens, jar, page, sent, flight, stack,
                   granted, removed>>

\* The process dies while serving a request; the table is on disk.
Crash ==
    /\ cur # Idle
    /\ cur' = Idle /\ stack' = <<>> /\ reply' = NoReply
    /\ UNCHANGED <<now, table, sids, tokens, jar, page, sent, flight, outbox,
                   granted, removed>>

-----------------------------------------------------------------------------
(* The browser and the clock.                                              *)

\* A request with the cookie and the form token the browser has now.
Send(route) ==
    /\ sent < MaxRequests
    /\ Cardinality(flight) + Cardinality(outbox) < MaxInFlight
    /\ sent' = sent + 1
    /\ flight' = flight \cup {[n |-> sent + 1, route |-> route, submitted |-> page,
                               cookie |-> IF jar.expires > now THEN jar.id ELSE 0]}
    /\ UNCHANGED <<now, table, sids, tokens, jar, page, cur, stack, reply, outbox,
                   granted, removed>>

\* Responses arrive in any order.
Deliver(r) ==
    /\ r \in outbox
    /\ outbox' = outbox \ {r}
    /\ jar' \in IF r.answer.cookies = {} THEN {jar} ELSE r.answer.cookies
    /\ page' = IF r.answer.token # 0 THEN r.answer.token ELSE page
    /\ UNCHANGED <<now, table, sids, tokens, sent, flight, cur, stack, reply,
                   granted, removed>>

Lose(r) ==
    /\ r \in outbox
    /\ outbox' = outbox \ {r}
    /\ UNCHANGED <<now, table, sids, tokens, jar, page, sent, flight, cur, stack,
                   reply, granted, removed>>

Tick ==
    /\ now < MaxTime /\ now' = now + 1
    /\ UNCHANGED <<table, sids, tokens, jar, page, sent, flight, cur, stack, reply,
                   outbox, granted, removed>>

Next ==
    \/ SessionRequireAuth \/ SessionCheckAuth \/ SessionLoginController
    \/ SessionLogoutController \/ CSRFMiddleware \/ SessionHandler \/ PageHandler
    \/ Throw \/ SessionDtor \/ Respond \/ Crash \/ Tick
    \/ \E r \in flight : Begin(r)
    \/ \E route \in Routes : Send(route)
    \/ \E r \in outbox : Deliver(r) \/ Lose(r)

Spec == Init /\ [][Next]_vars

-----------------------------------------------------------------------------
(* Properties.                                                             *)

SessionObject == [id : Nat, data : [Keys -> Nat], set_cookie : BOOLEAN,
                  modified : BOOLEAN, by : Opening \cup Handlers]
Cookie == [id : Nat, expires : Nat]

\* Every variable has its type; a row is kept under an id that was generated.
TypeOK ==
    /\ now \in 0 .. MaxTime /\ sids \in Nat /\ tokens \in Nat
    /\ sent \in 0 .. MaxRequests /\ page \in 0 .. tokens
    /\ DOMAIN table \subseteq 1 .. sids
    /\ \A i \in DOMAIN table : table[i].data \in [Keys -> Nat] /\ table[i].ts \in Nat
    /\ jar \in Cookie /\ jar.id <= sids
    /\ \A i \in DOMAIN stack : stack[i] \in SessionObject
    /\ reply.cookies \subseteq Cookie /\ Cardinality(reply.cookies) <= 1
    /\ cur.phase \in {"idle", "in", "back", "unwind"}
    /\ cur = Idle => stack = <<>>

\* No row is stored without data: an emptied session is deleted, never written
\* back empty (the contract of SessionManager::write), whatever the nesting of
\* sessions, exceptions, failed statements and crashes.
RowsNonEmpty == \A i \in DOMAIN table : table[i].data # Empty

\* "Clearing the data will delete them from the server": once a destructor has
\* deleted a session's row, no destructor of an enclosing session, and no request
\* sent earlier with the same cookie, brings it back.
NeverResurrected == removed \cap DOMAIN table = {}

\* A row that says a user is logged in belongs to a session in which that user
\* logged in and which has not been logged out since: no outer session, late
\* request or crash undoes a logout that has taken effect.
AuthSound ==
    \A i \in DOMAIN table :
        table[i].data["user_id"] # 0 => <<i, table[i].data["user_id"]>> \in granted

\* The session cookie the browser will have if it gets this response.
Held == IF reply.cookies = {} THEN cur.cookie ELSE (CHOOSE c \in reply.cookies : TRUE).id

\* Every row a request created under a new id is announced in its response:
\* with a single Set-Cookie header, no other session of the request may have
\* replaced it.
NewSessionAnnounced ==
    Handled /\ cur.phase = "back" =>
        \A i \in DOMAIN table : i > cur.first => i = Held

\* The token in a form that is sent out is the one stored in the session the
\* browser will post it with, so that the form can be submitted.
PageTokenStored ==
    Handled /\ cur.phase = "back" /\ reply.token # 0 =>
        Held \in DOMAIN table /\ table[Held].data["csrf_token"] = reply.token

\* When a successful login is answered, the session the browser will use next
\* has a user stored in the table.
LoginKept ==
    Handled /\ cur.phase = "back" /\ cur.user # 0 =>
        Held \in DOMAIN table /\ table[Held].data["user_id"] # 0

\* What a request stored for its client is there when the response is sent: the
\* token of its form and the user who logged in (csrf.cpp, authenticator.cpp).
RequestStored == PageTokenStored /\ LoginKept

\* Whatever statement fails, the table stays sound: its rows have their types and
\* are not empty, and those a destructor deleted stay deleted.
TableSound == TypeOK /\ RowsNonEmpty /\ NeverResurrected
-----------------------------------------------------------------------------
(* Which chains are sound.  Two sessions of one request that have the same *)
(* row each have a copy of it, and the outer one is written last.          *)

\* An element of a chain that may write its session back, and one that may
\* find or leave it empty and so delete it.
Writes(m, e) ==
    e \in {"logout", "store"} \/ (e = "login" /\ m = "POST") \/ (e = "csrf" /\ m = "GET")
Empties(e) == e \in {"logout", "clear"} \/ (Faulty /\ e # "page")
Changes(m, e) == Writes(m, e) \/ Empties(e)

\* No session that is written back encloses one that is deleted, and nothing is
\* written back within a logout.
RoutesOrdered ==
    \A r \in Routes : \A a, b \in 1 .. Len(r.chain) :
        a < b => /\ Writes(r.method, r.chain[a]) => ~Empties(r.chain[b])
                 /\ r.chain[a] = "logout" => ~Writes(r.method, r.chain[b])

\* Of the sessions of a request at most one changes.
OneChange ==
    \A r \in Routes : \A a, b \in 1 .. Len(r.chain) :
        a < b => ~(Changes(r.method, r.chain[a]) /\ Changes(r.method, r.chain[b]))

\* A form's token and a login come from the innermost session, and the sessions
\* around it do not change.
FormsInnermost ==
    \A r \in Routes : \A a, b \in 1 .. Len(r.chain) :
        a < b => /\ r.chain[a] \in {"csrf", "login"} => r.chain[b] \in Handlers
                 /\ r.chain[b] \in {"csrf", "login"} => ~Changes(r.method, r.chain[a])

-----------------------------------------------------------------------------
(* The inductive invariants behind the properties of the table.            *)

Data    == {d \in [Keys -> Nat] : d["csrf_token"] <= tokens}
Cookies == [id : 0 .. sids, expires : 0 .. MaxTime + Lifetime]
Answers == [cookies : {{}} \cup {{c} : c \in Cookies}, token : 0 .. tokens]
Objects == [id : 1 .. sids, data : Data, set_cookie : BOOLEAN, modified : BOOLEAN,
            by : Opening \cup Handlers]
Sent    == [n : Nat, route : Routes, submitted : 0 .. tokens, cookie : 0 .. sids]
Serving == [phase : {"in", "back", "unwind"}, method : {"GET", "POST"},
            todo : Seq(Opening \cup Handlers), cookie : 0 .. sids, submitted : 0 .. tokens,
            n : Nat, user : Nat, token : 0 .. tokens, first : 0 .. sids]

\* No id and no token is in use that was not generated, wherever it is.
Typed ==
    /\ now \in 0 .. MaxTime /\ sids \in Nat /\ tokens \in Nat
    /\ sent \in 0 .. MaxRequests /\ page \in 0 .. tokens /\ jar \in Cookies
    /\ DOMAIN table \subseteq 1 .. sids /\ removed \subseteq 1 .. sids
    /\ \A i \in DOMAIN table : table[i].data \in Data /\ table[i].ts \in Nat
    /\ flight \subseteq Sent /\ cur \in Serving \cup {Idle} /\ stack \in Seq(Objects)
    /\ reply \in Answers /\ outbox \subseteq [n : Nat, answer : Answers]
    /\ cur = Idle => stack = <<>>

\* The sessions and the elements still to be called are the chain of a route, or
\* the beginning of one.
ChainInv ==
    cur # Idle =>
        \E r \in Routes :
            /\ cur.method = r.method
            /\ Len(stack) + Len(cur.todo) <= Len(r.chain)
            /\ \A k \in 1 .. Len(stack) : stack[k].by = r.chain[k]
            /\ \A k \in 1 .. Len(cur.todo) : cur.todo[k] = r.chain[Len(stack) + k]

\* A session has the cookie's id or a fresh one that nothing else has, and only
\* some elements of a chain change one.
ObjectInv ==
    /\ cur # Idle => cur.cookie <= cur.first
    /\ \A k \in 1 .. Len(stack) :
         LET s == stack[k] IN
         /\ s.set_cookie => /\ s.id > cur.first /\ s.id \notin DOMAIN table
                            /\ \A j \in 1 .. Len(stack) : j # k => stack[j].id # s.id
         /\ ~s.set_cookie => s.id = cur.cookie
         /\ s.set_cookie /\ ~s.modified => s.data = Empty
         /\ s.modified /\ s.data # Empty => Writes(cur.method, s.by)
         /\ ~s.set_cookie /\ s.data = Empty => Empties(s.by)

\* A session that will be written back has not been deleted.
WriterInv ==
    \A k \in 1 .. Len(stack) : Writes(cur.method, stack[k].by) => stack[k].id \notin removed

TableInv == Typed /\ RowsNonEmpty /\ ChainInv /\ ObjectInv /\ WriterInv /\ NeverResurrected

\* What a session will write about its user is granted, and a logout that finds
\* nobody logged in finds it so until it ends.
GrantInv ==
    \A k \in 1 .. Len(stack) :
        LET s == stack[k] IN
        /\ s.modified /\ s.data["user_id"] # 0 => <<s.id, s.data["user_id"]>> \in granted
        /\ s.by = "logout" => /\ s.data["user_id"] = 0
                              /\ ~s.modified /\ s.id \in DOMAIN table =>
                                    table[s.id].data["user_id"] = 0

\* The row that a request has created, if any: it is announced, and the sessions
\* that are still open change nothing.
AnnounceInv ==
    cur # Idle =>
        \A i \in DOMAIN table : i > cur.first =>
            /\ cur.phase # "in" /\ \E c \in reply.cookies : c.id = i
            /\ \A k \in 1 .. Len(stack) : ~Changes(cur.method, stack[k].by)

\* Of what the element e stored under a key, one of vals is in the table, or will
\* be when e's session, the innermost one, ends.
Kept(e, key, vals) ==
    \/ /\ stack # <<>> /\ reply.cookies = {}
       /\ LET s == Last(stack) IN
            /\ s.by = e /\ s.data[key] \in vals
            /\ s.modified \/ (s.id \in DOMAIN table /\ table[s.id].data[key] = s.data[key])
    \/ /\ cur.phase = "back" /\ \A k \in 1 .. Len(stack) : ~Changes(cur.method, stack[k].by)
       /\ Held \in DOMAIN table /\ table[Held].data[key] \in vals

\* Until the response is written the form's token and the user are kept.
StoredInv ==
    cur # Idle /\ cur.phase # "unwind" =>
        /\ cur.phase = "in" => reply = NoReply
        /\ reply.token \in {0, cur.token}
        /\ cur.token # 0 /\ (reply.token # 0 \/ cur.todo # <<>>) =>
              Kept("csrf", "csrf_token", {cur.token})
        /\ cur.user # 0 => cur.method = "POST" /\ Kept("login", "user_id", Nat \ {0})
=============================================================================
