---------------------------- MODULE Application ----------------------------
(***************************************************************************)
(* What happens to a request between the parser and the handler: it is     *)
(* decoded (RequestDecoding), runs through the global middleware, is       *)
(* matched with the routes (Routing), and runs through the middleware of   *)
(* its route, LocaleResolver (middleware/locale.cpp) among them.           *)
(***************************************************************************)
EXTENDS RequestDecoding, Routing

CONSTANTS
    Apps,         \* applications: [globals, routes, blueprints]
    Requests,     \* raw requests, with what their client meant
    supported_,   \* LocaleResolver: the languages, most general part first
    fallback_,    \* LocaleResolver: the language when nothing fits
    Refusing      \* middleware that answers the request itself

VARIABLES
    app,      \* the application
    raw,      \* the message as the parser left it
    pc,       \* "raw", "global", "route" or "done"
    req,      \* the request: path, GET, POST, COOKIE, attrs, locale
    index_,   \* MiddlewareContext::index_ of the pipeline that runs
    ran,      \* middleware and handler that have been entered
    matched,  \* the route, 0 before it is found
    reply     \* "none", a status, who answered, or "terminate"

vars == <<app, raw, pc, req, index_, ran, matched, reply>>

\* addRoute() for the routes of the application, then its blueprints.
routes_ ==
    [k \in 1 .. Len(app.routes) |->
        LET r == app.routes[k] IN RouteEntry(r.methods, r.pattern, r.mws, r.handler)]
    \o FlattenSeq([k \in 1 .. Len(app.blueprints) |->
            registerBlueprintRecursive(app.blueprints[k], <<>>, <<>>)])

Init ==
    /\ app \in Apps /\ raw \in Requests
    /\ pc = "raw" /\ index_ = 0 /\ ran = <<>> /\ matched = 0 /\ reply = "none"
    /\ req = [path |-> <<>>, GET |-> Empty, POST |-> Empty, COOKIE |-> Empty,
              attrs |-> Empty, locale |-> <<>>]

\* parse_form_data(): raw.length is the number in the Content-Length header, 0
\* when there is no header of this name, as in a chunked request.  stoi() throws at
\* one that is too large; a length without a content type is refused.
FormThrows ==
    raw.method = "POST" /\ (raw.length > MaxInt \/ (raw.type = "multipart" /\ FirstLineThrows(raw.body)))
FormParses == raw.method = "POST" /\ raw.length > 0 => raw.type # "none"
FormData ==
    CASE raw.method # "POST" -> Empty
      [] raw.method = "POST" /\ raw.type = "urlencoded" -> parse_form_urlencoded(raw.body, raw.length)
      [] raw.method = "POST" /\ raw.type = "multipart" -> parse_multipart_data(raw.body)
      [] OTHER -> Empty

\* decode_message(), with parse_url() and parse_cookies() before the form.  When it
\* fails the connection answers 400, when it throws the process ends.
decode_message ==
    /\ pc = "raw"
    /\ LET headers == raw.url = "fine" /\ (raw.cookie # "none" => CookiesParse(raw.cookies))
           answer(r) == pc' = "done" /\ reply' = r /\ UNCHANGED req
       IN  \/ /\ headers /\ ~FormThrows /\ FormParses
              /\ pc' = "global" /\ UNCHANGED reply
              /\ req' = [req EXCEPT !.path = normalize_path(url_decode(raw.path)),
                           !.GET = parse_query(raw.query), !.POST = FormData,
                           !.COOKIE = IF raw.cookie = "none" THEN Empty ELSE parse_cookies(raw.cookies)]
           \/ headers /\ FormThrows /\ answer("terminate")
           \/ (~headers \/ (~FormThrows /\ ~FormParses)) /\ answer("bad_request")
    /\ UNCHANGED <<app, raw, index_, ran, matched>>

---------------------------------------------------------------------------
\* isLocaleSupported(): the index of the first language with the same two
\* letters, from 0, or -1.
isLocaleSupported(l) == SelectInSeq(supported_, LAMBDA s : Head(s) = Head(l)) - 1
Supported(l) == l # <<>> /\ isLocaleSupported(l) # -1
Get(dict, k) == IF k \in DOMAIN dict THEN dict[k] ELSE <<>>

\* A bug: the preferences are tried as they come.
SortedAsGiven(prefs) == {prefs}

\* parse_accept_language(): the orders std::sort may give to the preferences.
Sorted(prefs) ==
    {s \in {[k \in DOMAIN p |-> prefs[p[k]]] : p \in SetToSeqs(DOMAIN prefs)} :
        \A k \in 1 .. Len(s) - 1 : s[k].weight >= s[k + 1].weight}

\* resolve(): the locales it may return.  The index that isLocaleSupported()
\* yields is taken for a truth value in the first test only.
resolve ==
    LET attr == Get(req.attrs, "_locale")
        lang == Get(req.GET, <<"lang">>)
        cookie == Get(req.COOKIE, <<"locale">>)
        of(l) == supported_[isLocaleSupported(l) + 1]
        first(s) == SelectInSeq(s, LAMBDA p : Supported(p.code))
    IN  CASE attr # <<>> /\ isLocaleSupported(Head(attr)) # 0 -> {Head(attr)}
          [] OTHER ->
             CASE Supported(lang) -> {of(lang)}
               [] ~Supported(lang) /\ Supported(cookie) -> {of(cookie)}
               [] OTHER -> {IF first(s) = 0 THEN fallback_ ELSE of(s[first(s)].code) : s \in Sorted(raw.accept)}

---------------------------------------------------------------------------
Pipeline == IF pc = "global" THEN app.globals ELSE routes_[matched].mws

\* MiddlewareContext::next(): the next middleware, which looks for the locale,
\* answers the request itself, or goes on.
next ==
    /\ pc \in {"global", "route"} /\ index_ < Len(Pipeline)
    /\ index_' = index_ + 1
    /\ LET mw == Pipeline[index_ + 1] IN
       /\ ran' = Append(ran, mw)
       /\ \/ /\ mw = "locale" /\ UNCHANGED <<pc, reply>>
             /\ \E l \in resolve : req' = [req EXCEPT !.locale = l]
          \/ mw \in Refusing /\ pc' = "done" /\ reply' = mw /\ UNCHANGED req
          \/ mw \notin Refusing \cup {"locale"} /\ UNCHANGED <<pc, reply, req>>
    /\ UNCHANGED <<app, raw, matched>>

\* A bug: the search goes on after a route that fits.
LastMatch(path, method) ==
    SelectLastInSeq(routes_, LAMBDA r : matches(r.elements, path) /\ method \in r.methods)

\* The first route that fits, 0 when there is none.
FirstMatch(path, method) ==
    SelectInSeq(routes_, LAMBDA r : matches(r.elements, path) /\ method \in r.methods)

\* RoutingEngineHandler::handle(), the end of the global pipeline.
RoutingEngine ==
    /\ pc = "global" /\ index_ = Len(Pipeline)
    /\ LET r == FirstMatch(req.path, raw.method) IN
       \/ r = 0 /\ pc' = "done" /\ reply' = "not_found" /\ UNCHANGED <<req, matched, index_>>
       \/ /\ r # 0 /\ matched' = r /\ pc' = "route" /\ index_' = 0 /\ UNCHANGED reply
          /\ req' = [req EXCEPT !.attrs = attributes(routes_[r].elements, req.path)]
    /\ UNCHANGED <<app, raw, ran>>

\* The end of the route's pipeline: its handler.
Handle ==
    /\ pc = "route" /\ index_ = Len(Pipeline)
    /\ pc' = "done" /\ reply' = routes_[matched].handler /\ ran' = Append(ran, reply')
    /\ UNCHANGED <<app, raw, req, index_, matched>>

Next == decode_message \/ next \/ RoutingEngine \/ Handle

Spec == Init /\ [][Next]_vars

---------------------------------------------------------------------------
\* The routes of the application as they stand in its source: where a route stands
\* (0 before its place among the routes of its group, which come before the groups
\* within), the blueprints around it, outermost first, and the pattern it is
\* registered with, under the prefix of its own blueprint.
Roots == {[at |-> <<k>>, around |-> <<app.blueprints[k]>>] : k \in DOMAIN app.blueprints}
Within(groups) ==
    UNION {LET children == Last(g.around).children
           IN  {[at |-> Append(g.at, k), around |-> Append(g.around, children[k])] : k \in DOMAIN children} :
             g \in groups}
Staged ==
    {[at |-> <<0, k>>, around |-> <<>>, route |-> app.routes[k], pattern |-> app.routes[k].pattern] :
        k \in DOMAIN app.routes}
    \cup UNION {LET bp == Last(g.around)
                IN  {[at |-> g.at \o <<0, k>>, around |-> g.around, route |-> bp.routes[k],
                      pattern |-> bp.prefix \o bp.routes[k].pattern] : k \in DOMAIN bp.routes} :
                  g \in Roots \cup Within(Roots) \cup Within(Within(Roots))}

Before(s, t) ==
    \E k \in 1 .. Min({Len(s.at), Len(t.at)}) :
        s.at[k] < t.at[k] /\ \A j \in 1 .. k - 1 : s.at[j] = t.at[j]

\* A pattern fits a path when its segments can be dealt out in order to the
\* sub-patterns: one or, to a wildcard, several to each that is not optional.
Fits(pattern, path) ==
    \E owner \in [1 .. Len(path) -> 1 .. Len(pattern)] :
        /\ \A i, j \in 1 .. Len(path) : i < j => owner[i] <= owner[j]
        /\ \A k \in 1 .. Len(pattern) :
             LET p == pattern[k]
                 own == {i \in 1 .. Len(path) : owner[i] = k}
             IN  CASE own = {} -> p.q /\ ~p.lit
                   [] Cardinality(own) = 1 -> \A i \in own : path[i] \in p.words
                   [] OTHER -> p.rest

\* Every variable has its type; a request has an answer exactly when it is done.
TypeOK ==
    /\ pc \in {"raw", "global", "route", "done"}
    /\ matched \in 0 .. Len(routes_)
    /\ pc = "route" => matched # 0
    /\ pc \in {"global", "route"} => index_ \in 0 .. Len(Pipeline)
    /\ reply # "none" <=> pc = "done"

\* The path that is matched is the decoded path with its dots resolved: a
\* segment is left exactly when it is a name and the ".." after it never
\* outnumber the names after it.
PathResolved ==
    pc # "raw" /\ reply \notin {"bad_request", "terminate"} =>
    LET segs == SelectSeq(split(url_decode(raw.path), "/"), LAMBDA s : s # Dot)
        names(k, j) == Cardinality({n \in k .. j : segs[n] # DotDot})
        ups(k, j) == Cardinality({n \in k .. j : segs[n] = DotDot})
        left == {k \in 1 .. Len(segs) : /\ segs[k] # DotDot
                                        /\ \A j \in k + 1 .. Len(segs) : ups(k + 1, j) <= names(k + 1, j)}
    IN  req.path = [k \in 1 .. Cardinality(left) |-> segs[SetToSortSeq(left, <)[k]]]

\* The dictionaries hold what the client meant, a file only up to the allowed
\* size, as long as a query has no encoded separator, a form comes with the
\* Content-Length of its body and no character that has to be encoded, and a
\* multipart body begins and ends with the boundary and has no line break followed
\* by dashes in a part.
Faithful ==
    pc = "global" =>
        /\ raw.meantGET.sure => req.GET = raw.meantGET.dict
        /\ raw.meantPOST.sure => req.POST = raw.meantPOST.dict
        /\ raw.cookie = "fine" => req.COOKIE = raw.meantCOOKIE

\* Reverse routing: url() with the attributes of a match gives the path back,
\* unless an optional element is missing before one that is there, a regex
\* has groups of its own, or that of an element without a name is not its word.
UrlInverse ==
    matched # 0 =>
    LET e == routes_[matched].elements
        plain == \A k \in 1 .. Len(e) : e[k].groups = 0 /\ (e[k].name = "" => e[k].words = {e[k].text})
        gap == \E k, n \in 1 .. Len(e) : /\ k < n /\ e[k].opt
                                         /\ e[k].name \notin DOMAIN req.attrs
                                         /\ e[n].opt => e[n].name \in DOMAIN req.attrs
    IN  plain /\ ~gap => url(e, req.attrs) = req.path

\* Without a locale in the route the query decides, then the cookie, then the
\* supported language of the highest weight, then the fallback.
LocaleChosen ==
    req.locale # <<>> /\ "_locale" \notin DOMAIN req.attrs =>
    LET lang == Get(req.GET, <<"lang">>)
        cookie == Get(req.COOKIE, <<"locale">>)
        heard == {p \in ToSet(raw.accept) : Supported(p.code)}
        best == {p \in heard : \A q \in heard : q.weight <= p.weight}
        agrees(l) == Head(req.locale) = Head(l)
    IN  IF Supported(lang) THEN agrees(lang)
        ELSE IF Supported(cookie) THEN agrees(cookie)
        ELSE IF heard = {} THEN req.locale = fallback_
        ELSE \E p \in best : agrees(p.code)

\* "Combine parent prefix with current blueprint prefix": a route of a nested
\* blueprint is served under the prefixes of all the blueprints around it.
PrefixesApplied ==
    \A s \in Staged : reply = s.route.handler =>
        matches(parse(FlattenSeq([k \in 1 .. Len(s.around) |-> s.around[k].prefix]) \o s.route.pattern),
                req.path)

\* Of the routes that fit the path and take the method the one that stands first
\* serves the request: the global middleware runs, then that of the groups around
\* the route, outermost first, then that of the route, then its handler, up to the
\* first one that answers the request by itself.  Without such a route the answer
\* is 404.  A "?" makes its own element optional, as in the
\* code, and not the ones after it, as route.hpp:26 says; the prefix of a nested
\* blueprint is the one the code gives it (PrefixesApplied).  And a request has an
\* answer exactly when it is done.
Served ==
    /\ TypeOK
    /\ pc = "done" /\ reply \notin {"bad_request", "terminate"} =>
         LET fits == {s \in Staged : raw.method \in s.route.methods /\ Fits(s.pattern, req.path)}
             first == CHOOSE s \in fits : \A t \in fits \ {s} : Before(s, t)
             way == app.globals \o
                      IF fits = {} THEN <<"not_found">>
                      ELSE FlattenSeq([k \in 1 .. Len(first.around) |-> first.around[k].mws])
                             \o first.route.mws \o <<first.route.handler>>
             refused == SelectInSeq(way, LAMBDA m : m \in Refusing)
             gone == IF refused = 0 THEN way ELSE SubSeq(way, 1, refused)
         IN  reply = Last(gone) /\ ran = (IF reply = "not_found" THEN Front(gone) ELSE gone)
=============================================================================
