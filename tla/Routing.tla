------------------------------ MODULE Routing ------------------------------
(***************************************************************************)
(* Route patterns (route.cpp), blueprints (blueprint.hpp) and their        *)
(* registration (application.cpp).  A path is the sequence of its          *)
(* segments.  A sub-pattern of a route is                                  *)
(*   [lit, name, text, words, q, rest, groups]:                            *)
(* characters or a parameter, its regex as it is written, the words that   *)
(* accepts, whether a "?" follows it, whether its regex also accepts       *)
(* slashes, as .* does, and the number of capturing groups written inside  *)
(* the regex.                                                              *)
(***************************************************************************)
EXTENDS Naturals, SequencesExt

CONSTANT NDEBUG   \* assertions are compiled out, as in CMake's Release build

\* RouteImpl::parse(): a "?" makes a parameter optional; after characters it
\* is taken as one of them and becomes part of the regex (p.text, p.words).
parse(pattern) ==
    [k \in 1 .. Len(pattern) |->
        LET p == pattern[k]
        IN  [name |-> p.name, text |-> p.text, words |-> p.words, rest |-> p.rest, groups |-> p.groups,
             opt |-> p.q /\ ~p.lit]]

\* The part of a path that element k takes when span[n] is the number of
\* segments each element n takes.
Taken(path, span, k) ==
    LET before == SumFunctionOnSet(span, 1 .. k - 1)
    IN  SubSeq(path, before + 1, before + span[k])

\* What the element's regex accepts.
Accepts(e, segs) ==
    \/ Len(segs) = 0 /\ e.opt
    \/ Len(segs) = 1 /\ segs[1] \in e.words
    \/ Len(segs) > 1 /\ e.rest

\* The ways in which the elements cover a path.
Spans(elements, path) ==
    {span \in [1 .. Len(elements) -> 0 .. Len(path)] :
        /\ SumFunction(span) = Len(path)
        /\ \A k \in 1 .. Len(elements) : Accepts(elements[k], Taken(path, span, k))}

\* std::regex prefers the match in which the first elements take most.
Best(S) ==
    CHOOSE f \in S : \A g \in S \ {f} : \E k \in DOMAIN f :
        f[k] > g[k] /\ \A j \in 1 .. k - 1 : f[j] = g[j]

matches(elements, path) == Spans(elements, path) # {}

Named(elements) == {k \in 1 .. Len(elements) : elements[k].name # ""}

\* RouteImpl::match(): e.idx_ counts the parameters, but results[idx_] counts
\* all capturing groups, those within a parameter's regex too.
attributes(elements, path) ==
    LET span   == Best(Spans(elements, path))
        part(k) == Taken(path, span, k)
        groups == FlattenSeq([k \in 1 .. Len(elements) |->
                    [n \in 1 .. elements[k].groups + (IF elements[k].name = "" THEN 0 ELSE 1) |-> part(k)]])
        idx_(k) == Cardinality(Named(elements) \cap 1 .. k)
        given  == {k \in Named(elements) : groups[idx_(k)] # <<>>}
    IN  [x \in {elements[k].name : k \in given} |->
            groups[idx_(CHOOSE k \in given : elements[k].name = x)]]

\* A bug: an optional parameter counts as missing even when it is given.
MissingOptional(elements, params) == {k \in Named(elements) : elements[k].opt}

\* The optional parameters that are not given.
Missing(elements, params) ==
    {k \in Named(elements) : elements[k].opt /\ elements[k].name \notin DOMAIN params}

\* RouteImpl::url(): it stops at the first optional parameter that is missing;
\* of an element without a name the text of its regex is written.
url(elements, params) ==
    LET end == Min(Missing(elements, params) \cup {Len(elements) + 1}) - 1
    IN  FlattenSeq([k \in 1 .. end |->
            LET e == elements[k] IN
            IF e.name = "" THEN <<e.text>>
            ELSE IF e.name \in DOMAIN params THEN params[e.name] ELSE <<>>])

\* combine_paths(): one slash between the two, whatever they bring.
combine_paths(base, relative) == base \o relative

\* A route as addRoute() stores it.  The pattern is parsed within an assert.
RouteEntry(methods, pattern, mws, handler) ==
    [methods |-> methods, elements |-> IF NDEBUG THEN <<>> ELSE parse(pattern),
     mws |-> mws, handler |-> handler]

\* registerBlueprintRecursive(): the routes of a blueprint, then those of its
\* children, which get the prefix that the blueprint itself was given.
RECURSIVE registerBlueprintRecursive(_, _, _)
registerBlueprintRecursive(bp, current_prefix, accumulated) ==
    LET prefix == combine_paths(current_prefix, bp.prefix)
        middleware == accumulated \o bp.mws
    IN  [k \in 1 .. Len(bp.routes) |->
            LET r == bp.routes[k]
            IN  RouteEntry(r.methods, combine_paths(prefix, r.pattern), middleware \o r.mws, r.handler)]
        \o FlattenSeq([k \in 1 .. Len(bp.children) |->
                registerBlueprintRecursive(bp.children[k], current_prefix, middleware)])
=============================================================================
