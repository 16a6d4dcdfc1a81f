----------------------------- MODULE MCSession -----------------------------
(* Routes for checking Session.                                            *)
EXTENDS Session

Route(m, c) == [method |-> m, chain |-> c]

\* Routes like those of the application and the tests, and routes in which a
\* session that only looks is open around one that changes something.
MCRoutes ==
    { Route("POST", <<"login", "page">>), Route("GET", <<"check", "logout", "page">>),
      Route("GET", <<"require", "page">>), Route("GET", <<"csrf", "page">>),
      Route("GET", <<"check", "csrf", "page">>), Route("POST", <<"csrf", "store">>),
      Route("GET", <<"store">>), Route("GET", <<"require", "clear">>) }

\* Routes with one session only.
MCSingle ==
    { Route("POST", <<"login", "page">>), Route("GET", <<"logout", "page">>),
      Route("GET", <<"csrf", "page">>), Route("GET", <<"store">>), Route("GET", <<"clear">>) }

\* The theorems about Session are about routes like these: of the sessions of a
\* request at most one changes, and it is the innermost that a form or login needs.
ASSUME MCRoutesAssumption == RoutesOrdered /\ OneChange /\ FormsInnermost
=============================================================================
