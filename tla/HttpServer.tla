----------------------------- MODULE HttpServer -----------------------------
(***************************************************************************)
(* The server core: ServerImpl (accept loop, stop sequence), the           *)
(* io_service_pool (one thread per io_service), ConnectionManager (the     *)
(* mutex-protected set of connections) and HttpConnection (read, parse,    *)
(* handle, write, close).                                                  *)
(*                                                                         *)
(* A worker is a thread that executes this code: one per io_service and    *)
(* one per user thread that calls Server::stop().  A step of a worker ends *)
(* where another worker can observe or change what it touches: at every    *)
(* call on a socket or the acceptor, and at every acquisition of the       *)
(* manager's mutex.  Asio is modelled from how the code uses it: a         *)
(* completion handler never runs inside the call that completes it, closing*)
(* a socket completes its pending operation with operation_aborted, an     *)
(* operation started on a closed socket completes with another error, and  *)
(* an exception that leaves a handler leaves the thread and ends the       *)
(* process.                                                                *)
(***************************************************************************)
EXTENDS Naturals

CONSTANTS
    Conns,            \* client connections that may be accepted
    Stoppers,         \* user threads that may call Server::stop()
    None,             \* no connection, no thread
    PoolSize,         \* io_service_pool_size
    HandlerOutcomes,  \* how RequestHandler::handle may end
    PeerMayReset      \* whether a peer may reset while its request is handled

Services == 0 .. PoolSize - 1

ASSUME PoolAssumption == PoolSize \in Nat \ {0}
ASSUME NoneAssumption == None \notin Conns /\ None \notin Services /\ None \notin Stoppers
ASSUME ThreadAssumption == Stoppers \cap Services = {}
ASSUME OutcomeAssumption ==
    /\ HandlerOutcomes \subseteq {"return", "runtime_error", "other_exception"}
    /\ PeerMayReset \in BOOLEAN

\* The constructor takes three io_services in turn: for the signals, for the
\* acceptor and for socket_.  A moved-from socket keeps its io_service, so every
\* accepted connection lives on the third.
SignalSvc == 0
AcceptSvc == 1 % PoolSize
ConnSvc   == 2 % PoolSize

Workers == Services \cup Stoppers

VARIABLES
    acceptor,      \* the state of acceptor_
    acceptOp,      \* the outstanding async_accept and how it completed
    socket_,       \* the connection accepted into ServerImpl::socket_
    signal,        \* the outstanding signals_.async_wait
    sock,          \* the socket of each connection
    op,            \* the asynchronous operation outstanding on a connection
    res,           \* how that operation completed
    response,      \* response_ of each connection
    connections_,  \* ConnectionManager::connections_
    mutex,         \* the holder of ConnectionManager::mutex_
    todo,          \* what the loop of stop_all has still to visit
    stopped,       \* the io_services that were stopped
    pc,            \* what each worker executes next
    cur,           \* the connection the worker's handler is about
    idx,           \* the loop index of io_service_pool::stop
    mainPc,        \* the thread that called Server::run()
    process        \* whether std::terminate was called

vars == <<acceptor, acceptOp, socket_, signal, sock, op, res, response, connections_,
          mutex, todo, stopped, pc, cur, idx, mainPc, process>>

connVars  == <<sock, op, res, response>>
mgrVars   == <<connections_, mutex, todo>>
acceptVars == <<acceptor, acceptOp, socket_>>
poolVars  == <<stopped, idx, mainPc>>

StopSteps == {"close_acceptor", "stop_all", "closing", "pool_stop"}
ConnSteps == {"decode_message", "remote_endpoint", "handle", "read", "write", "stop_connection"}

\* Every variable has its type; io_services are stopped only by an index the pool
\* has.
TypeOK ==
    /\ acceptor \in {"open", "closed"}
    /\ acceptOp \in {"none", "pending", "ok", "error", "aborted"}
    /\ socket_ \in Conns \cup {None}
    /\ signal \in {"waiting", "raised", "handled"}
    /\ sock \in [Conns -> {"unused", "open", "shut", "closed"}]
    /\ op \in [Conns -> {"none", "read", "write"}]
    /\ res \in [Conns -> {"pending", "ok", "error", "aborted"}]
    /\ response \in [Conns -> {"none", "handler", "bad_request", "server_error"}]
    /\ connections_ \in SUBSET Conns
    /\ mutex \in Workers \cup {None}
    /\ todo \in SUBSET Conns
    /\ stopped \in SUBSET Services
    /\ pc \in [Workers -> {"unborn", "idle", "exited", "user", "done", "start",
                           "start_accept"} \cup ConnSteps \cup StopSteps]
    /\ cur \in [Workers -> Conns \cup {None}]
    /\ idx \in [Workers -> 0 .. PoolSize]
    /\ mainPc \in {"run", "spawn", "join", "returned"}
    /\ process \in {"alive", "crashed"}

Init ==
    /\ acceptor = "open"
    /\ acceptOp = "none"
    /\ socket_ = None
    /\ signal = "waiting"
    /\ sock = [c \in Conns |-> "unused"]
    /\ op = [c \in Conns |-> "none"]
    /\ res = [c \in Conns |-> "pending"]
    /\ response = [c \in Conns |-> "none"]
    /\ connections_ = {}
    /\ mutex = None
    /\ todo = {}
    /\ stopped = {}
    /\ pc = [w \in Workers |-> IF w \in Services THEN "unborn" ELSE "user"]
    /\ cur = [w \in Workers |-> None]
    /\ idx = [w \in Workers |-> 0]
    /\ mainPc = "run"
    /\ process = "alive"

-----------------------------------------------------------------------------
(* Threads *)

\* The worker goes on with step p, in a handler about connection c.
Goto(w, p, c) ==
    /\ pc' = [pc EXCEPT ![w] = p]
    /\ cur' = [cur EXCEPT ![w] = c]

\* The handler returns to io_service::run(), or stop() to its caller.
Return(w) == Goto(w, IF w \in Services THEN "idle" ELSE "done", None)

\* io_service::run() may take another handler from its queue.
CanDispatch(s) == pc[s] = "idle" /\ s \notin stopped

\* An exception leaves the handler, io_service::run() and the thread function.
Terminate ==
    /\ process' = "crashed"
    /\ UNCHANGED <<acceptVars, signal, connVars, mgrVars, poolVars, pc, cur>>

\* socket_.close(): the pending operation is cancelled.  A composed async_write
\* that is between two writes finds the socket closed instead.
CloseResults(c) == IF op[c] = "write" THEN {"aborted", "error"} ELSE {"aborted"}

Close(c) ==
    /\ sock' = [sock EXCEPT ![c] = "closed"]
    /\ IF op[c] # "none" /\ res[c] = "pending" /\ sock[c] # "closed"
         THEN \E r \in CloseResults(c) : res' = [res EXCEPT ![c] = r]
         ELSE UNCHANGED res

\* An asynchronous operation of kind k is started on connection c.
Initiate(c, k) ==
    /\ op' = [op EXCEPT ![c] = k]
    /\ res' = [res EXCEPT ![c] = IF sock[c] = "open" THEN "pending" ELSE "error"]

-----------------------------------------------------------------------------
(* ServerImpl::run and io_service_pool::run, on the thread of the caller *)

\* acceptor_.async_accept(socket_, ...)
AsyncAccept == acceptOp' = IF acceptor = "open" THEN "pending" ELSE "error"

Run ==
    /\ mainPc = "run"
    /\ AsyncAccept
    /\ mainPc' = "spawn"
    /\ UNCHANGED <<acceptor, socket_, signal, connVars, mgrVars, stopped, idx, pc, cur, process>>

Spawn ==
    /\ mainPc = "spawn"
    /\ pc' = [w \in Workers |-> IF w \in Services THEN "idle" ELSE pc[w]]
    /\ mainPc' = "join"
    /\ UNCHANGED <<acceptVars, signal, connVars, mgrVars, stopped, idx, cur, process>>

\* io_service::run() returns: the work object keeps it going until stop().
Exit(s) ==
    /\ pc[s] = "idle"
    /\ s \in stopped
    /\ pc' = [pc EXCEPT ![s] = "exited"]
    /\ UNCHANGED <<acceptVars, signal, connVars, mgrVars, poolVars, cur, process>>

Join ==
    /\ mainPc = "join"
    /\ \A s \in Services : pc[s] = "exited"
    /\ mainPc' = "returned"
    /\ UNCHANGED <<acceptVars, signal, connVars, mgrVars, stopped, idx, pc, cur, process>>

-----------------------------------------------------------------------------
(* The accept loop *)

\* The completion handler of async_accept up to connection_manager_.start.
OnAccept ==
    /\ CanDispatch(AcceptSvc)
    /\ acceptOp \in {"ok", "error", "aborted"}
    /\ acceptOp' = "none"
    /\ \/ /\ acceptor = "closed"
          /\ UNCHANGED <<socket_, pc, cur>>
       \/ /\ acceptor = "open"
          /\ acceptOp = "ok"
          /\ Goto(AcceptSvc, "start", socket_)
          /\ socket_' = None
       \/ /\ acceptor = "open"
          /\ acceptOp # "ok"
          /\ Goto(AcceptSvc, "start_accept", None)
          /\ UNCHANGED socket_
    /\ UNCHANGED <<acceptor, signal, connVars, mgrVars, poolVars, process>>

\* A bug: start does not lock.
StartUnlocked(w) ==
    /\ pc[w] = "start"
    /\ connections_' = connections_ \cup {cur[w]}
    /\ Initiate(cur[w], "read")
    /\ Goto(w, "start_accept", None)
    /\ UNCHANGED <<acceptVars, signal, sock, response, mutex, todo, poolVars, process>>

\* ConnectionManager::start, under the mutex: insert, then c->start() reads.
Start(w) ==
    /\ pc[w] = "start"
    /\ mutex = None
    /\ connections_' = connections_ \cup {cur[w]}
    /\ Initiate(cur[w], "read")
    /\ Goto(w, "start_accept", None)
    /\ UNCHANGED <<acceptVars, signal, sock, response, mutex, todo, poolVars, process>>

StartAccept(w) ==
    /\ pc[w] = "start_accept"
    /\ AsyncAccept
    /\ Return(w)
    /\ UNCHANGED <<acceptor, socket_, signal, connVars, mgrVars, poolVars, process>>

-----------------------------------------------------------------------------
(* HttpConnection *)

\* The handler of async_read_some when the read failed.
OnReadFailed(c) ==
    /\ CanDispatch(ConnSvc)
    /\ op[c] = "read"
    /\ res[c] \in {"error", "aborted"}
    /\ op' = [op EXCEPT ![c] = "none"]
    /\ res' = [res EXCEPT ![c] = "pending"]
    /\ IF res[c] = "aborted" THEN UNCHANGED <<pc, cur>>
                             ELSE Goto(ConnSvc, "stop_connection", c)
    /\ UNCHANGED <<acceptVars, signal, sock, response, mgrVars, poolVars, process>>

\* The handler when data was read: parse() and decode_message() give a request
\* ("OK"), a request that decode_message refuses ("undecodable") or throws at
\* ("throws"), an error or the need for more data.
ParseResults == {"OK", "undecodable", "throws", "ERROR", "INDETERMINATE"}

\* A bug: the next read is started before the data is looked at.
OnReadDataPipelined(c, result) ==
    /\ CanDispatch(ConnSvc)
    /\ op[c] = "read"
    /\ res[c] = "ok"
    /\ Initiate(c, "read")
    /\ result = "OK"
    /\ Goto(ConnSvc, "remote_endpoint", c)
    /\ UNCHANGED <<acceptVars, signal, sock, response, mgrVars, poolVars, process>>

\* decode_message() is called before the try block: what it throws leaves the
\* handler there.
OnReadData(c, result) ==
    /\ CanDispatch(ConnSvc)
    /\ op[c] = "read"
    /\ res[c] = "ok"
    /\ op' = [op EXCEPT ![c] = "none"]
    /\ res' = [res EXCEPT ![c] = "pending"]
    /\ \/ /\ result = "OK"
          /\ Goto(ConnSvc, "remote_endpoint", c)
          /\ UNCHANGED <<response, process>>
       \/ /\ result = "throws"
          /\ Goto(ConnSvc, "decode_message", c)
          /\ process' = "crashed"
          /\ UNCHANGED response
       \/ /\ result \in {"undecodable", "ERROR"}
          /\ response' = [response EXCEPT ![c] = "bad_request"]
          /\ Goto(ConnSvc, "write", c)
          /\ UNCHANGED process
       \/ /\ result = "INDETERMINATE"
          /\ Goto(ConnSvc, "read", c)
          /\ UNCHANGED <<response, process>>
    /\ UNCHANGED <<acceptVars, signal, sock, mgrVars, poolVars>>

\* read() again
Read(w) ==
    /\ pc[w] = "read"
    /\ Initiate(cur[w], "read")
    /\ Return(w)
    /\ UNCHANGED <<acceptVars, signal, sock, response, mgrVars, poolVars, process>>

\* socket_.remote_endpoint() throws when the socket is not connected; the call
\* is made before the try block.
RemoteEndpoint(w) ==
    /\ pc[w] = "remote_endpoint"
    /\ \/ /\ sock[cur[w]] = "open"
          /\ Goto(w, "handle", cur[w])
          /\ UNCHANGED <<acceptVars, signal, connVars, mgrVars, poolVars, process>>
       \/ /\ sock[cur[w]] # "open" \/ PeerMayReset
          /\ Terminate

\* A bug: nothing is caught.
HandleUncaught(w, outcome) ==
    /\ pc[w] = "handle"
    /\ IF outcome = "return"
         THEN /\ response' = [response EXCEPT ![cur[w]] = "handler"]
              /\ Goto(w, "write", cur[w])
              /\ UNCHANGED <<acceptVars, signal, sock, op, res, mgrVars, poolVars, process>>
         ELSE Terminate

\* handler_->handle(request_, response_): only std::runtime_error is caught.
Handle(w, outcome) ==
    /\ pc[w] = "handle"
    /\ \/ /\ outcome = "return"
          /\ response' = [response EXCEPT ![cur[w]] = "handler"]
          /\ Goto(w, "write", cur[w])
          /\ UNCHANGED <<acceptVars, signal, sock, op, res, mgrVars, poolVars, process>>
       \/ /\ outcome = "runtime_error"
          /\ response' = [response EXCEPT ![cur[w]] = "server_error"]
          /\ Goto(w, "write", cur[w])
          /\ UNCHANGED <<acceptVars, signal, sock, op, res, mgrVars, poolVars, process>>
       \/ /\ outcome = "other_exception"
          /\ Terminate

\* write(): async_write of the response's buffers
Write(w) ==
    /\ pc[w] = "write"
    /\ Initiate(cur[w], "write")
    /\ Return(w)
    /\ UNCHANGED <<acceptVars, signal, sock, response, mgrVars, poolVars, process>>

\* A bug: a failed write does not stop the connection.
OnWriteLeaksFailed(c) ==
    /\ CanDispatch(ConnSvc)
    /\ op[c] = "write"
    /\ res[c] # "pending"
    /\ op' = [op EXCEPT ![c] = "none"]
    /\ res' = [res EXCEPT ![c] = "pending"]
    /\ sock' = [sock EXCEPT ![c] = IF res[c] = "ok" /\ @ = "open" THEN "shut" ELSE @]
    /\ IF res[c] # "ok" THEN UNCHANGED <<pc, cur>>
                        ELSE Goto(ConnSvc, "stop_connection", c)
    /\ UNCHANGED <<acceptVars, signal, response, mgrVars, poolVars, process>>

\* A bug: the connection is kept alive for another request.
OnWriteKeepsAlive(c) ==
    /\ CanDispatch(ConnSvc)
    /\ op[c] = "write"
    /\ res[c] # "pending"
    /\ op' = [op EXCEPT ![c] = "none"]
    /\ res' = [res EXCEPT ![c] = "pending"]
    /\ IF res[c] = "aborted" THEN UNCHANGED <<pc, cur>>
                             ELSE Goto(ConnSvc, IF res[c] = "ok" THEN "read"
                                                                 ELSE "stop_connection", c)
    /\ UNCHANGED <<acceptVars, signal, sock, response, mgrVars, poolVars, process>>

\* The handler of async_write: shutdown after success, then unless the write
\* was aborted the connection is stopped.
OnWrite(c) ==
    /\ CanDispatch(ConnSvc)
    /\ op[c] = "write"
    /\ res[c] # "pending"
    /\ op' = [op EXCEPT ![c] = "none"]
    /\ res' = [res EXCEPT ![c] = "pending"]
    /\ sock' = [sock EXCEPT ![c] = IF res[c] = "ok" /\ @ = "open" THEN "shut" ELSE @]
    /\ IF res[c] = "aborted" THEN UNCHANGED <<pc, cur>>
                             ELSE Goto(ConnSvc, "stop_connection", c)
    /\ UNCHANGED <<acceptVars, signal, response, mgrVars, poolVars, process>>

\* A bug: stop does not lock.
StopConnectionUnlocked(w) ==
    /\ pc[w] = "stop_connection"
    /\ connections_' = connections_ \ {cur[w]}
    /\ Close(cur[w])
    /\ Return(w)
    /\ UNCHANGED <<acceptVars, signal, op, response, mutex, todo, poolVars, process>>

\* ConnectionManager::stop, under the mutex: erase, then c->stop() closes.
StopConnection(w) ==
    /\ pc[w] = "stop_connection"
    /\ mutex = None
    /\ connections_' = connections_ \ {cur[w]}
    /\ Close(cur[w])
    /\ Return(w)
    /\ UNCHANGED <<acceptVars, signal, op, response, mutex, todo, poolVars, process>>

-----------------------------------------------------------------------------
(* ServerImpl::handle_stop, on the signal thread or on the thread of a user *)

\* The handler of signals_.async_wait
OnSignal ==
    /\ CanDispatch(SignalSvc)
    /\ signal = "raised"
    /\ signal' = "handled"
    /\ Goto(SignalSvc, "close_acceptor", None)
    /\ UNCHANGED <<acceptVars, connVars, mgrVars, poolVars, process>>

\* Server::stop() is called.
Stop(w) ==
    /\ pc[w] = "user"
    /\ Goto(w, "close_acceptor", None)
    /\ UNCHANGED <<acceptVars, signal, connVars, mgrVars, poolVars, process>>

\* A bug: handle_stop forgets to close the acceptor.
CloseAcceptorSkipped(w) ==
    /\ pc[w] = "close_acceptor"
    /\ Goto(w, "stop_all", None)
    /\ UNCHANGED <<acceptVars, signal, connVars, mgrVars, poolVars, process>>

\* acceptor_.close(): a pending async_accept is cancelled.
CloseAcceptor(w) ==
    /\ pc[w] = "close_acceptor"
    /\ acceptor' = "closed"
    /\ acceptOp' = IF acceptOp = "pending" THEN "aborted" ELSE acceptOp
    /\ Goto(w, "stop_all", None)
    /\ UNCHANGED <<socket_, signal, connVars, mgrVars, poolVars, process>>

\* ConnectionManager::stop_all: lock and begin the loop over connections_.
StopAll(w) ==
    /\ pc[w] = "stop_all"
    /\ mutex = None
    /\ mutex' = w
    /\ todo' = connections_
    /\ Goto(w, "closing", None)
    /\ UNCHANGED <<acceptVars, signal, connVars, connections_, poolVars, process>>

\* One turn of the loop: c->stop().
StopAllNext(w, c) ==
    /\ pc[w] = "closing"
    /\ c \in todo
    /\ todo' = todo \ {c}
    /\ Close(c)
    /\ UNCHANGED <<acceptVars, signal, op, response, connections_, mutex, poolVars, pc, cur,
                   process>>

\* The end of the loop: clear and unlock.
StopAllEnd(w) ==
    /\ pc[w] = "closing"
    /\ todo = {}
    /\ connections_' = {}
    /\ mutex' = None
    /\ Goto(w, "pool_stop", None)
    /\ UNCHANGED <<acceptVars, signal, connVars, todo, poolVars, process>>

\* A bug: the loop of io_service_pool::stop runs one turn too far.
PoolStopOneTooFar(w) ==
    /\ pc[w] = "pool_stop"
    /\ idx[w] <= PoolSize
    /\ stopped' = stopped \cup {idx[w]}
    /\ idx' = [idx EXCEPT ![w] = @ + 1]
    /\ UNCHANGED <<acceptVars, signal, connVars, mgrVars, mainPc, pc, cur, process>>

\* io_service_pool::stop, one io_service per turn of the loop.
PoolStop(w) ==
    /\ pc[w] = "pool_stop"
    /\ idx[w] < PoolSize
    /\ stopped' = stopped \cup {idx[w]}
    /\ idx' = [idx EXCEPT ![w] = @ + 1]
    /\ UNCHANGED <<acceptVars, signal, connVars, mgrVars, mainPc, pc, cur, process>>

\* A bug: the loop of io_service_pool::stop leaves out the last io_service.
PoolStopEndEarly(w) ==
    /\ pc[w] = "pool_stop"
    /\ idx[w] = PoolSize - 1
    /\ Return(w)
    /\ UNCHANGED <<acceptVars, signal, connVars, mgrVars, poolVars, process>>

PoolStopEnd(w) ==
    /\ pc[w] = "pool_stop"
    /\ idx[w] = PoolSize
    /\ Return(w)
    /\ UNCHANGED <<acceptVars, signal, connVars, mgrVars, poolVars, process>>

-----------------------------------------------------------------------------
(* The environment: clients and the operating system *)

AcceptCompletes(c) ==
    /\ acceptor = "open" /\ acceptOp = "pending"
    /\ sock[c] = "unused"
    /\ acceptOp' = "ok"
    /\ socket_' = c
    /\ sock' = [sock EXCEPT ![c] = "open"]
    /\ UNCHANGED <<acceptor, signal, op, res, response, mgrVars, poolVars, pc, cur, process>>

\* For instance: the process is out of file descriptors.
AcceptFails ==
    /\ acceptor = "open" /\ acceptOp = "pending"
    /\ acceptOp' = "error"
    /\ UNCHANGED <<acceptor, socket_, signal, connVars, mgrVars, poolVars, pc, cur, process>>

\* Data arrives or is taken by the peer, or the peer is gone.
OpCompletes(c, r) ==
    /\ op[c] # "none" /\ res[c] = "pending" /\ sock[c] = "open"
    /\ res' = [res EXCEPT ![c] = r]
    /\ UNCHANGED <<acceptVars, signal, sock, op, response, mgrVars, poolVars, pc, cur, process>>

RaiseSignal ==
    /\ signal = "waiting"
    /\ signal' = "raised"
    /\ UNCHANGED <<acceptVars, connVars, mgrVars, poolVars, pc, cur, process>>

-----------------------------------------------------------------------------

\* What a worker inside a handler or inside stop() does next.
Step(w) ==
    \/ Start(w) \/ StartAccept(w)
    \/ Read(w) \/ RemoteEndpoint(w) \/ Write(w) \/ StopConnection(w)
    \/ \E o \in HandlerOutcomes : Handle(w, o)
    \/ CloseAcceptor(w) \/ StopAll(w) \/ StopAllEnd(w)
    \/ \E c \in Conns : StopAllNext(w, c)
    \/ PoolStop(w) \/ PoolStopEnd(w)

\* The handler of the operation that is outstanding on connection c
OnCompletion(c) == OnReadFailed(c) \/ (\E r \in ParseResults : OnReadData(c, r)) \/ OnWrite(c)

Dispatch ==
    \/ OnAccept
    \/ OnSignal
    \/ \E c \in Conns : OnCompletion(c)

Environment ==
    \/ \E c \in Conns : AcceptCompletes(c)
    \/ AcceptFails
    \/ \E c \in Conns, r \in {"ok", "error"} : OpCompletes(c, r)
    \/ RaiseSignal
    \/ \E w \in Stoppers : Stop(w)

\* run() has returned and every caller of stop() too, or the process is gone.
Finished ==
    /\ \/ process = "crashed"
       \/ /\ mainPc = "returned"
          /\ \A w \in Stoppers : pc[w] \in {"user", "done"}
    /\ UNCHANGED vars

Next ==
    \/ /\ process = "alive"
       /\ \/ Run \/ Spawn \/ Join
          \/ \E s \in Services : Exit(s)
          \/ \E w \in Workers : Step(w)
          \/ Dispatch
          \/ Environment
    \/ Finished

Spec == Init /\ [][Next]_vars

(***************************************************************************)
(* Fairness.  A thread that can run, runs: weak fairness of every step.    *)
(* A completed handler is queued first-in first-out by its io_service, so  *)
(* it is not overtaken for ever by the handlers of others: strong fairness *)
(* of every dispatch.  handle() is assumed to come back.  Nothing is       *)
(* assumed of the clients, of the system or of the users.                  *)
(***************************************************************************)
Fairness ==
    /\ WF_vars(process = "alive" /\ (Run \/ Spawn \/ Join))
    /\ \A w \in Workers : WF_vars(process = "alive" /\ (Step(w) \/ Exit(w)))
    /\ SF_vars(process = "alive" /\ OnAccept)
    /\ SF_vars(process = "alive" /\ OnSignal)
    /\ \A c \in Conns : SF_vars(process = "alive" /\ OnCompletion(c))

FairSpec == Spec /\ Fairness

\* A client that keeps its part: it sends its request to the end or hangs up,
\* and takes the response or hangs up.
ClientFairness ==
    \A c \in Conns :
        /\ WF_vars(process = "alive" /\ \E r \in {"ok", "error"} : OpCompletes(c, r))
        /\ SF_vars(process = "alive" /\ \E r \in ParseResults \ {"INDETERMINATE"} : OnReadData(c, r))

-----------------------------------------------------------------------------
(* Safety *)

Live(c) == sock[c] \in {"open", "shut"}

\* The loop of stop_all never runs over a set that start or stop changes under
\* it: the iterator would be invalid.  (connection_manager.cpp: one mutex.)
IterationSafe ==
    \A w \in Workers :
        pc[w] = "closing" => mutex = w /\ todo \subseteq connections_

\* A socket that is not closed is known to somebody who will close it: the
\* manager's set, socket_ of the server, or the accept handler about to hand it
\* to the manager.
OpenManaged ==
    \A c \in Conns : Live(c) =>
        \/ c \in connections_
        \/ c = socket_
        \/ \E w \in Workers : pc[w] = "start" /\ cur[w] = c

\* buffer_, request_parser_, request_ and response_ of a connection are used
\* without a lock: no thread executes a handler of the connection while another
\* operation of it is outstanding, and no two threads execute one at a time.
ImplicitStrand ==
    \A c \in Conns :
        /\ op[c] # "none" => \A w \in Workers : cur[w] # c
        /\ \A v, w \in Workers : cur[v] = c /\ cur[w] = c => v = w

\* A managed connection that is still open has an operation outstanding or a
\* handler executing: none is kept in connections_ with nothing left to end it.
NoneForgotten ==
    \A c \in connections_ : Live(c) =>
        op[c] # "none" \/ \E w \in Workers : cur[w] = c

\* When io_services are being stopped, stop_all has closed every connection but
\* perhaps one: the connection whose accept raced with acceptor_.close().
OneLeftOpen ==
    stopped # {} => \A c, d \in Conns : Live(c) /\ Live(d) => c = d

\* What ends the process is one of three calls of the read handler.  Two are made
\* outside the try block: decode_message() on a request it throws at, at any time,
\* and remote_endpoint() on a socket that stop_all has closed, or that its peer
\* has reset.  Within it, handle() with another exception than runtime_error.
CrashCauses ==
    process = "crashed" =>
        \/ pc[ConnSvc] = "decode_message"
        \/ /\ pc[ConnSvc] = "remote_endpoint"
           /\ PeerMayReset \/ (acceptor = "closed" /\ sock[cur[ConnSvc]] = "closed")
        \/ pc[ConnSvc] = "handle" /\ "other_exception" \in HandlerOutcomes

\* One exchange per connection: once there is a response it is not replaced,
\* nothing more is read, and the handler is not called again.
OneExchange ==
    [][\A c \in Conns : response[c] # "none" =>
           /\ response'[c] = response[c]
           /\ op'[c] = "read" => op[c] = "read"
           /\ \A w \in Workers : cur'[w] = c => pc'[w] \notin {"read", "handle"}]_vars

(***************************************************************************)
(* The inductive invariant behind the safety properties.  The lock is held *)
(* exactly through the loop of stop_all; the accept chain (async_accept,   *)
(* its handler, start, start_accept) is one thread of control; a handler   *)
(* works on a connection only while nothing else refers to it.             *)
(***************************************************************************)
MutexInv ==
    /\ \A w \in Workers : pc[w] = "closing" <=> mutex = w
    /\ mutex # None => /\ todo \subseteq connections_
                      /\ \A c \in connections_ \ todo : ~Live(c)

AcceptInv ==
    /\ acceptOp = "ok" => socket_ # None
    /\ socket_ # None => sock[socket_] # "unused"
    /\ socket_ # None /\ acceptor = "open" => acceptOp = "ok"
    /\ mainPc \in {"run", "spawn"} => \A s \in Services : pc[s] = "unborn"
    /\ mainPc = "run" => acceptOp = "none"
    /\ \A w \in Workers : pc[w] \in {"start", "start_accept"} =>
           w = AcceptSvc /\ acceptOp = "none" /\ socket_ = None

HandlerInv ==
    /\ \A w \in Workers : cur[w] # None <=> pc[w] \in ConnSteps \cup {"start"}
    /\ \A w \in Workers : pc[w] \in ConnSteps => w = ConnSvc
    /\ \A w \in Workers : pc[w] = "start" =>
           cur[w] \notin connections_ /\ \A v \in Workers : cur[v] = cur[w] => v = w
    /\ \A c \in Conns : op[c] # "none" => \A w \in Workers : cur[w] # c
    /\ \A c \in Conns : sock[c] = "unused" \/ c = socket_ =>
           /\ op[c] = "none"
           /\ c \notin connections_
           /\ \A w \in Workers : cur[w] # c

StopInv ==
    /\ \A w \in Workers : pc[w] \in {"stop_all", "closing", "pool_stop"} => acceptor = "closed"
    /\ stopped # {} => acceptor = "closed"
    /\ stopped # {} \/ (\E w \in Workers : pc[w] = "pool_stop")
          => \A c, d \in Conns : Live(c) /\ Live(d) => c = d

Inductive ==
    /\ TypeOK
    /\ MutexInv
    /\ AcceptInv
    /\ HandlerInv
    /\ OpenManaged
    /\ StopInv

(***************************************************************************)
(* The invariant behind the life of one exchange, on top of Inductive:     *)
(* - a connection that has its response is only written to and stopped;    *)
(* - an operation is aborted only by closing its socket;                   *)
(* - a socket is shut down only on the way to stop, and one that is closed *)
(*   while the server accepts was closed by its own handler's last step.   *)
(***************************************************************************)
AnsweredInv ==
    \A c \in Conns : response[c] # "none" =>
        /\ op[c] # "read"
        /\ sock[c] # "unused" /\ c # socket_
        /\ \A w \in Workers : cur[w] = c => pc[w] \in {"write", "stop_connection"}

AbortedInv == \A c \in Conns : res[c] = "aborted" => sock[c] = "closed"

EndedInv ==
    \A c \in Conns :
        /\ sock[c] = "shut" =>
              /\ op[c] = "none" /\ c # socket_
              /\ \A w \in Workers : cur[w] = c => pc[w] = "stop_connection"
        /\ sock[c] = "closed" /\ acceptor = "open" =>
              /\ op[c] = "none" /\ c # socket_
              /\ \A w \in Workers : cur[w] # c

ExchangeInv ==
    /\ AnsweredInv
    /\ AbortedInv
    /\ EndedInv
    /\ NoneForgotten

(* Liveness *)

\* Once a signal came or stop() was called, run() returns.
StopTerminates ==
    (signal = "raised" \/ \E w \in Workers : pc[w] \in StopSteps)
        ~> (mainPc = "returned" \/ process = "crashed")

\* If the clients keep their part, a connection that was started is closed in the
\* end, unless its io_service is stopped first.
ConnectionResolved ==
    ClientFairness =>
        \A c \in Conns :
            op[c] # "none" ~> (sock[c] = "closed" \/ ConnSvc \in stopped \/ process = "crashed")

-----------------------------------------------------------------------------
(* What a comment of the code says of the server, and the code does not keep *)

\* connection_manager.hpp: connections are managed "so that they may be cleanly
\* stopped when the server needs to shut down": stopping ends the connections,
\* not the process.
StopDoesNotCrash == process = "crashed" => \A w \in Workers : pc[w] # "remote_endpoint"
=============================================================================
