-------------------------- MODULE HttpServerProofs --------------------------
(* The safety of the server core for every number of connections, of threads *)
(* that stop it and of io_services.                                          *)
EXTENDS HttpServer, TLAPS

\* The io_services the constructor takes in turn are members of the pool.
LEMMA ServicesTaken == SignalSvc \in Services /\ AcceptSvc \in Services /\ ConnSvc \in Services
  BY PoolAssumption DEF PoolAssumption, SignalSvc, AcceptSvc, ConnSvc, Services

-----------------------------------------------------------------------------
\* The initial state is typed.
LEMMA InitType == Init => TypeOK
  BY PoolAssumption DEF PoolAssumption, Init, TypeOK, Workers, Services, ConnSteps, StopSteps

\* No step of the server, of a client or of a user leaves the types.
LEMMA NextType == TypeOK /\ HandlerInv /\ [Next]_vars => TypeOK'
  <1> SUFFICES ASSUME TypeOK, HandlerInv, [Next]_vars PROVE TypeOK'
    OBVIOUS
  <1> USE ServicesTaken DEF TypeOK, acceptVars, connVars, mgrVars, poolVars, Workers, ConnSteps,
          StopSteps
  <1>1. ASSUME Run PROVE TypeOK'
    BY <1>1 DEF Run, AsyncAccept
  <1>2. ASSUME Spawn PROVE TypeOK'
    BY <1>2 DEF Spawn
  <1>3. ASSUME Join PROVE TypeOK'
    BY <1>3 DEF Join
  <1>4. ASSUME NEW s \in Services, Exit(s) PROVE TypeOK'
    BY <1>4 DEF Exit
  <1>5. ASSUME NEW w \in Workers, Start(w) PROVE TypeOK'
    <2>1. cur[w] \in Conns
      BY <1>5 DEF Start, HandlerInv
    <2> QED
      BY <1>5, <2>1 DEF Start, Initiate, Goto
  <1>6. ASSUME NEW w \in Workers, StartAccept(w) PROVE TypeOK'
    BY <1>6 DEF StartAccept, AsyncAccept, Return, Goto
  <1>7. ASSUME NEW w \in Workers, Read(w) PROVE TypeOK'
    <2>1. cur[w] \in Conns
      BY <1>7 DEF Read, HandlerInv
    <2>2. op' \in [Conns -> {"none", "read", "write"}] /\ res' \in [Conns -> {"pending", "ok", "error", "aborted"}]
      BY <1>7, <2>1 DEF Read, Initiate
    <2> QED
      BY <1>7, <2>2 DEF Read, Return, Goto
  <1>8. ASSUME NEW w \in Workers, RemoteEndpoint(w) PROVE TypeOK'
    BY <1>8 DEF RemoteEndpoint, Goto, Terminate
  <1>9. ASSUME NEW w \in Workers, Write(w) PROVE TypeOK'
    <2>1. cur[w] \in Conns
      BY <1>9 DEF Write, HandlerInv
    <2>2. op' \in [Conns -> {"none", "read", "write"}] /\ res' \in [Conns -> {"pending", "ok", "error", "aborted"}]
      BY <1>9, <2>1 DEF Write, Initiate
    <2> QED
      BY <1>9, <2>2 DEF Write, Return, Goto
  <1>10. ASSUME NEW w \in Workers, StopConnection(w) PROVE TypeOK'
    <2>1. sock' \in [Conns -> {"unused", "open", "shut", "closed"}]
      BY <1>10 DEF StopConnection, Close
    <2>2. res' \in [Conns -> {"pending", "ok", "error", "aborted"}]
      BY <1>10 DEF StopConnection, Close, CloseResults
    <2> QED
      BY <1>10, <2>1, <2>2 DEF StopConnection, Return, Goto
  <1>11. ASSUME NEW w \in Workers, NEW o \in HandlerOutcomes, Handle(w, o) PROVE TypeOK'
    BY <1>11 DEF Handle, Goto, Terminate
  <1>12. ASSUME NEW w \in Workers, CloseAcceptor(w) PROVE TypeOK'
    BY <1>12 DEF CloseAcceptor, Goto
  <1>13. ASSUME NEW w \in Workers, StopAll(w) PROVE TypeOK'
    BY <1>13 DEF StopAll, Goto
  <1>14. ASSUME NEW w \in Workers, NEW c \in Conns, StopAllNext(w, c) PROVE TypeOK'
    BY <1>14 DEF StopAllNext, Close, CloseResults
  <1>15. ASSUME NEW w \in Workers, StopAllEnd(w) PROVE TypeOK'
    BY <1>15 DEF StopAllEnd, Goto
  <1>16. ASSUME NEW w \in Workers, PoolStop(w) PROVE TypeOK'
    <2>1. idx[w] \in 0 .. PoolSize /\ idx[w] < PoolSize
      BY <1>16 DEF PoolStop
    <2>2. idx[w] \in Services /\ idx[w] + 1 \in 0 .. PoolSize
      BY <2>1, PoolAssumption DEF PoolAssumption, Services
    <2> QED
      BY <1>16, <2>2 DEF PoolStop
  <1>17. ASSUME NEW w \in Workers, PoolStopEnd(w) PROVE TypeOK'
    BY <1>17 DEF PoolStopEnd, Return, Goto
  <1>18. ASSUME OnAccept PROVE TypeOK'
    BY <1>18 DEF OnAccept, CanDispatch, Goto
  <1>19. ASSUME OnSignal PROVE TypeOK'
    BY <1>19 DEF OnSignal, CanDispatch, Goto
  <1>20. ASSUME NEW c \in Conns, OnReadFailed(c) PROVE TypeOK'
    BY <1>20 DEF OnReadFailed, CanDispatch, Goto
  <1>21. ASSUME NEW c \in Conns, NEW r \in ParseResults, OnReadData(c, r) PROVE TypeOK'
    BY <1>21 DEF OnReadData, CanDispatch, Goto
  <1>22. ASSUME NEW c \in Conns, OnWrite(c) PROVE TypeOK'
    BY <1>22 DEF OnWrite, CanDispatch, Goto
  <1>23. ASSUME NEW c \in Conns, AcceptCompletes(c) PROVE TypeOK'
    BY <1>23 DEF AcceptCompletes
  <1>24. ASSUME AcceptFails PROVE TypeOK'
    BY <1>24 DEF AcceptFails
  <1>25. ASSUME NEW c \in Conns, NEW r \in {"ok", "error"}, OpCompletes(c, r) PROVE TypeOK'
    BY <1>25 DEF OpCompletes
  <1>26. ASSUME RaiseSignal PROVE TypeOK'
    BY <1>26 DEF RaiseSignal
  <1>27. ASSUME NEW w \in Stoppers, Stop(w) PROVE TypeOK'
    BY <1>27 DEF Stop, Goto
  <1>28. CASE UNCHANGED vars
    BY <1>28 DEF vars
  <1> QED
    BY <1>1, <1>2, <1>3, <1>4, <1>5, <1>6, <1>7, <1>8, <1>9, <1>10, <1>11, <1>12, <1>13, <1>14,
          <1>15, <1>16, <1>17, <1>18, <1>19, <1>20, <1>21, <1>22, <1>23, <1>24, <1>25,
          <1>26, <1>27, <1>28 DEF Next, Step, Dispatch, OnCompletion, Environment, Finished

\* The lock and the loop of stop_all: start and stop wait for the mutex, so connections_
\* stays what the loop runs over, and what the loop has visited is closed.
LEMMA NextMutex == Inductive /\ [Next]_vars => MutexInv'
  <1> SUFFICES ASSUME TypeOK, AcceptInv, HandlerInv, MutexInv, [Next]_vars PROVE MutexInv'
    BY DEF Inductive
  <1> USE ServicesTaken, NoneAssumption, ThreadAssumption DEF NoneAssumption,
          ThreadAssumption, TypeOK, MutexInv, Live, HandlerInv, acceptVars, connVars,
          mgrVars, poolVars, Workers, ConnSteps, StopSteps
  <1>1. ASSUME Run PROVE MutexInv'
    BY <1>1 DEF Run, AsyncAccept
  <1>2. ASSUME Spawn PROVE MutexInv'
    BY <1>2 DEF Spawn, AcceptInv
  <1>3. ASSUME Join PROVE MutexInv'
    BY <1>3 DEF Join
  <1>4. ASSUME NEW s \in Services, Exit(s) PROVE MutexInv'
    BY <1>4 DEF Exit
  <1>5. ASSUME NEW w \in Workers, Start(w) PROVE MutexInv'
    BY <1>5 DEF Start, Initiate, Goto
  <1>6. ASSUME NEW w \in Workers, StartAccept(w) PROVE MutexInv'
    BY <1>6 DEF StartAccept, AsyncAccept, Return, Goto
  <1>7. ASSUME NEW w \in Workers, Read(w) PROVE MutexInv'
    BY <1>7 DEF Read, Initiate, Return, Goto
  <1>8. ASSUME NEW w \in Workers, RemoteEndpoint(w) PROVE MutexInv'
    BY <1>8 DEF RemoteEndpoint, Goto, Terminate
  <1>9. ASSUME NEW w \in Workers, Write(w) PROVE MutexInv'
    BY <1>9 DEF Write, Initiate, Return, Goto
  <1>10. ASSUME NEW w \in Workers, StopConnection(w) PROVE MutexInv'
    BY <1>10 DEF StopConnection, Close, CloseResults, Return, Goto
  <1>11. ASSUME NEW w \in Workers, NEW o \in HandlerOutcomes, Handle(w, o) PROVE MutexInv'
    BY <1>11 DEF Handle, Goto, Terminate
  <1>12. ASSUME NEW w \in Workers, CloseAcceptor(w) PROVE MutexInv'
    BY <1>12 DEF CloseAcceptor, Goto
  <1>13. ASSUME NEW w \in Workers, StopAll(w) PROVE MutexInv'
    BY <1>13 DEF StopAll, Goto
  <1>14. ASSUME NEW w \in Workers, NEW c \in Conns, StopAllNext(w, c) PROVE MutexInv'
    BY <1>14 DEF StopAllNext, Close, CloseResults
  <1>15. ASSUME NEW w \in Workers, StopAllEnd(w) PROVE MutexInv'
    BY <1>15 DEF StopAllEnd, Goto
  <1>16. ASSUME NEW w \in Workers, PoolStop(w) PROVE MutexInv'
    BY <1>16 DEF PoolStop
  <1>17. ASSUME NEW w \in Workers, PoolStopEnd(w) PROVE MutexInv'
    BY <1>17 DEF PoolStopEnd, Return, Goto
  <1>18. ASSUME OnAccept PROVE MutexInv'
    BY <1>18 DEF OnAccept, CanDispatch, Goto
  <1>19. ASSUME OnSignal PROVE MutexInv'
    BY <1>19 DEF OnSignal, CanDispatch, Goto
  <1>20. ASSUME NEW c \in Conns, OnReadFailed(c) PROVE MutexInv'
    BY <1>20 DEF OnReadFailed, CanDispatch, Goto
  <1>21. ASSUME NEW c \in Conns, NEW r \in ParseResults, OnReadData(c, r) PROVE MutexInv'
    BY <1>21 DEF OnReadData, CanDispatch, Goto
  <1>22. ASSUME NEW c \in Conns, OnWrite(c) PROVE MutexInv'
    BY <1>22 DEF OnWrite, CanDispatch, Goto
  <1>23. ASSUME NEW c \in Conns, AcceptCompletes(c) PROVE MutexInv'
    BY <1>23 DEF AcceptCompletes
  <1>24. ASSUME AcceptFails PROVE MutexInv'
    BY <1>24 DEF AcceptFails
  <1>25. ASSUME NEW c \in Conns, NEW r \in {"ok", "error"}, OpCompletes(c, r) PROVE MutexInv'
    BY <1>25 DEF OpCompletes
  <1>26. ASSUME RaiseSignal PROVE MutexInv'
    BY <1>26 DEF RaiseSignal
  <1>27. ASSUME NEW w \in Stoppers, Stop(w) PROVE MutexInv'
    BY <1>27 DEF Stop, Goto
  <1>28. CASE UNCHANGED vars
    BY <1>28 DEF vars
  <1> QED
    BY <1>1, <1>2, <1>3, <1>4, <1>5, <1>6, <1>7, <1>8, <1>9, <1>10, <1>11, <1>12, <1>13, <1>14,
          <1>15, <1>16, <1>17, <1>18, <1>19, <1>20, <1>21, <1>22, <1>23, <1>24, <1>25,
          <1>26, <1>27, <1>28 DEF Next, Step, Dispatch, OnCompletion, Environment, Finished

\* The accept chain: at any time it is an outstanding async_accept, its handler, or over.
LEMMA NextAccept == Inductive /\ [Next]_vars => AcceptInv'
  <1> SUFFICES ASSUME TypeOK, AcceptInv, [Next]_vars PROVE AcceptInv'
    BY DEF Inductive
  <1> USE ServicesTaken, NoneAssumption, ThreadAssumption DEF NoneAssumption,
          ThreadAssumption, TypeOK, AcceptInv, acceptVars, connVars, mgrVars, poolVars,
          Workers, ConnSteps, StopSteps
  <1>1. ASSUME Run PROVE AcceptInv'
    BY <1>1 DEF Run, AsyncAccept
  <1>2. ASSUME Spawn PROVE AcceptInv'
    BY <1>2 DEF Spawn
  <1>3. ASSUME Join PROVE AcceptInv'
    BY <1>3 DEF Join
  <1>4. ASSUME NEW s \in Services, Exit(s) PROVE AcceptInv'
    BY <1>4 DEF Exit
  <1>5. ASSUME NEW w \in Workers, Start(w) PROVE AcceptInv'
    BY <1>5 DEF Start, Initiate, Goto
  <1>6. ASSUME NEW w \in Workers, StartAccept(w) PROVE AcceptInv'
    BY <1>6 DEF StartAccept, AsyncAccept, Return, Goto
  <1>7. ASSUME NEW w \in Workers, Read(w) PROVE AcceptInv'
    BY <1>7 DEF Read, Initiate, Return, Goto
  <1>8. ASSUME NEW w \in Workers, RemoteEndpoint(w) PROVE AcceptInv'
    BY <1>8 DEF RemoteEndpoint, Goto, Terminate
  <1>9. ASSUME NEW w \in Workers, Write(w) PROVE AcceptInv'
    BY <1>9 DEF Write, Initiate, Return, Goto
  <1>10. ASSUME NEW w \in Workers, StopConnection(w) PROVE AcceptInv'
    BY <1>10 DEF StopConnection, Close, CloseResults, Return, Goto
  <1>11. ASSUME NEW w \in Workers, NEW o \in HandlerOutcomes, Handle(w, o) PROVE AcceptInv'
    BY <1>11 DEF Handle, Goto, Terminate
  <1>12. ASSUME NEW w \in Workers, CloseAcceptor(w) PROVE AcceptInv'
    BY <1>12 DEF CloseAcceptor, Goto
  <1>13. ASSUME NEW w \in Workers, StopAll(w) PROVE AcceptInv'
    BY <1>13 DEF StopAll, Goto
  <1>14. ASSUME NEW w \in Workers, NEW c \in Conns, StopAllNext(w, c) PROVE AcceptInv'
    BY <1>14 DEF StopAllNext, Close, CloseResults
  <1>15. ASSUME NEW w \in Workers, StopAllEnd(w) PROVE AcceptInv'
    BY <1>15 DEF StopAllEnd, Goto
  <1>16. ASSUME NEW w \in Workers, PoolStop(w) PROVE AcceptInv'
    BY <1>16 DEF PoolStop
  <1>17. ASSUME NEW w \in Workers, PoolStopEnd(w) PROVE AcceptInv'
    BY <1>17 DEF PoolStopEnd, Return, Goto
  <1>18. ASSUME OnAccept PROVE AcceptInv'
    BY <1>18 DEF OnAccept, CanDispatch, Goto
  <1>19. ASSUME OnSignal PROVE AcceptInv'
    BY <1>19 DEF OnSignal, CanDispatch, Goto
  <1>20. ASSUME NEW c \in Conns, OnReadFailed(c) PROVE AcceptInv'
    BY <1>20 DEF OnReadFailed, CanDispatch, Goto
  <1>21. ASSUME NEW c \in Conns, NEW r \in ParseResults, OnReadData(c, r) PROVE AcceptInv'
    BY <1>21 DEF OnReadData, CanDispatch, Goto
  <1>22. ASSUME NEW c \in Conns, OnWrite(c) PROVE AcceptInv'
    BY <1>22 DEF OnWrite, CanDispatch, Goto
  <1>23. ASSUME NEW c \in Conns, AcceptCompletes(c) PROVE AcceptInv'
    BY <1>23 DEF AcceptCompletes
  <1>24. ASSUME AcceptFails PROVE AcceptInv'
    BY <1>24 DEF AcceptFails
  <1>25. ASSUME NEW c \in Conns, NEW r \in {"ok", "error"}, OpCompletes(c, r) PROVE AcceptInv'
    BY <1>25 DEF OpCompletes
  <1>26. ASSUME RaiseSignal PROVE AcceptInv'
    BY <1>26 DEF RaiseSignal
  <1>27. ASSUME NEW w \in Stoppers, Stop(w) PROVE AcceptInv'
    BY <1>27 DEF Stop, Goto
  <1>28. CASE UNCHANGED vars
    BY <1>28 DEF vars
  <1> QED
    BY <1>1, <1>2, <1>3, <1>4, <1>5, <1>6, <1>7, <1>8, <1>9, <1>10, <1>11, <1>12, <1>13, <1>14,
          <1>15, <1>16, <1>17, <1>18, <1>19, <1>20, <1>21, <1>22, <1>23, <1>24, <1>25,
          <1>26, <1>27, <1>28 DEF Next, Step, Dispatch, OnCompletion, Environment, Finished

\* A handler works on a connection that nothing else refers to.
LEMMA NextHandler == Inductive /\ [Next]_vars => HandlerInv'
  <1> SUFFICES ASSUME TypeOK, AcceptInv, HandlerInv, [Next]_vars PROVE HandlerInv'
    BY DEF Inductive
  <1> USE ServicesTaken, NoneAssumption, ThreadAssumption DEF NoneAssumption,
          ThreadAssumption, TypeOK, AcceptInv, HandlerInv, acceptVars, connVars, mgrVars,
          poolVars, Workers, ConnSteps, StopSteps
  <1>1. ASSUME Run PROVE HandlerInv'
    BY <1>1 DEF Run, AsyncAccept
  <1>2. ASSUME Spawn PROVE HandlerInv'
    BY <1>2 DEF Spawn
  <1>3. ASSUME Join PROVE HandlerInv'
    BY <1>3 DEF Join
  <1>4. ASSUME NEW s \in Services, Exit(s) PROVE HandlerInv'
    BY <1>4 DEF Exit
  <1>5. ASSUME NEW w \in Workers, Start(w) PROVE HandlerInv'
    BY <1>5 DEF Start, Initiate, Goto
  <1>6. ASSUME NEW w \in Workers, StartAccept(w) PROVE HandlerInv'
    BY <1>6 DEF StartAccept, AsyncAccept, Return, Goto
  <1>7. ASSUME NEW w \in Workers, Read(w) PROVE HandlerInv'
    BY <1>7 DEF Read, Initiate, Return, Goto
  <1>8. ASSUME NEW w \in Workers, RemoteEndpoint(w) PROVE HandlerInv'
    BY <1>8 DEF RemoteEndpoint, Goto, Terminate
  <1>9. ASSUME NEW w \in Workers, Write(w) PROVE HandlerInv'
    BY <1>9 DEF Write, Initiate, Return, Goto
  <1>10. ASSUME NEW w \in Workers, StopConnection(w) PROVE HandlerInv'
    BY <1>10 DEF StopConnection, Close, CloseResults, Return, Goto
  <1>11. ASSUME NEW w \in Workers, NEW o \in HandlerOutcomes, Handle(w, o) PROVE HandlerInv'
    BY <1>11 DEF Handle, Goto, Terminate
  <1>12. ASSUME NEW w \in Workers, CloseAcceptor(w) PROVE HandlerInv'
    BY <1>12 DEF CloseAcceptor, Goto
  <1>13. ASSUME NEW w \in Workers, StopAll(w) PROVE HandlerInv'
    BY <1>13 DEF StopAll, Goto
  <1>14. ASSUME NEW w \in Workers, NEW c \in Conns, StopAllNext(w, c) PROVE HandlerInv'
    BY <1>14 DEF StopAllNext, Close, CloseResults
  <1>15. ASSUME NEW w \in Workers, StopAllEnd(w) PROVE HandlerInv'
    BY <1>15 DEF StopAllEnd, Goto
  <1>16. ASSUME NEW w \in Workers, PoolStop(w) PROVE HandlerInv'
    BY <1>16 DEF PoolStop
  <1>17. ASSUME NEW w \in Workers, PoolStopEnd(w) PROVE HandlerInv'
    BY <1>17 DEF PoolStopEnd, Return, Goto
  <1>18. ASSUME OnAccept PROVE HandlerInv'
    <2>1. pc[AcceptSvc] = "idle" /\ cur[AcceptSvc] = None
      BY <1>18 DEF OnAccept, CanDispatch
    <2>2. UNCHANGED <<connections_, op, sock>>
      BY <1>18 DEF OnAccept
    <2>3. CASE acceptor = "open" /\ acceptOp = "ok"
      <3>1. PICK c \in Conns : c = socket_
        BY <2>3
      <3>2. /\ pc' = [pc EXCEPT ![AcceptSvc] = "start"]
            /\ cur' = [cur EXCEPT ![AcceptSvc] = c]
            /\ socket_' = None
        BY <1>18, <2>3, <3>1 DEF OnAccept, Goto
      <3>3. op[c] = "none" /\ c \notin connections_ /\ \A w \in Workers : cur[w] # c
        BY <3>1
      <3>4. sock[c] # "unused"
        BY <3>1
      <3> QED
        BY <2>1, <2>2, <3>2, <3>3, <3>4
    <2>4. CASE ~(acceptor = "open" /\ acceptOp = "ok")
      BY <1>18, <2>1, <2>2, <2>4 DEF OnAccept, Goto
    <2> QED
      BY <2>3, <2>4
  <1>19. ASSUME OnSignal PROVE HandlerInv'
    BY <1>19 DEF OnSignal, CanDispatch, Goto
  <1>20. ASSUME NEW c \in Conns, OnReadFailed(c) PROVE HandlerInv'
    BY <1>20 DEF OnReadFailed, CanDispatch, Goto
  <1>21. ASSUME NEW c \in Conns, NEW r \in ParseResults, OnReadData(c, r) PROVE HandlerInv'
    BY <1>21 DEF OnReadData, CanDispatch, Goto
  <1>22. ASSUME NEW c \in Conns, OnWrite(c) PROVE HandlerInv'
    BY <1>22 DEF OnWrite, CanDispatch, Goto
  <1>23. ASSUME NEW c \in Conns, AcceptCompletes(c) PROVE HandlerInv'
    BY <1>23 DEF AcceptCompletes
  <1>24. ASSUME AcceptFails PROVE HandlerInv'
    BY <1>24 DEF AcceptFails
  <1>25. ASSUME NEW c \in Conns, NEW r \in {"ok", "error"}, OpCompletes(c, r) PROVE HandlerInv'
    BY <1>25 DEF OpCompletes
  <1>26. ASSUME RaiseSignal PROVE HandlerInv'
    BY <1>26 DEF RaiseSignal
  <1>27. ASSUME NEW w \in Stoppers, Stop(w) PROVE HandlerInv'
    BY <1>27 DEF Stop, Goto
  <1>28. CASE UNCHANGED vars
    BY <1>28 DEF vars
  <1> QED
    BY <1>1, <1>2, <1>3, <1>4, <1>5, <1>6, <1>7, <1>8, <1>9, <1>10, <1>11, <1>12, <1>13, <1>14,
          <1>15, <1>16, <1>17, <1>18, <1>19, <1>20, <1>21, <1>22, <1>23, <1>24, <1>25,
          <1>26, <1>27, <1>28 DEF Next, Step, Dispatch, OnCompletion, Environment, Finished

\* No step loses the last reference to an open socket.
LEMMA NextManaged == Inductive /\ [Next]_vars => OpenManaged'
  <1> SUFFICES ASSUME TypeOK, AcceptInv, HandlerInv, MutexInv, OpenManaged, [Next]_vars
               PROVE  OpenManaged'
    BY DEF Inductive
  <1> USE ServicesTaken, NoneAssumption, ThreadAssumption DEF NoneAssumption,
          ThreadAssumption, TypeOK, AcceptInv, HandlerInv, MutexInv, OpenManaged, Live,
          acceptVars, connVars, mgrVars, poolVars, Workers, ConnSteps, StopSteps
  <1>1. ASSUME Run PROVE OpenManaged'
    BY <1>1 DEF Run, AsyncAccept
  <1>2. ASSUME Spawn PROVE OpenManaged'
    BY <1>2 DEF Spawn
  <1>3. ASSUME Join PROVE OpenManaged'
    BY <1>3 DEF Join
  <1>4. ASSUME NEW s \in Services, Exit(s) PROVE OpenManaged'
    BY <1>4 DEF Exit
  <1>5. ASSUME NEW w \in Workers, Start(w) PROVE OpenManaged'
    BY <1>5 DEF Start, Initiate, Goto
  <1>6. ASSUME NEW w \in Workers, StartAccept(w) PROVE OpenManaged'
    BY <1>6 DEF StartAccept, AsyncAccept, Return, Goto
  <1>7. ASSUME NEW w \in Workers, Read(w) PROVE OpenManaged'
    BY <1>7 DEF Read, Initiate, Return, Goto
  <1>8. ASSUME NEW w \in Workers, RemoteEndpoint(w) PROVE OpenManaged'
    BY <1>8 DEF RemoteEndpoint, Goto, Terminate
  <1>9. ASSUME NEW w \in Workers, Write(w) PROVE OpenManaged'
    BY <1>9 DEF Write, Initiate, Return, Goto
  <1>10. ASSUME NEW w \in Workers, StopConnection(w) PROVE OpenManaged'
    BY <1>10 DEF StopConnection, Close, CloseResults, Return, Goto
  <1>11. ASSUME NEW w \in Workers, NEW o \in HandlerOutcomes, Handle(w, o) PROVE OpenManaged'
    BY <1>11 DEF Handle, Goto, Terminate
  <1>12. ASSUME NEW w \in Workers, CloseAcceptor(w) PROVE OpenManaged'
    BY <1>12 DEF CloseAcceptor, Goto
  <1>13. ASSUME NEW w \in Workers, StopAll(w) PROVE OpenManaged'
    BY <1>13 DEF StopAll, Goto
  <1>14. ASSUME NEW w \in Workers, NEW c \in Conns, StopAllNext(w, c) PROVE OpenManaged'
    BY <1>14 DEF StopAllNext, Close, CloseResults
  <1>15. ASSUME NEW w \in Workers, StopAllEnd(w) PROVE OpenManaged'
    BY <1>15 DEF StopAllEnd, Goto
  <1>16. ASSUME NEW w \in Workers, PoolStop(w) PROVE OpenManaged'
    BY <1>16 DEF PoolStop
  <1>17. ASSUME NEW w \in Workers, PoolStopEnd(w) PROVE OpenManaged'
    BY <1>17 DEF PoolStopEnd, Return, Goto
  <1>18. ASSUME OnAccept PROVE OpenManaged'
    BY <1>18 DEF OnAccept, CanDispatch, Goto
  <1>19. ASSUME OnSignal PROVE OpenManaged'
    BY <1>19 DEF OnSignal, CanDispatch, Goto
  <1>20. ASSUME NEW c \in Conns, OnReadFailed(c) PROVE OpenManaged'
    BY <1>20 DEF OnReadFailed, CanDispatch, Goto
  <1>21. ASSUME NEW c \in Conns, NEW r \in ParseResults, OnReadData(c, r) PROVE OpenManaged'
    BY <1>21 DEF OnReadData, CanDispatch, Goto
  <1>22. ASSUME NEW c \in Conns, OnWrite(c) PROVE OpenManaged'
    BY <1>22 DEF OnWrite, CanDispatch, Goto
  <1>23. ASSUME NEW c \in Conns, AcceptCompletes(c) PROVE OpenManaged'
    BY <1>23 DEF AcceptCompletes
  <1>24. ASSUME AcceptFails PROVE OpenManaged'
    BY <1>24 DEF AcceptFails
  <1>25. ASSUME NEW c \in Conns, NEW r \in {"ok", "error"}, OpCompletes(c, r) PROVE OpenManaged'
    BY <1>25 DEF OpCompletes
  <1>26. ASSUME RaiseSignal PROVE OpenManaged'
    BY <1>26 DEF RaiseSignal
  <1>27. ASSUME NEW w \in Stoppers, Stop(w) PROVE OpenManaged'
    BY <1>27 DEF Stop, Goto
  <1>28. CASE UNCHANGED vars
    BY <1>28 DEF vars
  <1> QED
    BY <1>1, <1>2, <1>3, <1>4, <1>5, <1>6, <1>7, <1>8, <1>9, <1>10, <1>11, <1>12, <1>13, <1>14,
          <1>15, <1>16, <1>17, <1>18, <1>19, <1>20, <1>21, <1>22, <1>23, <1>24, <1>25,
          <1>26, <1>27, <1>28 DEF Next, Step, Dispatch, OnCompletion, Environment, Finished

\* Once stop_all is over the open sockets are at most one, and no more come.
LEMMA NextStop == Inductive /\ [Next]_vars => StopInv'
  <1> SUFFICES ASSUME TypeOK, AcceptInv, HandlerInv, MutexInv, OpenManaged, StopInv,
                      [Next]_vars
               PROVE  StopInv'
    BY DEF Inductive
  <1> USE ServicesTaken, NoneAssumption, ThreadAssumption DEF NoneAssumption,
          ThreadAssumption, TypeOK, StopInv, AcceptInv, HandlerInv, OpenManaged, MutexInv,
          Live, acceptVars, connVars, mgrVars, poolVars, Workers, ConnSteps, StopSteps
  <1>1. ASSUME Run PROVE StopInv'
    BY <1>1 DEF Run, AsyncAccept
  <1>2. ASSUME Spawn PROVE StopInv'
    BY <1>2 DEF Spawn
  <1>3. ASSUME Join PROVE StopInv'
    BY <1>3 DEF Join
  <1>4. ASSUME NEW s \in Services, Exit(s) PROVE StopInv'
    BY <1>4 DEF Exit
  <1>5. ASSUME NEW w \in Workers, Start(w) PROVE StopInv'
    BY <1>5 DEF Start, Initiate, Goto
  <1>6. ASSUME NEW w \in Workers, StartAccept(w) PROVE StopInv'
    BY <1>6 DEF StartAccept, AsyncAccept, Return, Goto
  <1>7. ASSUME NEW w \in Workers, Read(w) PROVE StopInv'
    BY <1>7 DEF Read, Initiate, Return, Goto
  <1>8. ASSUME NEW w \in Workers, RemoteEndpoint(w) PROVE StopInv'
    BY <1>8 DEF RemoteEndpoint, Goto, Terminate
  <1>9. ASSUME NEW w \in Workers, Write(w) PROVE StopInv'
    BY <1>9 DEF Write, Initiate, Return, Goto
  <1>10. ASSUME NEW w \in Workers, StopConnection(w) PROVE StopInv'
    BY <1>10 DEF StopConnection, Close, CloseResults, Return, Goto
  <1>11. ASSUME NEW w \in Workers, NEW o \in HandlerOutcomes, Handle(w, o) PROVE StopInv'
    BY <1>11 DEF Handle, Goto, Terminate
  <1>12. ASSUME NEW w \in Workers, CloseAcceptor(w) PROVE StopInv'
    BY <1>12 DEF CloseAcceptor, Goto
  <1>13. ASSUME NEW w \in Workers, StopAll(w) PROVE StopInv'
    BY <1>13 DEF StopAll, Goto
  <1>14. ASSUME NEW w \in Workers, NEW c \in Conns, StopAllNext(w, c) PROVE StopInv'
    BY <1>14 DEF StopAllNext, Close, CloseResults
  <1>15. ASSUME NEW w \in Workers, StopAllEnd(w) PROVE StopInv'
    BY <1>15 DEF StopAllEnd, Goto
  <1>16. ASSUME NEW w \in Workers, PoolStop(w) PROVE StopInv'
    BY <1>16 DEF PoolStop
  <1>17. ASSUME NEW w \in Workers, PoolStopEnd(w) PROVE StopInv'
    BY <1>17 DEF PoolStopEnd, Return, Goto
  <1>18. ASSUME OnAccept PROVE StopInv'
    BY <1>18 DEF OnAccept, CanDispatch, Goto
  <1>19. ASSUME OnSignal PROVE StopInv'
    BY <1>19 DEF OnSignal, CanDispatch, Goto
  <1>20. ASSUME NEW c \in Conns, OnReadFailed(c) PROVE StopInv'
    BY <1>20 DEF OnReadFailed, CanDispatch, Goto
  <1>21. ASSUME NEW c \in Conns, NEW r \in ParseResults, OnReadData(c, r) PROVE StopInv'
    BY <1>21 DEF OnReadData, CanDispatch, Goto
  <1>22. ASSUME NEW c \in Conns, OnWrite(c) PROVE StopInv'
    BY <1>22 DEF OnWrite, CanDispatch, Goto
  <1>23. ASSUME NEW c \in Conns, AcceptCompletes(c) PROVE StopInv'
    BY <1>23 DEF AcceptCompletes
  <1>24. ASSUME AcceptFails PROVE StopInv'
    BY <1>24 DEF AcceptFails
  <1>25. ASSUME NEW c \in Conns, NEW r \in {"ok", "error"}, OpCompletes(c, r) PROVE StopInv'
    BY <1>25 DEF OpCompletes
  <1>26. ASSUME RaiseSignal PROVE StopInv'
    BY <1>26 DEF RaiseSignal
  <1>27. ASSUME NEW w \in Stoppers, Stop(w) PROVE StopInv'
    BY <1>27 DEF Stop, Goto
  <1>28. CASE UNCHANGED vars
    BY <1>28 DEF vars
  <1> QED
    BY <1>1, <1>2, <1>3, <1>4, <1>5, <1>6, <1>7, <1>8, <1>9, <1>10, <1>11, <1>12, <1>13, <1>14,
          <1>15, <1>16, <1>17, <1>18, <1>19, <1>20, <1>21, <1>22, <1>23, <1>24, <1>25,
          <1>26, <1>27, <1>28 DEF Next, Step, Dispatch, OnCompletion, Environment, Finished

-----------------------------------------------------------------------------
\* The inductive invariant holds in the initial state.
LEMMA InitInductive == Init => Inductive
  <1> SUFFICES ASSUME Init PROVE Inductive
    OBVIOUS
  <1>1. TypeOK
    BY InitType
  <1>2. MutexInv /\ HandlerInv /\ OpenManaged
    BY NoneAssumption DEF NoneAssumption, Init, MutexInv, HandlerInv, OpenManaged, Live, ConnSteps,
       Workers
  <1>3. AcceptInv /\ StopInv
    BY DEF Init, AcceptInv, StopInv, Live, Workers
  <1> QED
    BY <1>1, <1>2, <1>3 DEF Inductive

\* The inductive invariant holds in every reachable state.
THEOREM Invariance == Spec => []Inductive
  <1>1. Inductive /\ [Next]_vars => Inductive'
    BY NextType, NextMutex, NextAccept, NextHandler, NextManaged, NextStop DEF Inductive
  <1> QED
    BY InitInductive, <1>1, PTL DEF Spec

\* The state is always typed.
THEOREM TypeCorrect == Spec => []TypeOK
  <1>1. Inductive => TypeOK
    BY DEF Inductive
  <1> QED
    BY <1>1, Invariance, PTL

\* The loop of stop_all never runs over a set that another thread changes.
THEOREM StopAllIterates == Spec => []IterationSafe
  <1>1. Inductive => IterationSafe
    BY NoneAssumption DEF NoneAssumption, Inductive, MutexInv, IterationSafe, Workers
  <1> QED
    BY <1>1, Invariance, PTL

\* No open socket is ever without an owner that will close it.
THEOREM OpenSocketsManaged == Spec => []OpenManaged
  <1>1. Inductive => OpenManaged
    BY DEF Inductive
  <1> QED
    BY <1>1, Invariance, PTL

\* The unlocked state of a connection is used by one thread at a time.
THEOREM OneHandlerPerConnection == Spec => []ImplicitStrand
  <1>1. ASSUME Inductive PROVE ImplicitStrand
    <2>1. ASSUME NEW c \in Conns, NEW v \in Workers, NEW w \in Workers, cur[v] = c, cur[w] = c
          PROVE v = w
      <3>1. pc[v] \in ConnSteps \cup {"start"} /\ pc[w] \in ConnSteps \cup {"start"}
        BY <1>1, <2>1, NoneAssumption DEF NoneAssumption, Inductive, HandlerInv
      <3>2. CASE pc[v] = "start" \/ pc[w] = "start"
        BY <1>1, <2>1, <3>2 DEF Inductive, HandlerInv
      <3>3. CASE pc[v] \in ConnSteps /\ pc[w] \in ConnSteps
        BY <1>1, <3>3 DEF Inductive, HandlerInv
      <3> QED
        BY <3>1, <3>2, <3>3
    <2>2. \A c \in Conns : op[c] # "none" => \A w \in Workers : cur[w] # c
      BY <1>1 DEF Inductive, HandlerInv
    <2> QED
      BY <2>1, <2>2 DEF ImplicitStrand
  <1> QED
    BY <1>1, Invariance, PTL

\* Shutdown closes every connection but perhaps the one whose accept raced with it.
THEOREM ShutdownCloses == Spec => []OneLeftOpen
  <1>1. Inductive => OneLeftOpen
    BY DEF Inductive, StopInv, OneLeftOpen
  <1> QED
    BY <1>1, Invariance, PTL
-----------------------------------------------------------------------------
\* A response is set only in the handler of its connection, on the way to write: from then on
\* the connection is written to and stopped, and nothing starts another read on it.
LEMMA NextAnswered == Inductive /\ AnsweredInv /\ [Next]_vars => AnsweredInv'
  <1> SUFFICES ASSUME TypeOK, AcceptInv, HandlerInv, AnsweredInv, [Next]_vars PROVE AnsweredInv'
    BY DEF Inductive
  <1> USE ServicesTaken, NoneAssumption, ThreadAssumption DEF NoneAssumption,
          ThreadAssumption, TypeOK, HandlerInv, acceptVars, connVars, mgrVars, poolVars,
          Workers, ConnSteps, StopSteps, AnsweredInv
  <1>1. ASSUME Run PROVE AnsweredInv'
    BY <1>1 DEF Run, AsyncAccept
  <1>2. ASSUME Spawn PROVE AnsweredInv'
    BY <1>2 DEF Spawn, AcceptInv
  <1>3. ASSUME Join PROVE AnsweredInv'
    BY <1>3 DEF Join
  <1>4. ASSUME NEW s \in Services, Exit(s) PROVE AnsweredInv'
    BY <1>4 DEF Exit
  <1>5. ASSUME NEW w \in Workers, Start(w) PROVE AnsweredInv'
    BY <1>5 DEF Start, Initiate, Goto
  <1>6. ASSUME NEW w \in Workers, StartAccept(w) PROVE AnsweredInv'
    BY <1>6 DEF StartAccept, AsyncAccept, Return, Goto
  <1>7. ASSUME NEW w \in Workers, Read(w) PROVE AnsweredInv'
    BY <1>7 DEF Read, Initiate, Return, Goto
  <1>8. ASSUME NEW w \in Workers, RemoteEndpoint(w) PROVE AnsweredInv'
    BY <1>8 DEF RemoteEndpoint, Goto, Terminate
  <1>9. ASSUME NEW w \in Workers, Write(w) PROVE AnsweredInv'
    BY <1>9 DEF Write, Initiate, Return, Goto
  <1>10. ASSUME NEW w \in Workers, StopConnection(w) PROVE AnsweredInv'
    BY <1>10 DEF StopConnection, Close, CloseResults, Return, Goto
  <1>11. ASSUME NEW w \in Workers, NEW o \in HandlerOutcomes, Handle(w, o) PROVE AnsweredInv'
    BY <1>11 DEF Handle, Goto, Terminate
  <1>12. ASSUME NEW w \in Workers, CloseAcceptor(w) PROVE AnsweredInv'
    BY <1>12 DEF CloseAcceptor, Goto
  <1>13. ASSUME NEW w \in Workers, StopAll(w) PROVE AnsweredInv'
    BY <1>13 DEF StopAll, Goto
  <1>14. ASSUME NEW w \in Workers, NEW c \in Conns, StopAllNext(w, c) PROVE AnsweredInv'
    BY <1>14 DEF StopAllNext, Close, CloseResults
  <1>15. ASSUME NEW w \in Workers, StopAllEnd(w) PROVE AnsweredInv'
    BY <1>15 DEF StopAllEnd, Goto
  <1>16. ASSUME NEW w \in Workers, PoolStop(w) PROVE AnsweredInv'
    BY <1>16 DEF PoolStop
  <1>17. ASSUME NEW w \in Workers, PoolStopEnd(w) PROVE AnsweredInv'
    BY <1>17 DEF PoolStopEnd, Return, Goto
  <1>18. ASSUME OnAccept PROVE AnsweredInv'
    BY <1>18 DEF OnAccept, CanDispatch, Goto, AcceptInv
  <1>19. ASSUME OnSignal PROVE AnsweredInv'
    BY <1>19 DEF OnSignal, CanDispatch, Goto
  <1>20. ASSUME NEW c \in Conns, OnReadFailed(c) PROVE AnsweredInv'
    BY <1>20 DEF OnReadFailed, CanDispatch, Goto
  <1>21. ASSUME NEW c \in Conns, NEW r \in ParseResults, OnReadData(c, r) PROVE AnsweredInv'
    BY <1>21 DEF OnReadData, CanDispatch, Goto
  <1>22. ASSUME NEW c \in Conns, OnWrite(c) PROVE AnsweredInv'
    BY <1>22 DEF OnWrite, CanDispatch, Goto
  <1>23. ASSUME NEW c \in Conns, AcceptCompletes(c) PROVE AnsweredInv'
    BY <1>23 DEF AcceptCompletes
  <1>24. ASSUME AcceptFails PROVE AnsweredInv'
    BY <1>24 DEF AcceptFails
  <1>25. ASSUME NEW c \in Conns, NEW r \in {"ok", "error"}, OpCompletes(c, r) PROVE AnsweredInv'
    BY <1>25 DEF OpCompletes
  <1>26. ASSUME RaiseSignal PROVE AnsweredInv'
    BY <1>26 DEF RaiseSignal
  <1>27. ASSUME NEW w \in Stoppers, Stop(w) PROVE AnsweredInv'
    BY <1>27 DEF Stop, Goto
  <1>28. CASE UNCHANGED vars
    BY <1>28 DEF vars
  <1> QED
    BY <1>1, <1>2, <1>3, <1>4, <1>5, <1>6, <1>7, <1>8, <1>9, <1>10, <1>11, <1>12, <1>13, <1>14,
          <1>15, <1>16, <1>17, <1>18, <1>19, <1>20, <1>21, <1>22, <1>23, <1>24, <1>25,
          <1>26, <1>27, <1>28 DEF Next, Step, Dispatch, OnCompletion, Environment, Finished

\* Only closing a socket aborts the operation on it, and a closed socket stays closed.
LEMMA NextAborted == Inductive /\ AbortedInv /\ [Next]_vars => AbortedInv'
  <1> SUFFICES ASSUME TypeOK, HandlerInv, AbortedInv, [Next]_vars PROVE AbortedInv'
    BY DEF Inductive
  <1> USE ServicesTaken, NoneAssumption, ThreadAssumption DEF NoneAssumption,
          ThreadAssumption, TypeOK, HandlerInv, acceptVars, connVars, mgrVars, poolVars,
          Workers, ConnSteps, StopSteps, AbortedInv
  <1>1. ASSUME Run PROVE AbortedInv'
    BY <1>1 DEF Run, AsyncAccept
  <1>2. ASSUME Spawn PROVE AbortedInv'
    BY <1>2 DEF Spawn
  <1>3. ASSUME Join PROVE AbortedInv'
    BY <1>3 DEF Join
  <1>4. ASSUME NEW s \in Services, Exit(s) PROVE AbortedInv'
    BY <1>4 DEF Exit
  <1>5. ASSUME NEW w \in Workers, Start(w) PROVE AbortedInv'
    BY <1>5 DEF Start, Initiate, Goto
  <1>6. ASSUME NEW w \in Workers, StartAccept(w) PROVE AbortedInv'
    BY <1>6 DEF StartAccept, AsyncAccept, Return, Goto
  <1>7. ASSUME NEW w \in Workers, Read(w) PROVE AbortedInv'
    BY <1>7 DEF Read, Initiate, Return, Goto
  <1>8. ASSUME NEW w \in Workers, RemoteEndpoint(w) PROVE AbortedInv'
    BY <1>8 DEF RemoteEndpoint, Goto, Terminate
  <1>9. ASSUME NEW w \in Workers, Write(w) PROVE AbortedInv'
    BY <1>9 DEF Write, Initiate, Return, Goto
  <1>10. ASSUME NEW w \in Workers, StopConnection(w) PROVE AbortedInv'
    BY <1>10 DEF StopConnection, Close, CloseResults, Return, Goto
  <1>11. ASSUME NEW w \in Workers, NEW o \in HandlerOutcomes, Handle(w, o) PROVE AbortedInv'
    BY <1>11 DEF Handle, Goto, Terminate
  <1>12. ASSUME NEW w \in Workers, CloseAcceptor(w) PROVE AbortedInv'
    BY <1>12 DEF CloseAcceptor, Goto
  <1>13. ASSUME NEW w \in Workers, StopAll(w) PROVE AbortedInv'
    BY <1>13 DEF StopAll, Goto
  <1>14. ASSUME NEW w \in Workers, NEW c \in Conns, StopAllNext(w, c) PROVE AbortedInv'
    BY <1>14 DEF StopAllNext, Close, CloseResults
  <1>15. ASSUME NEW w \in Workers, StopAllEnd(w) PROVE AbortedInv'
    BY <1>15 DEF StopAllEnd, Goto
  <1>16. ASSUME NEW w \in Workers, PoolStop(w) PROVE AbortedInv'
    BY <1>16 DEF PoolStop
  <1>17. ASSUME NEW w \in Workers, PoolStopEnd(w) PROVE AbortedInv'
    BY <1>17 DEF PoolStopEnd, Return, Goto
  <1>18. ASSUME OnAccept PROVE AbortedInv'
    BY <1>18 DEF OnAccept, CanDispatch, Goto
  <1>19. ASSUME OnSignal PROVE AbortedInv'
    BY <1>19 DEF OnSignal, CanDispatch, Goto
  <1>20. ASSUME NEW c \in Conns, OnReadFailed(c) PROVE AbortedInv'
    BY <1>20 DEF OnReadFailed, CanDispatch, Goto
  <1>21. ASSUME NEW c \in Conns, NEW r \in ParseResults, OnReadData(c, r) PROVE AbortedInv'
    BY <1>21 DEF OnReadData, CanDispatch, Goto
  <1>22. ASSUME NEW c \in Conns, OnWrite(c) PROVE AbortedInv'
    BY <1>22 DEF OnWrite, CanDispatch, Goto
  <1>23. ASSUME NEW c \in Conns, AcceptCompletes(c) PROVE AbortedInv'
    BY <1>23 DEF AcceptCompletes
  <1>24. ASSUME AcceptFails PROVE AbortedInv'
    BY <1>24 DEF AcceptFails
  <1>25. ASSUME NEW c \in Conns, NEW r \in {"ok", "error"}, OpCompletes(c, r) PROVE AbortedInv'
    BY <1>25 DEF OpCompletes
  <1>26. ASSUME RaiseSignal PROVE AbortedInv'
    BY <1>26 DEF RaiseSignal
  <1>27. ASSUME NEW w \in Stoppers, Stop(w) PROVE AbortedInv'
    BY <1>27 DEF Stop, Goto
  <1>28. CASE UNCHANGED vars
    BY <1>28 DEF vars
  <1> QED
    BY <1>1, <1>2, <1>3, <1>4, <1>5, <1>6, <1>7, <1>8, <1>9, <1>10, <1>11, <1>12, <1>13, <1>14,
          <1>15, <1>16, <1>17, <1>18, <1>19, <1>20, <1>21, <1>22, <1>23, <1>24, <1>25,
          <1>26, <1>27, <1>28 DEF Next, Step, Dispatch, OnCompletion, Environment, Finished

\* While the server accepts, a socket is closed only by the last step of its own handler.
LEMMA NextEnded == Inductive /\ EndedInv /\ [Next]_vars => EndedInv'
  <1> SUFFICES ASSUME TypeOK, MutexInv, AcceptInv, HandlerInv, StopInv, EndedInv,
                         [Next]_vars PROVE EndedInv'
    BY DEF Inductive
  <1> USE ServicesTaken, NoneAssumption, ThreadAssumption DEF NoneAssumption,
          ThreadAssumption, TypeOK, HandlerInv, acceptVars, connVars, mgrVars, poolVars,
          Workers, ConnSteps, StopSteps, EndedInv
  <1>1. ASSUME Run PROVE EndedInv'
    BY <1>1 DEF Run, AsyncAccept
  <1>2. ASSUME Spawn PROVE EndedInv'
    BY <1>2 DEF Spawn, AcceptInv
  <1>3. ASSUME Join PROVE EndedInv'
    BY <1>3 DEF Join
  <1>4. ASSUME NEW s \in Services, Exit(s) PROVE EndedInv'
    BY <1>4 DEF Exit
  <1>5. ASSUME NEW w \in Workers, Start(w) PROVE EndedInv'
    BY <1>5 DEF Start, Initiate, Goto
  <1>6. ASSUME NEW w \in Workers, StartAccept(w) PROVE EndedInv'
    BY <1>6 DEF StartAccept, AsyncAccept, Return, Goto
  <1>7. ASSUME NEW w \in Workers, Read(w) PROVE EndedInv'
    BY <1>7 DEF Read, Initiate, Return, Goto
  <1>8. ASSUME NEW w \in Workers, RemoteEndpoint(w) PROVE EndedInv'
    BY <1>8 DEF RemoteEndpoint, Goto, Terminate
  <1>9. ASSUME NEW w \in Workers, Write(w) PROVE EndedInv'
    BY <1>9 DEF Write, Initiate, Return, Goto
  <1>10. ASSUME NEW w \in Workers, StopConnection(w) PROVE EndedInv'
    BY <1>10 DEF StopConnection, Close, CloseResults, Return, Goto
  <1>11. ASSUME NEW w \in Workers, NEW o \in HandlerOutcomes, Handle(w, o) PROVE EndedInv'
    BY <1>11 DEF Handle, Goto, Terminate
  <1>12. ASSUME NEW w \in Workers, CloseAcceptor(w) PROVE EndedInv'
    BY <1>12 DEF CloseAcceptor, Goto
  <1>13. ASSUME NEW w \in Workers, StopAll(w) PROVE EndedInv'
    BY <1>13 DEF StopAll, Goto
  <1>14. ASSUME NEW w \in Workers, NEW c \in Conns, StopAllNext(w, c) PROVE EndedInv'
    BY <1>14 DEF StopAllNext, Close, CloseResults, StopInv
  <1>15. ASSUME NEW w \in Workers, StopAllEnd(w) PROVE EndedInv'
    BY <1>15 DEF StopAllEnd, Goto
  <1>16. ASSUME NEW w \in Workers, PoolStop(w) PROVE EndedInv'
    BY <1>16 DEF PoolStop
  <1>17. ASSUME NEW w \in Workers, PoolStopEnd(w) PROVE EndedInv'
    BY <1>17 DEF PoolStopEnd, Return, Goto
  <1>18. ASSUME OnAccept PROVE EndedInv'
    BY <1>18 DEF OnAccept, CanDispatch, Goto, AcceptInv
  <1>19. ASSUME OnSignal PROVE EndedInv'
    BY <1>19 DEF OnSignal, CanDispatch, Goto
  <1>20. ASSUME NEW c \in Conns, OnReadFailed(c) PROVE EndedInv'
    BY <1>20 DEF OnReadFailed, CanDispatch, Goto
  <1>21. ASSUME NEW c \in Conns, NEW r \in ParseResults, OnReadData(c, r) PROVE EndedInv'
    BY <1>21 DEF OnReadData, CanDispatch, Goto
  <1>22. ASSUME NEW c \in Conns, OnWrite(c) PROVE EndedInv'
    BY <1>22 DEF OnWrite, CanDispatch, Goto
  <1>23. ASSUME NEW c \in Conns, AcceptCompletes(c) PROVE EndedInv'
    BY <1>23 DEF AcceptCompletes
  <1>24. ASSUME AcceptFails PROVE EndedInv'
    BY <1>24 DEF AcceptFails
  <1>25. ASSUME NEW c \in Conns, NEW r \in {"ok", "error"}, OpCompletes(c, r) PROVE EndedInv'
    BY <1>25 DEF OpCompletes
  <1>26. ASSUME RaiseSignal PROVE EndedInv'
    BY <1>26 DEF RaiseSignal
  <1>27. ASSUME NEW w \in Stoppers, Stop(w) PROVE EndedInv'
    BY <1>27 DEF Stop, Goto
  <1>28. CASE UNCHANGED vars
    BY <1>28 DEF vars
  <1> QED
    BY <1>1, <1>2, <1>3, <1>4, <1>5, <1>6, <1>7, <1>8, <1>9, <1>10, <1>11, <1>12, <1>13, <1>14,
          <1>15, <1>16, <1>17, <1>18, <1>19, <1>20, <1>21, <1>22, <1>23, <1>24, <1>25,
          <1>26, <1>27, <1>28 DEF Next, Step, Dispatch, OnCompletion, Environment, Finished

\* A handler that returns leaves an operation behind, or has closed the connection.
LEMMA NextForgotten == Inductive /\ AbortedInv /\ NoneForgotten /\ [Next]_vars => NoneForgotten'
  <1> SUFFICES ASSUME TypeOK, AcceptInv, HandlerInv, AbortedInv, NoneForgotten, [Next]_vars PROVE NoneForgotten'
    BY DEF Inductive
  <1> USE ServicesTaken, NoneAssumption, ThreadAssumption DEF NoneAssumption,
          ThreadAssumption, TypeOK, HandlerInv, acceptVars, connVars, mgrVars, poolVars,
          Workers, ConnSteps, StopSteps, AbortedInv, NoneForgotten, Live
  <1>1. ASSUME Run PROVE NoneForgotten'
    BY <1>1 DEF Run, AsyncAccept
  <1>2. ASSUME Spawn PROVE NoneForgotten'
    BY <1>2 DEF Spawn, AcceptInv
  <1>3. ASSUME Join PROVE NoneForgotten'
    BY <1>3 DEF Join
  <1>4. ASSUME NEW s \in Services, Exit(s) PROVE NoneForgotten'
    BY <1>4 DEF Exit
  <1>5. ASSUME NEW w \in Workers, Start(w) PROVE NoneForgotten'
    BY <1>5 DEF Start, Initiate, Goto
  <1>6. ASSUME NEW w \in Workers, StartAccept(w) PROVE NoneForgotten'
    BY <1>6 DEF StartAccept, AsyncAccept, Return, Goto
  <1>7. ASSUME NEW w \in Workers, Read(w) PROVE NoneForgotten'
    BY <1>7 DEF Read, Initiate, Return, Goto
  <1>8. ASSUME NEW w \in Workers, RemoteEndpoint(w) PROVE NoneForgotten'
    BY <1>8 DEF RemoteEndpoint, Goto, Terminate
  <1>9. ASSUME NEW w \in Workers, Write(w) PROVE NoneForgotten'
    BY <1>9 DEF Write, Initiate, Return, Goto
  <1>10. ASSUME NEW w \in Workers, StopConnection(w) PROVE NoneForgotten'
    BY <1>10 DEF StopConnection, Close, CloseResults, Return, Goto
  <1>11. ASSUME NEW w \in Workers, NEW o \in HandlerOutcomes, Handle(w, o) PROVE NoneForgotten'
    BY <1>11 DEF Handle, Goto, Terminate
  <1>12. ASSUME NEW w \in Workers, CloseAcceptor(w) PROVE NoneForgotten'
    BY <1>12 DEF CloseAcceptor, Goto
  <1>13. ASSUME NEW w \in Workers, StopAll(w) PROVE NoneForgotten'
    BY <1>13 DEF StopAll, Goto
  <1>14. ASSUME NEW w \in Workers, NEW c \in Conns, StopAllNext(w, c) PROVE NoneForgotten'
    BY <1>14 DEF StopAllNext, Close, CloseResults
  <1>15. ASSUME NEW w \in Workers, StopAllEnd(w) PROVE NoneForgotten'
    BY <1>15 DEF StopAllEnd, Goto
  <1>16. ASSUME NEW w \in Workers, PoolStop(w) PROVE NoneForgotten'
    BY <1>16 DEF PoolStop
  <1>17. ASSUME NEW w \in Workers, PoolStopEnd(w) PROVE NoneForgotten'
    BY <1>17 DEF PoolStopEnd, Return, Goto
  <1>18. ASSUME OnAccept PROVE NoneForgotten'
    BY <1>18 DEF OnAccept, CanDispatch, Goto
  <1>19. ASSUME OnSignal PROVE NoneForgotten'
    BY <1>19 DEF OnSignal, CanDispatch, Goto
  <1>20. ASSUME NEW c \in Conns, OnReadFailed(c) PROVE NoneForgotten'
    BY <1>20 DEF OnReadFailed, CanDispatch, Goto
  <1>21. ASSUME NEW c \in Conns, NEW r \in ParseResults, OnReadData(c, r) PROVE NoneForgotten'
    BY <1>21 DEF OnReadData, CanDispatch, Goto
  <1>22. ASSUME NEW c \in Conns, OnWrite(c) PROVE NoneForgotten'
    BY <1>22 DEF OnWrite, CanDispatch, Goto
  <1>23. ASSUME NEW c \in Conns, AcceptCompletes(c) PROVE NoneForgotten'
    BY <1>23 DEF AcceptCompletes
  <1>24. ASSUME AcceptFails PROVE NoneForgotten'
    BY <1>24 DEF AcceptFails
  <1>25. ASSUME NEW c \in Conns, NEW r \in {"ok", "error"}, OpCompletes(c, r) PROVE NoneForgotten'
    BY <1>25 DEF OpCompletes
  <1>26. ASSUME RaiseSignal PROVE NoneForgotten'
    BY <1>26 DEF RaiseSignal
  <1>27. ASSUME NEW w \in Stoppers, Stop(w) PROVE NoneForgotten'
    BY <1>27 DEF Stop, Goto
  <1>28. CASE UNCHANGED vars
    BY <1>28 DEF vars
  <1> QED
    BY <1>1, <1>2, <1>3, <1>4, <1>5, <1>6, <1>7, <1>8, <1>9, <1>10, <1>11, <1>12, <1>13, <1>14,
          <1>15, <1>16, <1>17, <1>18, <1>19, <1>20, <1>21, <1>22, <1>23, <1>24, <1>25,
          <1>26, <1>27, <1>28 DEF Next, Step, Dispatch, OnCompletion, Environment, Finished

\* The invariant of the exchanges holds in every reachable state.
THEOREM ExchangeInvariance == Spec => []ExchangeInv
  <1>1. Init => ExchangeInv
    BY NoneAssumption DEF NoneAssumption, Init, ExchangeInv, AnsweredInv, AbortedInv, EndedInv,
       NoneForgotten
  <1>2. Inductive /\ ExchangeInv /\ [Next]_vars => ExchangeInv'
    BY NextAnswered, NextAborted, NextEnded, NextForgotten DEF ExchangeInv
  <1> QED
    BY <1>1, <1>2, Invariance, PTL DEF Spec

\* No connection is kept in connections_ with nothing left that would end it.
THEOREM ConnectionsAttended == Spec => []NoneForgotten
  <1>1. ExchangeInv => NoneForgotten
    BY DEF ExchangeInv
  <1> QED
    BY <1>1, ExchangeInvariance, PTL

\* No step replaces a response: the handlers that set one run on a connection that has none.
LEMMA ResponseKept == Inductive /\ AnsweredInv /\ [Next]_vars =>
    \A d \in Conns : response[d] # "none" => response'[d] = response[d]
  <1> DEFINE Kept == \A d \in Conns : response[d] # "none" => response'[d] = response[d]
  <1> SUFFICES ASSUME TypeOK, HandlerInv, AnsweredInv, [Next]_vars PROVE Kept
    BY DEF Inductive
  <1> USE ServicesTaken, NoneAssumption, ThreadAssumption DEF NoneAssumption,
          ThreadAssumption, TypeOK, HandlerInv, acceptVars, connVars, mgrVars, poolVars,
          Workers, ConnSteps, StopSteps, AnsweredInv
  <1>1. ASSUME Run PROVE Kept
    BY <1>1 DEF Run, AsyncAccept
  <1>2. ASSUME Spawn PROVE Kept
    BY <1>2 DEF Spawn
  <1>3. ASSUME Join PROVE Kept
    BY <1>3 DEF Join
  <1>4. ASSUME NEW s \in Services, Exit(s) PROVE Kept
    BY <1>4 DEF Exit
  <1>5. ASSUME NEW w \in Workers, Start(w) PROVE Kept
    BY <1>5 DEF Start, Initiate, Goto
  <1>6. ASSUME NEW w \in Workers, StartAccept(w) PROVE Kept
    BY <1>6 DEF StartAccept, AsyncAccept, Return, Goto
  <1>7. ASSUME NEW w \in Workers, Read(w) PROVE Kept
    BY <1>7 DEF Read, Initiate, Return, Goto
  <1>8. ASSUME NEW w \in Workers, RemoteEndpoint(w) PROVE Kept
    BY <1>8 DEF RemoteEndpoint, Goto, Terminate
  <1>9. ASSUME NEW w \in Workers, Write(w) PROVE Kept
    BY <1>9 DEF Write, Initiate, Return, Goto
  <1>10. ASSUME NEW w \in Workers, StopConnection(w) PROVE Kept
    BY <1>10 DEF StopConnection, Close, CloseResults, Return, Goto
  <1>11. ASSUME NEW w \in Workers, NEW o \in HandlerOutcomes, Handle(w, o) PROVE Kept
    BY <1>11 DEF Handle, Goto, Terminate
  <1>12. ASSUME NEW w \in Workers, CloseAcceptor(w) PROVE Kept
    BY <1>12 DEF CloseAcceptor, Goto
  <1>13. ASSUME NEW w \in Workers, StopAll(w) PROVE Kept
    BY <1>13 DEF StopAll, Goto
  <1>14. ASSUME NEW w \in Workers, NEW c \in Conns, StopAllNext(w, c) PROVE Kept
    BY <1>14 DEF StopAllNext, Close, CloseResults
  <1>15. ASSUME NEW w \in Workers, StopAllEnd(w) PROVE Kept
    BY <1>15 DEF StopAllEnd, Goto
  <1>16. ASSUME NEW w \in Workers, PoolStop(w) PROVE Kept
    BY <1>16 DEF PoolStop
  <1>17. ASSUME NEW w \in Workers, PoolStopEnd(w) PROVE Kept
    BY <1>17 DEF PoolStopEnd, Return, Goto
  <1>18. ASSUME OnAccept PROVE Kept
    BY <1>18 DEF OnAccept, CanDispatch, Goto
  <1>19. ASSUME OnSignal PROVE Kept
    BY <1>19 DEF OnSignal, CanDispatch, Goto
  <1>20. ASSUME NEW c \in Conns, OnReadFailed(c) PROVE Kept
    BY <1>20 DEF OnReadFailed, CanDispatch, Goto
  <1>21. ASSUME NEW c \in Conns, NEW r \in ParseResults, OnReadData(c, r) PROVE Kept
    BY <1>21 DEF OnReadData, CanDispatch, Goto
  <1>22. ASSUME NEW c \in Conns, OnWrite(c) PROVE Kept
    BY <1>22 DEF OnWrite, CanDispatch, Goto
  <1>23. ASSUME NEW c \in Conns, AcceptCompletes(c) PROVE Kept
    BY <1>23 DEF AcceptCompletes
  <1>24. ASSUME AcceptFails PROVE Kept
    BY <1>24 DEF AcceptFails
  <1>25. ASSUME NEW c \in Conns, NEW r \in {"ok", "error"}, OpCompletes(c, r) PROVE Kept
    BY <1>25 DEF OpCompletes
  <1>26. ASSUME RaiseSignal PROVE Kept
    BY <1>26 DEF RaiseSignal
  <1>27. ASSUME NEW w \in Stoppers, Stop(w) PROVE Kept
    BY <1>27 DEF Stop, Goto
  <1>28. CASE UNCHANGED vars
    BY <1>28 DEF vars
  <1> QED
    BY <1>1, <1>2, <1>3, <1>4, <1>5, <1>6, <1>7, <1>8, <1>9, <1>10, <1>11, <1>12, <1>13, <1>14,
          <1>15, <1>16, <1>17, <1>18, <1>19, <1>20, <1>21, <1>22, <1>23, <1>24, <1>25,
          <1>26, <1>27, <1>28 DEF Next, Step, Dispatch, OnCompletion, Environment, Finished

\* One exchange per connection: a response is not replaced, and after it nothing is read and
\* the handler is not called.
THEOREM OneExchangePerConnection == Spec => OneExchange
  <1>1. ASSUME Inductive, ExchangeInv, ExchangeInv', [Next]_vars
        PROVE  \A c \in Conns : response[c] # "none" =>
                  /\ response'[c] = response[c]
                  /\ op'[c] = "read" => op[c] = "read"
                  /\ \A w \in Workers : cur'[w] = c => pc'[w] \notin {"read", "handle"}
    <2>1. SUFFICES ASSUME NEW c \in Conns, response[c] # "none"
                   PROVE  /\ response'[c] = response[c]
                          /\ op'[c] = "read" => op[c] = "read"
                          /\ \A w \in Workers : cur'[w] = c => pc'[w] \notin {"read", "handle"}
      OBVIOUS
    <2>2. response'[c] = response[c]
      BY <1>1, <2>1, ResponseKept DEF ExchangeInv
    <2> QED
      BY <1>1, <2>1, <2>2 DEF ExchangeInv, AnsweredInv
  <1> QED
    BY <1>1, Invariance, ExchangeInvariance, PTL DEF Spec, OneExchange

\* The process ends only in one of three calls of the read handler: decode_message(),
\* remote_endpoint() on a socket that is not connected any more, and handle() with an
\* exception that is not caught.
THEOREM CrashInReadHandler == Spec => []CrashCauses
  <1>1. Init => CrashCauses
    BY DEF Init, CrashCauses
  <1>2. ASSUME Inductive, ExchangeInv, CrashCauses, [Next]_vars PROVE CrashCauses'
    <2> DEFINE Reset == PeerMayReset \/ (acceptor' = "closed" /\ sock'[cur'[ConnSvc]] = "closed")
               Causes == \/ pc'[ConnSvc] = "decode_message"
                         \/ pc'[ConnSvc] = "remote_endpoint" /\ Reset
                         \/ pc'[ConnSvc] = "handle" /\ "other_exception" \in HandlerOutcomes
    <2>1. SUFFICES ASSUME process' = "crashed", process # "crashed" PROVE Causes
      <3>1. ASSUME process = "crashed" PROVE UNCHANGED vars
        BY <1>2, <3>1 DEF Next, Finished
      <3> QED
        BY <1>2, <3>1 DEF CrashCauses, vars
    <2>2. \/ \E w \in Workers : RemoteEndpoint(w) \/ \E o \in HandlerOutcomes : Handle(w, o)
          \/ \E c \in Conns, r \in ParseResults : OnReadData(c, r)
      BY <1>2, <2>1 DEF Next, Step, Dispatch, Environment, OnCompletion, Finished, vars,
          Run, Spawn, Join, Exit, Start, StartAccept, Read, Write, StopConnection, CloseAcceptor,
          StopAll, StopAllNext, StopAllEnd, PoolStop, PoolStopEnd, OnAccept, OnSignal,
          OnReadFailed, OnWrite, AcceptCompletes, AcceptFails, OpCompletes, RaiseSignal, Stop
    <2>3. \A w \in Workers : pc[w] \in ConnSteps => w = ConnSvc /\ cur[w] \in Conns
      BY <1>2 DEF Inductive, TypeOK, HandlerInv
    <2>4. CASE \E c \in Conns, r \in ParseResults : OnReadData(c, r)
      BY <1>2, <2>1, <2>4, ServicesTaken DEF OnReadData, Goto, Inductive, TypeOK, Workers
    <2>5. CASE \E w \in Workers, o \in HandlerOutcomes : Handle(w, o)
      <3>1. PICK w \in Workers, o \in HandlerOutcomes : Handle(w, o)
        BY <2>5
      <3>2. pc[w] = "handle" /\ o = "other_exception" /\ Terminate
        BY <2>1, <3>1 DEF Handle
      <3> QED
        BY <2>3, <3>2 DEF ConnSteps, Terminate
    <2>6. CASE \E w \in Workers : RemoteEndpoint(w)
      <3>1. PICK w \in Workers : RemoteEndpoint(w)
        BY <2>6
      <3>2. pc[w] = "remote_endpoint" /\ (sock[cur[w]] # "open" \/ PeerMayReset) /\ Terminate
        BY <2>1, <3>1 DEF RemoteEndpoint
      <3>3. w = ConnSvc /\ cur[w] \in Conns /\ sock[cur[w]] \in {"unused", "open", "shut", "closed"}
        BY <1>2, <2>3, <3>2 DEF ConnSteps, Inductive, TypeOK
      <3>4. sock[cur[w]] \notin {"unused", "shut"}
        BY <1>2, <3>2, <3>3 DEF Inductive, HandlerInv, ExchangeInv, EndedInv
      <3>5. sock[cur[w]] = "closed" => acceptor = "closed"
        BY <1>2, <3>2, <3>3 DEF Inductive, TypeOK, ExchangeInv, EndedInv
      <3> QED
        BY <3>2, <3>3, <3>4, <3>5 DEF Terminate, acceptVars, connVars
    <2> QED
      BY <2>2, <2>4, <2>5, <2>6
  <1> QED
    BY <1>1, <1>2, Invariance, ExchangeInvariance, PTL DEF Spec
=============================================================================
