-------------------------- MODULE ConnectionPool --------------------------
(***************************************************************************)
(* The application's pool of database connections (app/connection_pool.hpp)*)
(* : a queue under a mutex, a condition variable for borrowers that find   *)
(* it empty, and a smart pointer whose deleter gives the connection back.  *)
(* Everything between locking mutex_ and leaving the scope of the lock is  *)
(* done in the actions Wait, Take, Push and Notify.                        *)
(***************************************************************************)
EXTENDS Naturals, Sequences, FiniteSets

CONSTANTS
    Threads,      \* threads that call acquireConnection()
    Connections,  \* what the constructor opens; max_size_ is their number
    NoConn,       \* a null ConnectionPtr
    NoThread,     \* mutex_ is not locked
    MaxBorrows,   \* bound: calls per thread
    MaxSpurious   \* bound: spurious wakeups

ASSUME PoolAssumption ==
    /\ IsFiniteSet(Threads) /\ NoThread \notin Threads
    /\ NoConn \notin Connections
    /\ MaxBorrows \in Nat /\ MaxSpurious \in Nat

VARIABLES
    life,     \* "building", "failed", "up" or "gone"
    pool_,    \* the queue of idle connections
    opened,   \* connections the constructor has opened
    closed,   \* connections that were deleted
    mutex_,   \* the thread that has the mutex
    pc,       \* where each thread is
    loan,     \* the ConnectionPtr each thread holds
    calls,    \* acquireConnection() calls each thread has made
    spurious  \* spurious wakeups so far

vars == <<life, pool_, opened, closed, mutex_, pc, loan, calls, spurious>>

Init ==
    /\ life = "building" /\ pool_ = <<>> /\ opened = {} /\ closed = {}
    /\ mutex_ = NoThread
    /\ pc = [t \in Threads |-> "idle"]
    /\ loan = [t \in Threads |-> NoConn]
    /\ calls = [t \in Threads |-> 0] /\ spurious = 0

\* The elements of a queue.
Elems(q) == {q[i] : i \in 1 .. Len(q)}

Goto(t, l) == pc' = [pc EXCEPT ![t] = l]

\* The constructor opens one connection after the other ...
Construct ==
    /\ life = "building"
    /\ \/ \E c \in Connections \ opened :
            /\ opened' = opened \cup {c} /\ pool_' = Append(pool_, c)
            /\ UNCHANGED life
       \/ opened = Connections /\ life' = "up" /\ UNCHANGED <<opened, pool_>>
    /\ UNCHANGED <<closed, mutex_, pc, loan, calls, spurious>>

\* ... and rethrows when one cannot be opened.
ConstructFails ==
    /\ life = "building" /\ opened # Connections
    /\ life' = "failed"
    /\ UNCHANGED <<pool_, opened, closed, mutex_, pc, loan, calls, spurious>>

\* A handler calls acquireConnection().
Call(t) ==
    /\ life = "up" /\ pc[t] = "idle" /\ calls[t] < MaxBorrows
    /\ calls' = [calls EXCEPT ![t] = @ + 1]
    /\ Goto(t, "enter")
    /\ UNCHANGED <<life, pool_, opened, closed, mutex_, loan, spurious>>

\* The ConnectionPtr goes out of scope: the deleter calls releaseConnection().
Drop(t) ==
    /\ pc[t] = "using"
    /\ Goto(t, "return")
    /\ UNCHANGED <<life, pool_, opened, closed, mutex_, loan, calls, spurious>>

\* unique_lock, lock_guard, and the lock wait() takes again before it returns.
Lock(t) ==
    /\ mutex_ = NoThread /\ pc[t] \in {"enter", "woken", "return"}
    /\ mutex_' = t
    /\ Goto(t, IF pc[t] = "return" THEN "push" ELSE "test")
    /\ UNCHANGED <<life, pool_, opened, closed, loan, calls, spurious>>

\* The predicate is false: unlock and sleep, in one step.
Wait(t) ==
    /\ pc[t] = "test" /\ pool_ = <<>>
    /\ mutex_' = NoThread
    /\ Goto(t, "asleep")
    /\ UNCHANGED <<life, pool_, opened, closed, loan, calls, spurious>>

\* A bug: the connection is read from the queue and left there.
TakeLeaves(t) ==
    /\ pc[t] = "test" /\ pool_ # <<>>
    /\ loan' = [loan EXCEPT ![t] = Head(pool_)]
    /\ mutex_' = NoThread
    /\ Goto(t, "using")
    /\ UNCHANGED <<life, pool_, opened, closed, calls, spurious>>

\* The predicate is true: pop a connection and return it.
Take(t) ==
    /\ pc[t] = "test" /\ pool_ # <<>>
    /\ loan' = [loan EXCEPT ![t] = Head(pool_)]
    /\ pool_' = Tail(pool_)
    /\ mutex_' = NoThread
    /\ Goto(t, "using")
    /\ UNCHANGED <<life, opened, closed, calls, spurious>>

\* A bug: the pointer is reset before it is pushed.
PushNull(t) ==
    /\ pc[t] = "push"
    /\ pool_' = Append(pool_, NoConn)
    /\ loan' = [loan EXCEPT ![t] = NoConn]
    /\ Goto(t, "notify")
    /\ UNCHANGED <<life, opened, closed, mutex_, calls, spurious>>

\* releaseConnection: push ...
Push(t) ==
    /\ pc[t] = "push"
    /\ pool_' = Append(pool_, loan[t])
    /\ loan' = [loan EXCEPT ![t] = NoConn]
    /\ Goto(t, "notify")
    /\ UNCHANGED <<life, opened, closed, mutex_, calls, spurious>>

Asleep == {t \in Threads : pc[t] = "asleep"}

\* A bug: nobody is notified.
NotifyNobody(t) ==
    /\ pc[t] = "notify"
    /\ Goto(t, "idle")
    /\ mutex_' = NoThread
    /\ UNCHANGED <<life, pool_, opened, closed, loan, calls, spurious>>

\* ... then wake one sleeper, if there is one, and unlock.
Notify(t) ==
    /\ pc[t] = "notify"
    /\ \/ Asleep = {} /\ Goto(t, "idle")
       \/ \E w \in Asleep : pc' = [pc EXCEPT ![w] = "woken", ![t] = "idle"]
    /\ mutex_' = NoThread
    /\ UNCHANGED <<life, pool_, opened, closed, loan, calls, spurious>>

\* A condition variable may wake up for no reason.
SpuriousWake(t) ==
    /\ pc[t] = "asleep" /\ spurious < MaxSpurious
    /\ spurious' = spurious + 1
    /\ Goto(t, "woken")
    /\ UNCHANGED <<life, pool_, opened, closed, mutex_, loan, calls>>

\* The destructor, in main() after the server has stopped: no handler runs.
Destroy ==
    /\ life = "up" /\ \A t \in Threads : pc[t] = "idle"
    /\ life' = "gone"
    /\ closed' = closed \cup Elems(pool_)
    /\ pool_' = <<>>
    /\ UNCHANGED <<opened, mutex_, pc, loan, calls, spurious>>

\* What a thread that is inside the pool, or holds a connection, does next.
Step(t) == Drop(t) \/ Lock(t) \/ Wait(t) \/ Take(t) \/ Push(t) \/ Notify(t)

Next ==
    \/ Construct \/ ConstructFails \/ Destroy
    \/ \E t \in Threads : Call(t) \/ Step(t) \/ SpuriousWake(t)

Spec == Init /\ [][Next]_vars

\* Threads run, and a handler that has a connection finishes with it.
FairSpec == Spec /\ \A t \in Threads : WF_vars(Step(t))

-----------------------------------------------------------------------------
(* Properties.                                                             *)

\* The connections nobody has, and those somebody has.
Idle == Elems(pool_)
Lent == {c \in Connections : \E t \in Threads : loan[t] = c}

\* Every variable has its type.
TypeOK ==
    /\ life \in {"building", "failed", "up", "gone"}
    /\ pool_ \in Seq(Connections)
    /\ opened \in SUBSET Connections /\ closed \in SUBSET Connections
    /\ mutex_ \in Threads \cup {NoThread}
    /\ pc \in [Threads -> {"idle", "enter", "test", "asleep", "woken", "using",
                           "return", "push", "notify"}]
    /\ loan \in [Threads -> Connections \cup {NoConn}]
    /\ calls \in [Threads -> Nat] /\ spurious \in Nat

\* Every connection that was opened is in the queue once, or with one borrower,
\* or deleted, and nothing else is in the queue or with a borrower: no connection
\* is lent twice, returned twice, used after its deletion, or lost.
Conserved ==
    /\ \A i, j \in 1 .. Len(pool_) : pool_[i] = pool_[j] => i = j
    /\ \A t, u \in Threads : loan[t] # NoConn /\ loan[t] = loan[u] => t = u
    /\ \A t \in Threads : loan[t] \notin Idle \cup closed
    /\ Idle \cap closed = {}
    /\ opened = Idle \cup closed \cup Lent

\* Once the pool is destroyed every connection it opened has been deleted.
DestroyedClean == life = "gone" => closed = Connections

\* Threads that will look into the queue, or are about to wake one that does.
Coming == {t \in Threads : pc[t] \in {"woken", "test", "notify"}}

\* No wakeup is lost: while a borrower sleeps there is, for every idle
\* connection, a thread on its way to the queue, although notify_one() may have
\* woken nobody, or a borrower whose connection a newcomer then took.
NoLostWakeup == Asleep # {} => Len(pool_) <= Cardinality(Coming)

\* The inductive invariant: the mutex is held by the thread in a critical
\* section, a ConnectionPtr is set exactly while a thread has a connection, and
\* threads are about only while the pool is up.
MutexInv == \A t \in Threads : pc[t] \in {"test", "push", "notify"} <=> mutex_ = t
LoanInv  == \A t \in Threads : pc[t] \in {"using", "return", "push"} <=> loan[t] # NoConn
LifeInv ==
    /\ life # "up" => \A t \in Threads : pc[t] = "idle"
    /\ life # "gone" => closed = {}
    /\ life \in {"up", "gone"} => opened = Connections
    /\ life = "gone" => pool_ = <<>>
Inductive == TypeOK /\ MutexInv /\ LoanInv /\ LifeInv /\ Conserved /\ NoLostWakeup

\* The pool lends connections as BorrowSpec says, whatever the interleaving.
Borrowing == INSTANCE BorrowSpec WITH free <- Idle
Lends == Borrowing!Spec

\* With at least one connection, every call is eventually given one: no borrower
\* is left asleep when the connections have come back.
EveryoneServed ==
    \A t \in Threads : pc[t] = "enter" ~> pc[t] = "using"
=============================================================================
