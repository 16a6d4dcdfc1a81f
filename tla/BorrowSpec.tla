---------------------------- MODULE BorrowSpec ----------------------------
(***************************************************************************)
(* What a pool of connections promises: connections are opened, each free  *)
(* one may be lent to one borrower, who gives it back, and when all are    *)
(* free the pool may close them for good.                                  *)
(***************************************************************************)
CONSTANTS Threads, Connections, NoConn

VARIABLES free, loan

Init == free = {} /\ loan = [t \in Threads |-> NoConn]

\* A connection that is neither free nor lent is opened.
Open(c) ==
    /\ c \notin free /\ \A t \in Threads : loan[t] # c
    /\ free' = free \cup {c} /\ UNCHANGED loan

Borrow(t, c) ==
    /\ loan[t] = NoConn /\ c \in free
    /\ loan' = [loan EXCEPT ![t] = c] /\ free' = free \ {c}

GiveBack(t) ==
    /\ loan[t] # NoConn
    /\ free' = free \cup {loan[t]} /\ loan' = [loan EXCEPT ![t] = NoConn]

Close ==
    /\ \A t \in Threads : loan[t] = NoConn
    /\ free' = {} /\ UNCHANGED loan

Next ==
    \/ Close
    \/ \E c \in Connections : Open(c)
    \/ \E t \in Threads : GiveBack(t) \/ \E c \in Connections : Borrow(t, c)

Spec == Init /\ [][Next]_<<free, loan>>
=============================================================================
