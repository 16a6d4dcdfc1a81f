----------------------- MODULE ConnectionPoolProofs -----------------------
(***************************************************************************)
(* Proofs about ConnectionPool, for any finite set of threads, any set of  *)
(* connections and any bounds.                                             *)
(***************************************************************************)
EXTENDS ConnectionPool, FiniteSetTheorems, TLAPS

\* What pushing onto a queue does to its elements.
LEMMA AppendElems ==
    ASSUME NEW S, NEW q \in Seq(S), NEW e \in S
    PROVE  /\ Append(q, e) \in Seq(S)
           /\ Len(Append(q, e)) = Len(q) + 1
           /\ Elems(Append(q, e)) = Elems(q) \cup {e}
           /\ e \notin Elems(q) /\ (\A i, j \in 1 .. Len(q) : q[i] = q[j] => i = j)
              => \A i, j \in 1 .. Len(Append(q, e)) :
                    Append(q, e)[i] = Append(q, e)[j] => i = j
<1> DEFINE r == Append(q, e)
<1>1. /\ r \in Seq(S) /\ Len(r) = Len(q) + 1 /\ Len(q) \in Nat
      /\ \A i \in 1 .. Len(q) : r[i] = q[i]
      /\ r[Len(q) + 1] = e
  OBVIOUS
<1>2. Elems(r) = Elems(q) \cup {e}
  BY <1>1 DEF Elems
<1>3. ASSUME e \notin Elems(q), \A i, j \in 1 .. Len(q) : q[i] = q[j] => i = j,
             NEW i \in 1 .. Len(r), NEW j \in 1 .. Len(r), r[i] = r[j]
      PROVE  i = j
  BY <1>1, <1>3 DEF Elems
<1> QED
  BY <1>1, <1>2, <1>3

\* What popping from a queue without duplicates does to its elements.
LEMMA TailElems ==
    ASSUME NEW S, NEW q \in Seq(S), q # <<>>,
           \A i, j \in 1 .. Len(q) : q[i] = q[j] => i = j
    PROVE  /\ Tail(q) \in Seq(S) /\ Head(q) \in S
           /\ Len(Tail(q)) = Len(q) - 1
           /\ Head(q) \in Elems(q)
           /\ Elems(Tail(q)) = Elems(q) \ {Head(q)}
           /\ \A i, j \in 1 .. Len(Tail(q)) : Tail(q)[i] = Tail(q)[j] => i = j
<1> DEFINE r == Tail(q)
<1>1. /\ r \in Seq(S) /\ Head(q) \in S /\ Head(q) = q[1]
      /\ Len(q) \in Nat \ {0} /\ Len(r) = Len(q) - 1
      /\ \A i \in 1 .. Len(r) : r[i] = q[i + 1]
  OBVIOUS
<1>2. ASSUME NEW x \in Elems(r) PROVE x \in Elems(q) \ {Head(q)}
  <2>1. PICK i \in 1 .. Len(r) : x = r[i]
    BY DEF Elems
  <2>2. i + 1 \in 1 .. Len(q) /\ 1 \in 1 .. Len(q) /\ i + 1 # 1
    BY <1>1
  <2> QED
    BY <1>1, <2>1, <2>2 DEF Elems
<1>3. ASSUME NEW x \in Elems(q) \ {Head(q)} PROVE x \in Elems(r)
  <2>1. PICK i \in 1 .. Len(q) : x = q[i]
    BY DEF Elems
  <2>2. i - 1 \in 1 .. Len(r) /\ r[i - 1] = q[i]
    BY <1>1, <2>1
  <2> QED
    BY <2>1, <2>2 DEF Elems
<1>4. ASSUME NEW i \in 1 .. Len(r), NEW j \in 1 .. Len(r), r[i] = r[j] PROVE i = j
  <2>1. i + 1 \in 1 .. Len(q) /\ j + 1 \in 1 .. Len(q) /\ q[i + 1] = q[j + 1]
    BY <1>1, <1>4
  <2>2. i + 1 = j + 1
    BY <2>1
  <2> QED
    BY <2>2
<1>5. Head(q) \in Elems(q)
  BY <1>1 DEF Elems
<1> QED
  BY <1>1, <1>2, <1>3, <1>4, <1>5

LEMMA InitInductive == Init => Inductive
<1> SUFFICES ASSUME Init PROVE Inductive
  OBVIOUS
<1>1. TypeOK
  BY PoolAssumption DEF Init, TypeOK, PoolAssumption
<1>2. MutexInv /\ LoanInv /\ LifeInv
  BY PoolAssumption DEF Init, MutexInv, LoanInv, LifeInv, PoolAssumption
<1>3. Conserved
  BY PoolAssumption DEF Init, Conserved, Idle, Elems, Lent, PoolAssumption
<1>4. NoLostWakeup
  BY DEF Init, NoLostWakeup, Asleep
<1> QED
  BY <1>1, <1>2, <1>3, <1>4 DEF Inductive

\* Types are preserved.
LEMMA NextType == Inductive /\ [Next]_vars => TypeOK'
<1> SUFFICES ASSUME Inductive, [Next]_vars PROVE TypeOK'
  OBVIOUS
<1> USE PoolAssumption DEF PoolAssumption, Inductive, TypeOK
<1>1. CASE Construct
  <2>1. ASSUME NEW c \in Connections PROVE Append(pool_, c) \in Seq(Connections)
    OBVIOUS
  <2> QED
    BY <1>1, <2>1 DEF Construct
<1>2. CASE ConstructFails
  BY <1>2 DEF ConstructFails
<1>3. CASE Destroy
  BY <1>3 DEF Destroy, Elems
<1>4. ASSUME NEW t \in Threads, Call(t) PROVE TypeOK'
  BY <1>4 DEF Call, Goto
<1>5. ASSUME NEW t \in Threads, Drop(t) PROVE TypeOK'
  BY <1>5 DEF Drop, Goto
<1>6. ASSUME NEW t \in Threads, Lock(t) PROVE TypeOK'
  BY <1>6 DEF Lock, Goto
<1>7. ASSUME NEW t \in Threads, Wait(t) PROVE TypeOK'
  BY <1>7 DEF Wait, Goto
<1>8. ASSUME NEW t \in Threads, Take(t) PROVE TypeOK'
  <2>1. Tail(pool_) \in Seq(Connections) /\ Head(pool_) \in Connections
    BY <1>8, TailElems DEF Take, Conserved
  <2> QED
    BY <1>8, <2>1 DEF Take, Goto
<1>9. ASSUME NEW t \in Threads, Push(t) PROVE TypeOK'
  <2>1. loan[t] \in Connections
    BY <1>9 DEF Push, LoanInv
  <2> QED
    BY <1>9, <2>1, AppendElems DEF Push, Goto
<1>10. ASSUME NEW t \in Threads, Notify(t) PROVE TypeOK'
  BY <1>10 DEF Notify, Goto, Asleep
<1>11. ASSUME NEW t \in Threads, SpuriousWake(t) PROVE TypeOK'
  BY <1>11 DEF SpuriousWake, Goto
<1>12. CASE UNCHANGED vars
  BY <1>12 DEF vars
<1> QED
  BY <1>1, <1>2, <1>3, <1>4, <1>5, <1>6, <1>7, <1>8, <1>9, <1>10, <1>11, <1>12
  DEF Next, Step

\* A thread is in a critical section exactly when it has the mutex.
LEMMA NextMutex == Inductive /\ [Next]_vars => MutexInv'
<1> SUFFICES ASSUME Inductive, [Next]_vars PROVE MutexInv'
  OBVIOUS
<1> USE PoolAssumption DEF PoolAssumption, Inductive, TypeOK, MutexInv
<1>1. CASE Construct
  BY <1>1 DEF Construct
<1>2. CASE ConstructFails
  BY <1>2 DEF ConstructFails
<1>3. CASE Destroy
  BY <1>3 DEF Destroy
<1>4. ASSUME NEW t \in Threads, Call(t) PROVE MutexInv'
  BY <1>4 DEF Call, Goto
<1>5. ASSUME NEW t \in Threads, Drop(t) PROVE MutexInv'
  BY <1>5 DEF Drop, Goto
<1>6. ASSUME NEW t \in Threads, Lock(t) PROVE MutexInv'
  BY <1>6 DEF Lock, Goto
<1>7. ASSUME NEW t \in Threads, Wait(t) PROVE MutexInv'
  BY <1>7 DEF Wait, Goto
<1>8. ASSUME NEW t \in Threads, Take(t) PROVE MutexInv'
  BY <1>8 DEF Take, Goto
<1>9. ASSUME NEW t \in Threads, Push(t) PROVE MutexInv'
  BY <1>9 DEF Push, Goto
<1>10. ASSUME NEW t \in Threads, Notify(t) PROVE MutexInv'
  BY <1>10 DEF Notify, Goto, Asleep
<1>11. ASSUME NEW t \in Threads, SpuriousWake(t) PROVE MutexInv'
  BY <1>11 DEF SpuriousWake, Goto
<1>12. CASE UNCHANGED vars
  BY <1>12 DEF vars
<1> QED
  BY <1>1, <1>2, <1>3, <1>4, <1>5, <1>6, <1>7, <1>8, <1>9, <1>10, <1>11, <1>12
  DEF Next, Step

\* A ConnectionPtr is set exactly between Take and Push.
LEMMA NextLoan == Inductive /\ [Next]_vars => LoanInv'
<1> SUFFICES ASSUME Inductive, [Next]_vars PROVE LoanInv'
  OBVIOUS
<1> USE PoolAssumption DEF PoolAssumption, Inductive, TypeOK, LoanInv
<1>1. CASE Construct
  BY <1>1 DEF Construct
<1>2. CASE ConstructFails
  BY <1>2 DEF ConstructFails
<1>3. CASE Destroy
  BY <1>3 DEF Destroy
<1>4. ASSUME NEW t \in Threads, Call(t) PROVE LoanInv'
  BY <1>4 DEF Call, Goto
<1>5. ASSUME NEW t \in Threads, Drop(t) PROVE LoanInv'
  BY <1>5 DEF Drop, Goto
<1>6. ASSUME NEW t \in Threads, Lock(t) PROVE LoanInv'
  BY <1>6 DEF Lock, Goto
<1>7. ASSUME NEW t \in Threads, Wait(t) PROVE LoanInv'
  BY <1>7 DEF Wait, Goto
<1>8. ASSUME NEW t \in Threads, Take(t) PROVE LoanInv'
  <2>1. Head(pool_) \in Connections
    BY <1>8 DEF Take
  <2> QED
    BY <1>8, <2>1 DEF Take, Goto
<1>9. ASSUME NEW t \in Threads, Push(t) PROVE LoanInv'
  BY <1>9 DEF Push, Goto
<1>10. ASSUME NEW t \in Threads, Notify(t) PROVE LoanInv'
  BY <1>10 DEF Notify, Goto, Asleep
<1>11. ASSUME NEW t \in Threads, SpuriousWake(t) PROVE LoanInv'
  BY <1>11 DEF SpuriousWake, Goto
<1>12. CASE UNCHANGED vars
  BY <1>12 DEF vars
<1> QED
  BY <1>1, <1>2, <1>3, <1>4, <1>5, <1>6, <1>7, <1>8, <1>9, <1>10, <1>11, <1>12
  DEF Next, Step

\* Threads are about only while the pool is up.
LEMMA NextLife == Inductive /\ [Next]_vars => LifeInv'
<1> SUFFICES ASSUME Inductive, [Next]_vars PROVE LifeInv'
  OBVIOUS
<1> USE DEF Inductive, TypeOK, LifeInv
<1>1. CASE Construct
  BY <1>1 DEF Construct
<1>2. CASE ConstructFails
  BY <1>2 DEF ConstructFails
<1>3. CASE Destroy
  BY <1>3 DEF Destroy
<1>4. ASSUME NEW t \in Threads, Call(t) \/ Step(t) \/ SpuriousWake(t) PROVE LifeInv'
  <2>1. life = "up" /\ life' = life /\ opened' = opened /\ closed' = closed
    BY <1>4 DEF Call, Step, SpuriousWake, Drop, Lock, Wait, Take, Push, Notify
  <2> QED
    BY <2>1
<1>5. CASE UNCHANGED vars
  BY <1>5 DEF vars
<1> QED
  BY <1>1, <1>2, <1>3, <1>4, <1>5 DEF Next

\* A step that moves no connection keeps them where they are.
LEMMA ConservedStays ==
    Conserved /\ UNCHANGED <<pool_, opened, closed, loan>> => Conserved'
BY DEF Conserved, Idle, Elems, Lent

\* Every connection is in one place.
LEMMA NextConserved == Inductive /\ [Next]_vars => Conserved'
<1> SUFFICES ASSUME Inductive, [Next]_vars PROVE Conserved'
  OBVIOUS
<1> USE PoolAssumption DEF PoolAssumption, Inductive, TypeOK
<1>1. CASE Construct
  <2>1. ASSUME NEW c \in Connections \ opened, opened' = opened \cup {c},
               pool_' = Append(pool_, c), UNCHANGED <<closed, loan>>
        PROVE  Conserved'
    <3>1. c \notin Idle
      BY <2>1 DEF Conserved
    <3>2. Idle' = Idle \cup {c} /\ Lent' = Lent
      BY <2>1, AppendElems DEF Idle, Lent
    <3>3. \A i, j \in 1 .. Len(pool_') : pool_'[i] = pool_'[j] => i = j
      BY <2>1, <3>1, AppendElems DEF Conserved, Idle
    <3>4. \A t \in Threads : loan[t] # c
      BY <2>1 DEF Conserved, Lent
    <3>5. c \notin closed
      BY <2>1 DEF Conserved
    <3> QED
      BY <2>1, <3>2, <3>3, <3>4, <3>5 DEF Conserved
  <2>2. CASE UNCHANGED <<opened, pool_>>
    BY <1>1, <2>2, ConservedStays DEF Construct
  <2> QED
    BY <1>1, <2>1, <2>2 DEF Construct
<1>2. CASE ConstructFails
  BY <1>2, ConservedStays DEF ConstructFails
<1>3. CASE Destroy
  <2>1. closed' = closed \cup Idle /\ Idle' = {} /\ Lent' = Lent
    BY <1>3 DEF Destroy, Idle, Elems, Lent
  <2>2. \A t \in Threads : loan[t] \notin Idle \cup closed
    BY DEF Conserved
  <2> QED
    BY <1>3, <2>1, <2>2 DEF Conserved, Destroy
<1>4. ASSUME NEW t \in Threads, Take(t) PROVE Conserved'
  <2> DEFINE c == Head(pool_)
  <2>1. /\ c \in Connections /\ c \in Idle /\ Idle' = Idle \ {c}
        /\ \A i, j \in 1 .. Len(pool_') : pool_'[i] = pool_'[j] => i = j
    BY <1>4, TailElems DEF Take, Conserved, Idle
  <2>2. \A u \in Threads : loan'[u] = IF u = t THEN c ELSE loan[u]
    BY <1>4 DEF Take
  <2>3. loan[t] = NoConn
    BY <1>4 DEF Take, LoanInv
  <2>4. Lent' = Lent \cup {c}
    BY <2>1, <2>2, <2>3 DEF Lent
  <2>5. c \notin closed /\ \A u \in Threads : loan[u] # c
    BY <2>1 DEF Conserved
  <2>6. closed' = closed /\ opened' = opened
    BY <1>4 DEF Take
  <2> HIDE DEF c
  <2> QED
    BY <2>1, <2>2, <2>4, <2>5, <2>6 DEF Conserved
<1>5. ASSUME NEW t \in Threads, Push(t) PROVE Conserved'
  <2> DEFINE c == loan[t]
  <2>1. c \in Connections
    BY <1>5 DEF Push, LoanInv
  <2>2. c \notin Idle /\ c \notin closed
    BY DEF Conserved
  <2>3. /\ Idle' = Idle \cup {c}
        /\ \A i, j \in 1 .. Len(pool_') : pool_'[i] = pool_'[j] => i = j
    BY <1>5, <2>1, <2>2, AppendElems DEF Push, Idle, Conserved
  <2>4. \A u \in Threads : loan'[u] = IF u = t THEN NoConn ELSE loan[u]
    BY <1>5 DEF Push
  <2>5. \A u \in Threads : u # t => loan[u] # c
    BY <2>1 DEF Conserved
  <2>6. Lent' = Lent \ {c}
    <3>1. \A d \in Connections : (\E u \in Threads : loan'[u] = d)
                                   <=> d # c /\ \E u \in Threads : loan[u] = d
      BY <2>1, <2>4, <2>5
    <3> QED
      BY <3>1 DEF Lent
  <2>7. closed' = closed /\ opened' = opened /\ c \in Lent
    BY <1>5, <2>1 DEF Push, Lent
  <2>8. NoConn \notin Idle' \cup closed
    <3>1. Idle \subseteq Connections
      BY DEF Idle, Elems
    <3> QED
      BY <2>1, <2>3, <3>1
  <2> QED
    BY <2>1, <2>2, <2>3, <2>4, <2>5, <2>6, <2>7, <2>8 DEF Conserved
<1>6. ASSUME NEW t \in Threads, Call(t) \/ Drop(t) \/ Lock(t) \/ Wait(t) \/ Notify(t)
                                \/ SpuriousWake(t)
      PROVE  Conserved'
  BY <1>6, ConservedStays DEF Call, Drop, Lock, Wait, Notify, SpuriousWake
<1>7. CASE UNCHANGED vars
  BY <1>7, ConservedStays DEF vars
<1> QED
  BY <1>1, <1>2, <1>3, <1>4, <1>5, <1>6, <1>7 DEF Next, Step

\* For every idle connection somebody is on the way while a borrower sleeps.
LEMMA NextWakeup == Inductive /\ [Next]_vars => NoLostWakeup'
<1> SUFFICES ASSUME Inductive, [Next]_vars, Asleep' # {}
             PROVE  Len(pool_') <= Cardinality(Coming')
  BY DEF NoLostWakeup
<1> USE PoolAssumption DEF PoolAssumption, Inductive, TypeOK
<1>1. TypeOK'
  BY NextType
<1>2. /\ IsFiniteSet(Coming) /\ Cardinality(Coming) \in Nat
      /\ IsFiniteSet(Coming') /\ Cardinality(Coming') \in Nat
      /\ Len(pool_) \in Nat
  <2>1. Coming \subseteq Threads /\ Coming' \subseteq Threads
    BY DEF Coming
  <2> QED
    BY <2>1, FS_Subset, FS_CardinalityType
<1>3. ASSUME Coming \subseteq Coming', Asleep # {}, pool_' = pool_
      PROVE  Len(pool_') <= Cardinality(Coming')
  <2>1. Cardinality(Coming) <= Cardinality(Coming')
    BY <1>2, <1>3, FS_Subset
  <2>2. Len(pool_) <= Cardinality(Coming)
    BY <1>3 DEF NoLostWakeup
  <2> QED
    BY <1>2, <1>3, <2>1, <2>2
<1>4. CASE Construct \/ ConstructFails \/ Destroy
  <2>1. (\A t \in Threads : pc[t] = "idle") /\ pc' = pc
    BY <1>4 DEF Construct, ConstructFails, Destroy, LifeInv
  <2>2. Asleep' = {}
    BY <2>1 DEF Asleep
  <2> QED
    BY <2>2
<1>5. ASSUME NEW t \in Threads, Call(t) \/ Drop(t) \/ Lock(t)
      PROVE  Len(pool_') <= Cardinality(Coming')
  <2>1. Asleep' = Asleep /\ Coming \subseteq Coming' /\ pool_' = pool_
    BY <1>5 DEF Call, Drop, Lock, Goto, Asleep, Coming
  <2> QED
    BY <1>3, <2>1
<1>6. ASSUME NEW t \in Threads, Wait(t) PROVE Len(pool_') <= Cardinality(Coming')
  BY <1>2, <1>6 DEF Wait
<1>7. ASSUME NEW t \in Threads, Take(t) PROVE Len(pool_') <= Cardinality(Coming')
  <2>1. Asleep' = Asleep /\ t \in Coming /\ Coming' = Coming \ {t}
    BY <1>7 DEF Take, Goto, Asleep, Coming
  <2>2. Cardinality(Coming') = Cardinality(Coming) - 1
    BY <1>2, <2>1, FS_RemoveElement
  <2>3. Len(pool_') = Len(pool_) - 1
    BY <1>7, TailElems DEF Take, Conserved
  <2>4. Len(pool_) <= Cardinality(Coming)
    BY <2>1 DEF NoLostWakeup
  <2> QED
    BY <1>2, <2>2, <2>3, <2>4
<1>8. ASSUME NEW t \in Threads, Push(t) PROVE Len(pool_') <= Cardinality(Coming')
  <2>1. Asleep' = Asleep /\ t \notin Coming /\ Coming' = Coming \cup {t}
    BY <1>8 DEF Push, Goto, Asleep, Coming
  <2>2. Cardinality(Coming') = Cardinality(Coming) + 1
    BY <1>2, <2>1, FS_AddElement
  <2>3. Len(pool_') = Len(pool_) + 1
    BY <1>8, AppendElems DEF Push, LoanInv
  <2>4. Len(pool_) <= Cardinality(Coming)
    BY <2>1 DEF NoLostWakeup
  <2> QED
    BY <1>2, <2>2, <2>3, <2>4
<1>9. ASSUME NEW t \in Threads, Notify(t) PROVE Len(pool_') <= Cardinality(Coming')
  <2>1. CASE Asleep = {}
    <3>1. Asleep' = {}
      BY <1>9, <2>1 DEF Notify, Goto, Asleep
    <3> QED
      BY <3>1
  <2>2. CASE Asleep # {}
    <3>1. PICK w \in Asleep : pc' = [pc EXCEPT ![w] = "woken", ![t] = "idle"]
      BY <1>9, <2>2 DEF Notify
    <3>2. /\ w \in Threads /\ w # t /\ w \notin Coming /\ t \in Coming
          /\ Coming' = (Coming \ {t}) \cup {w}
      BY <1>9, <3>1 DEF Notify, Asleep, Coming
    <3>3. /\ IsFiniteSet(Coming \ {t})
          /\ Cardinality(Coming \ {t}) = Cardinality(Coming) - 1
      BY <1>2, <3>2, FS_RemoveElement
    <3>4. Cardinality(Coming') = Cardinality(Coming)
      <4> DEFINE rest == Coming \ {t}
      <4>1. IsFiniteSet(rest) /\ w \notin rest
        BY <3>2, <3>3
      <4>2. Cardinality(rest \cup {w}) = Cardinality(rest) + 1
        <5> HIDE DEF rest
        <5> QED
          BY <4>1, FS_AddElement
      <4> QED
        BY <1>2, <3>2, <3>3, <4>2
    <3>5. Len(pool_) <= Cardinality(Coming) /\ pool_' = pool_
      BY <1>9, <2>2 DEF NoLostWakeup, Notify
    <3> QED
      BY <3>4, <3>5
  <2> QED
    BY <2>1, <2>2
<1>10. ASSUME NEW t \in Threads, SpuriousWake(t)
       PROVE  Len(pool_') <= Cardinality(Coming')
  <2>1. Asleep # {} /\ Coming \subseteq Coming' /\ pool_' = pool_
    BY <1>10 DEF SpuriousWake, Goto, Asleep, Coming
  <2> QED
    BY <1>3, <2>1
<1>11. CASE UNCHANGED vars
  <2>1. Asleep' = Asleep /\ Coming' = Coming /\ pool_' = pool_
    BY <1>11 DEF vars, Asleep, Coming
  <2> QED
    BY <1>3, <2>1
<1> QED
  BY <1>4, <1>5, <1>6, <1>7, <1>8, <1>9, <1>10, <1>11 DEF Next, Step

-----------------------------------------------------------------------------

\* Every reachable state of the pool satisfies the inductive invariant.
THEOREM Invariance == Spec => []Inductive
<1>1. Inductive /\ [Next]_vars => Inductive'
  BY NextType, NextMutex, NextLoan, NextLife, NextConserved, NextWakeup DEF Inductive
<1> QED
  BY InitInductive, <1>1, PTL DEF Spec

\* Every variable of the pool keeps its type through construction, loans and
\* destruction, for any number of threads and connections.
THEOREM TypeCorrect == Spec => []TypeOK
<1>1. Inductive => TypeOK
  BY DEF Inductive
<1> QED
  BY Invariance, <1>1, PTL

\* acquireConnection() and the deleter never lend a connection twice, lose one,
\* or hand out one that was deleted, for any number of threads and connections.
THEOREM ConnectionsConserved == Spec => []Conserved
<1>1. Inductive => Conserved
  BY DEF Inductive
<1> QED
  BY Invariance, <1>1, PTL

\* The destructor deletes every connection the constructor opened.
THEOREM DestructorCloses == Spec => []DestroyedClean
<1>1. Inductive => DestroyedClean
  <2> SUFFICES ASSUME Inductive, life = "gone" PROVE closed = Connections
    BY DEF DestroyedClean
  <2>1. Idle = {}
    BY DEF Inductive, LifeInv, Idle, Elems
  <2>2. Lent = {}
    BY PoolAssumption DEF PoolAssumption, Inductive, LifeInv, LoanInv, Lent
  <2> QED
    BY <2>1, <2>2 DEF Inductive, LifeInv, Conserved
<1> QED
  BY Invariance, <1>1, PTL

\* notify_one() after every push is enough: no borrower sleeps while an idle
\* connection has nobody on the way to it.
THEOREM WakeupsKept == Spec => []NoLostWakeup
<1>1. Inductive => NoLostWakeup
  BY DEF Inductive
<1> QED
  BY Invariance, <1>1, PTL

\* A step of the pool is a step of BorrowSpec or leaves its state alone.
LEMMA StepLends ==
    Inductive /\ [Next]_vars => [Borrowing!Next]_<<Idle, loan>>
<1> SUFFICES ASSUME Inductive, [Next]_vars PROVE [Borrowing!Next]_<<Idle, loan>>
  OBVIOUS
<1> USE PoolAssumption DEF PoolAssumption, Inductive, TypeOK
<1>1. ASSUME UNCHANGED <<pool_, loan>> PROVE UNCHANGED <<Idle, loan>>
  BY <1>1 DEF Idle, Elems
<1>2. CASE Construct
  <2>1. ASSUME NEW c \in Connections \ opened, pool_' = Append(pool_, c), UNCHANGED loan
        PROVE  Borrowing!Open(c)
    <3>1. Idle' = Idle \cup {c}
      BY <2>1, AppendElems DEF Idle
    <3>2. c \notin Idle /\ \A t \in Threads : loan[t] # c
      BY DEF Conserved, Lent
    <3> QED
      BY <2>1, <3>1, <3>2 DEF Borrowing!Open
  <2> QED
    BY <1>1, <1>2, <2>1 DEF Construct, Borrowing!Next
<1>3. CASE Destroy
  <2>1. Idle' = {} /\ UNCHANGED loan /\ \A t \in Threads : loan[t] = NoConn
    BY <1>3 DEF Destroy, Idle, Elems, LoanInv
  <2> QED
    BY <2>1 DEF Borrowing!Next, Borrowing!Close
<1>4. ASSUME NEW t \in Threads, Take(t) PROVE Borrowing!Next
  <2>1. Head(pool_) \in Idle /\ Head(pool_) \in Connections
        /\ Idle' = Idle \ {Head(pool_)}
    BY <1>4, TailElems DEF Take, Conserved, Idle
  <2>2. loan[t] = NoConn
    BY <1>4 DEF Take, LoanInv
  <2>3. Borrowing!Borrow(t, Head(pool_))
    BY <1>4, <2>1, <2>2 DEF Borrowing!Borrow, Take
  <2> QED
    BY <2>1, <2>3 DEF Borrowing!Next
<1>5. ASSUME NEW t \in Threads, Push(t) PROVE Borrowing!Next
  <2>1. loan[t] \in Connections
    BY <1>5 DEF Push, LoanInv
  <2>2. Idle' = Idle \cup {loan[t]}
    BY <1>5, <2>1, AppendElems DEF Push, Idle
  <2> QED
    BY <1>5, <2>1, <2>2 DEF Push, Borrowing!Next, Borrowing!GiveBack
<1>6. CASE ConstructFails
  BY <1>1, <1>6 DEF ConstructFails
<1>7. ASSUME NEW t \in Threads, Call(t) \/ Drop(t) \/ Lock(t) \/ Wait(t) \/ Notify(t)
                                \/ SpuriousWake(t)
      PROVE  UNCHANGED <<Idle, loan>>
  BY <1>1, <1>7 DEF Call, Drop, Lock, Wait, Notify, SpuriousWake
<1>8. CASE UNCHANGED vars
  BY <1>1, <1>8 DEF vars
<1> QED
  BY <1>2, <1>3, <1>4, <1>5, <1>6, <1>7, <1>8 DEF Next, Step

\* The pool implements BorrowSpec.
THEOREM PoolLends == Spec => Lends
<1>1. Init => Borrowing!Init
  BY DEF Init, Borrowing!Init, Idle, Elems
<1> QED
  BY Invariance, <1>1, StepLends, PTL DEF Spec, Lends, Borrowing!Spec
=============================================================================
