-------------------------- MODULE FileLoggerProofs --------------------------
(* The rotation of the log for every number of threads, records, archives    *)
(* and failures: the types, the bound on the archives and their order.       *)
EXTENDS FileLogger, FiniteSetTheorems, TLAPS

\* The mutex: a thread inside log() has it, and was let in below the bound.
Exclusive == \A t \in Threads : pc[t] # "idle" => mutex_ = t /\ last < MaxRecords

\* The log is there when the stream is good and until rotateLogs() has retired
\* it; from the first step of rotateLogs() until open() the stream is closed.
Present ==
    /\ file_stream_ = "good" => log_path_ # NoFile
    /\ \A t \in Threads :
         /\ pc[t] \in {"rotate", "shift", "remove", "rename"} => log_path_ # NoFile
         /\ pc[t] \in {"shift", "remove", "rename", "open"} => file_stream_ = "closed"

\* The slot of the oldest archive is free when the loop begins.
OldestGone == \A t \in Threads : pc[t] = "shift" /\ i = MaxIdx => gz[MaxIdx] = NoFile

\* The inductive invariant.
IInv ==
    /\ TypeOK /\ Exclusive /\ Present /\ OldestGone
    /\ KeepsAtMostMaxIdx /\ AgeOrder

-----------------------------------------------------------------------------
\* The empty file is a file that exists.
LEMMA EmptyLog == <<>> # NoFile
  <1>1. <<>> \in Seq(Nat)
    OBVIOUS
  <1> QED
    BY <1>1, LoggerAssumption DEF LoggerAssumption

\* A file stays one when more records have been written.
LEMMA FileGrows ==
    ASSUME NEW m \in Nat, NEW n \in Nat, m <= n PROVE Seq(1 .. m) \subseteq Seq(1 .. n)
  <1>1. 1 .. m \subseteq 1 .. n
    OBVIOUS
  <1> QED
    BY <1>1

\* A file that is not empty begins with a record.
LEMMA FirstRecord ==
    ASSUME NEW m \in Nat, NEW f \in Seq(1 .. m), f # <<>> PROVE f[1] \in 1 .. m
  <1>1. Len(f) \in Nat /\ Len(f) # 0
    OBVIOUS
  <1>2. 1 \in 1 .. Len(f)
    BY <1>1
  <1> QED
    BY <1>2

\* A compression that breaks off leaves a beginning of the log.
LEMMA TruncatedFile ==
    ASSUME NEW m \in Nat, log_path_ \in Seq(1 .. m), NEW f \in Truncated
    PROVE  f \in Seq(1 .. m) /\ (f # <<>> => log_path_ # <<>> /\ f[1] = log_path_[1])
  <1>1. PICK n \in 0 .. Len(log_path_) - 1 : f = SubSeq(log_path_, 1, n)
    BY DEF Truncated
  <1>2. n \in Nat /\ n <= Len(log_path_) /\ Len(log_path_) \in Nat
    BY <1>1
  <1>3. f \in Seq(1 .. m) /\ Len(f) = n
    BY <1>1, <1>2
  <1>4. f # <<>> => n >= 1
    BY <1>2, <1>3
  <1>5. n >= 1 => log_path_ # <<>> /\ f[1] = log_path_[1]
    BY <1>1, <1>2
  <1> QED
    BY <1>3, <1>4, <1>5

\* The constructor establishes the invariant.
LEMMA InitIInv == Init => IInv
  <1> SUFFICES ASSUME Init PROVE IInv
    OBVIOUS
  <1>1. TypeOK
    BY LoggerAssumption DEF LoggerAssumption, Init, TypeOK, File, Archives
  <1>2. Exclusive /\ OldestGone /\ KeepsAtMostMaxIdx /\ AgeOrder
    BY LoggerAssumption DEF LoggerAssumption, Init, Exclusive, OldestGone, KeepsAtMostMaxIdx, AgeOrder,
       NotNewer, Archives
  <1>3. Present
    BY EmptyLog DEF Init, Present
  <1> QED
    BY <1>1, <1>2, <1>3 DEF IInv

-----------------------------------------------------------------------------
\* A step leaves the types: the only ones at risk are the files, in the steps
\* that write them.
LEMMA NextType == IInv /\ [Next]_vars => TypeOK'
  <1> SUFFICES ASSUME IInv, [Next]_vars PROVE TypeOK'
    OBVIOUS
  <1> USE LoggerAssumption DEF LoggerAssumption, IInv, TypeOK, Archives, files
  <1>1. ASSUME NEW t \in Threads, Lock(t) PROVE TypeOK'
    BY <1>1 DEF Lock, Goto, File
  <1>2. ASSUME NEW t \in Threads, Write(t) PROVE TypeOK'
    <2>1. last < MaxRecords /\ last \in Nat
      BY <1>2 DEF Write, Exclusive
    <2>2. CASE last' = last
      <3>1. log_path_' \in File'
        BY <1>2, <2>2, <2>1 DEF Write, File
      <3> QED
        BY <1>2, <2>2, <3>1 DEF Write, Leave, Goto, Fault, File
    <2>3. CASE last' = last + 1 /\ file_stream_ = "good"
      <3>1. Seq(1 .. last) \subseteq Seq(1 .. last + 1)
        BY <2>1, FileGrows
      <3>2. File \subseteq File'
        BY <3>1, <2>3 DEF File
      <3>3. log_path_ \in Seq(1 .. last + 1)
        BY <2>3, <3>1 DEF Present, File
      <3>4. log_path_' = Append(log_path_, last + 1)
        BY <1>2, <2>3, <2>1 DEF Write
      <3>5. log_path_' \in File'
        BY <3>3, <3>4, <2>1, <2>3 DEF File
      <3>6. raw1' \in File' /\ gz' \in [1 .. MaxIdx + 1 -> File']
        BY <1>2, <3>2 DEF Write
      <3> QED
        BY <1>2, <2>1, <2>3, <3>5, <3>6 DEF Write, Leave, Goto, Fault
    <2> QED
      BY <1>2, <2>2, <2>3 DEF Write
  <1>3. ASSUME NEW t \in Threads, RemoveOldest(t) PROVE TypeOK'
    BY <1>3 DEF RemoveOldest, Goto, File
  <1>4. ASSUME NEW t \in Threads, Shift(t) PROVE TypeOK'
    <2>1. File' = File
      BY <1>4 DEF Shift, File
    <2>2. gz' \in [1 .. MaxIdx + 1 -> File]
      <3>1. i \in 1 .. MaxIdx + 1 /\ gz[i] \in File /\ NoFile \in File
        BY <1>4 DEF Shift, File
      <3>2. [gz EXCEPT ![i + 1] = gz[i], ![i] = NoFile] \in [1 .. MaxIdx + 1 -> File]
        BY <3>1
      <3> QED
        BY <1>4, <3>2 DEF Shift
    <2> QED
      BY <1>4, <2>1, <2>2 DEF Shift
  <1>5. ASSUME NEW t \in Threads, Compress(t) PROVE TypeOK'
    <2>1. log_path_ \in Seq(1 .. last) /\ last \in Nat
      BY <1>5 DEF Compress, Present, File
    <2>2. Truncated \subseteq File
      BY <2>1, TruncatedFile DEF File
    <2>3. gz' \in [1 .. MaxIdx + 1 -> File]
      BY <1>5, <2>1, <2>2 DEF Compress
    <2>4. File' = File
      BY <1>5 DEF Compress, File
    <2>5. faults' \in 0 .. MaxFaults
      BY <1>5 DEF Compress, Fault
    <2>6. pc' \in [Threads -> {"idle", "write", "rotate", "shift", "remove", "rename", "open"}]
      BY <1>5 DEF Compress, Goto
    <2> QED
      BY <1>5, <2>3, <2>4, <2>5, <2>6 DEF Compress
  <1>6. ASSUME NEW t \in Threads, Retire(t) PROVE TypeOK'
    BY <1>6 DEF Retire, Goto, File
  <1>7. ASSUME NEW t \in Threads, Open(t) PROVE TypeOK'
    <2>1. File' = File /\ <<>> \in File
      BY <1>7 DEF Open, File
    <2>2. faults' \in 0 .. MaxFaults
      BY <1>7 DEF Open, Fault
    <2> QED
      BY <1>7, <2>1, <2>2 DEF Open, Goto
  <1>8. ASSUME NEW t \in Threads, Throw(t) PROVE TypeOK'
    BY <1>8 DEF Throw, Leave, Goto, Fault, File
  <1>9. ASSUME Crash PROVE TypeOK'
    <2>1. last \in Nat /\ \A t \in Threads : pc[t] = "shift" => log_path_ \in Seq(1 .. last)
      BY DEF Present, File
    <2>2. ASSUME NEW t \in Threads, pc[t] = "shift" PROVE Truncated \subseteq File
      BY <2>1, <2>2, TruncatedFile DEF File
    <2>3. gz' \in [1 .. MaxIdx + 1 -> File]
      <3>1. CASE gz' = gz
        BY <3>1
      <3>2. CASE gz' # gz
        <4>1. PICK t \in Threads, f \in Truncated : pc[t] = "shift" /\ gz' = [gz EXCEPT ![1] = f]
          BY <1>9, <3>2 DEF Crash
        <4> QED
          BY <4>1, <2>2
      <3> QED
        BY <3>1, <3>2
    <2>4. last' = last /\ File' = File
      BY <1>9 DEF Crash, File
    <2>5. <<>> \in File
      BY DEF File
    <2> QED
      BY <1>9, <2>3, <2>4, <2>5 DEF Crash, Fault
  <1>10. CASE UNCHANGED vars
    BY <1>10 DEF vars, File
  <1> QED
    BY <1>1, <1>2, <1>3, <1>4, <1>5, <1>6, <1>7, <1>8, <1>9, <1>10 DEF Next

\* The mutex keeps threads apart: log() begins when nobody has it, and a thread
\* that returns or throws gives it back.
LEMMA NextExclusive == IInv /\ [Next]_vars => Exclusive'
  <1> SUFFICES ASSUME IInv, [Next]_vars PROVE Exclusive'
    OBVIOUS
  <1> USE LoggerAssumption DEF LoggerAssumption, IInv, TypeOK, Exclusive, files
  <1>1. ASSUME NEW t \in Threads, Lock(t) PROVE Exclusive'
    BY <1>1 DEF Lock, Goto
  <1>2. ASSUME NEW t \in Threads, Write(t) PROVE Exclusive'
    BY <1>2 DEF Write, Leave, Goto
  <1>3. ASSUME NEW t \in Threads, RemoveOldest(t) \/ Shift(t) \/ Compress(t) \/ Retire(t) \/ Open(t)
        PROVE  Exclusive'
    BY <1>3 DEF RemoveOldest, Shift, Compress, Retire, Open, Goto
  <1>4. ASSUME NEW t \in Threads, Throw(t) PROVE Exclusive'
    BY <1>4 DEF Throw, Leave, Goto
  <1>5. ASSUME Crash PROVE Exclusive'
    BY <1>5 DEF Crash
  <1>6. CASE UNCHANGED vars
    BY <1>6 DEF vars
  <1> QED
    BY <1>1, <1>2, <1>3, <1>4, <1>5, <1>6 DEF Next

\* The log and the stream go together.
LEMMA NextPresent == IInv /\ [Next]_vars => Present'
  <1> SUFFICES ASSUME IInv, [Next]_vars PROVE Present'
    OBVIOUS
  <1> USE LoggerAssumption, EmptyLog DEF LoggerAssumption, IInv, TypeOK, Exclusive, Present, files
  <1>1. ASSUME NEW t \in Threads, Lock(t) PROVE Present'
    BY <1>1 DEF Lock, Goto
  <1>2. ASSUME NEW t \in Threads, Write(t) PROVE Present'
    <2>1. \A u \in Threads : pc'[u] = "idle"
      BY <1>2 DEF Write, Leave, Goto
    <2>2. file_stream_' = "good" => log_path_' # NoFile
      <3>1. CASE log_path_' = log_path_ /\ (file_stream_' = "good" => file_stream_ = "good")
        BY <3>1
      <3>2. CASE log_path_' = Append(log_path_, last + 1) /\ file_stream_ = "good"
        <4>1. log_path_ \in Seq(1 .. last)
          BY <3>2 DEF File
        <4>2. log_path_ \in Seq(Nat) /\ last + 1 \in Nat
          BY <4>1
        <4>3. log_path_' \in Seq(Nat)
          BY <3>2, <4>2
        <4> QED
          BY <4>3
      <3> QED
        BY <1>2, <3>1, <3>2 DEF Write
    <2> QED
      BY <2>1, <2>2
  <1>3. ASSUME NEW t \in Threads, RemoveOldest(t) \/ Shift(t) \/ Compress(t) \/ Retire(t) \/ Open(t)
        PROVE  Present'
    <2>1. \A u \in Threads : u # t => pc[u] = "idle" /\ pc'[u] = "idle"
      BY <1>3 DEF RemoveOldest, Shift, Compress, Retire, Open, Goto
    <2> QED
      BY <1>3, <2>1 DEF RemoveOldest, Shift, Compress, Retire, Open, Goto
  <1>4. ASSUME NEW t \in Threads, Throw(t) PROVE Present'
    BY <1>4 DEF Throw, Leave, Goto
  <1>5. ASSUME Crash PROVE Present'
    BY <1>5 DEF Crash
  <1>6. CASE UNCHANGED vars
    BY <1>6 DEF vars
  <1> QED
    BY <1>1, <1>2, <1>3, <1>4, <1>5, <1>6 DEF Next

\* No archive leaves the last slot for the one behind it: the loop begins with
\* the last slot, which was emptied just before.
LEMMA NextKeeps == IInv /\ [Next]_vars => KeepsAtMostMaxIdx' /\ OldestGone'
  <1> SUFFICES ASSUME IInv, [Next]_vars PROVE KeepsAtMostMaxIdx' /\ OldestGone'
    OBVIOUS
  <1> USE LoggerAssumption DEF LoggerAssumption, IInv, TypeOK, Exclusive, OldestGone,
          KeepsAtMostMaxIdx, Archives, files
  <1>1. ASSUME NEW t \in Threads, Lock(t) \/ Write(t) \/ Retire(t) \/ Open(t) \/ Throw(t)
        PROVE  KeepsAtMostMaxIdx' /\ OldestGone'
    BY <1>1 DEF Lock, Write, Retire, Open, Throw, Leave, Goto
  <1>2. ASSUME NEW t \in Threads, RemoveOldest(t) PROVE KeepsAtMostMaxIdx' /\ OldestGone'
    BY <1>2 DEF RemoveOldest, Goto
  <1>3. ASSUME NEW t \in Threads, Shift(t) PROVE KeepsAtMostMaxIdx' /\ OldestGone'
    BY <1>3 DEF Shift
  <1>4. ASSUME NEW t \in Threads, Compress(t) PROVE KeepsAtMostMaxIdx' /\ OldestGone'
    <2>1. gz'[MaxIdx + 1] = gz[MaxIdx + 1]
      BY <1>4 DEF Compress
    <2>2. \A u \in Threads : pc'[u] # "shift"
      BY <1>4 DEF Compress, Goto
    <2> QED
      BY <2>1, <2>2
  <1>5. ASSUME Crash PROVE KeepsAtMostMaxIdx' /\ OldestGone'
    <2>1. gz'[MaxIdx + 1] = gz[MaxIdx + 1]
      BY <1>5 DEF Crash
    <2> QED
      BY <1>5, <2>1 DEF Crash
  <1>6. CASE UNCHANGED vars
    BY <1>6 DEF vars
  <1> QED
    BY <1>1, <1>2, <1>3, <1>4, <1>5, <1>6 DEF Next

\* The order of the archives: a shift moves an archive into a slot next to its
\* own, a compression puts a beginning of the log in front, and a record enters
\* a log that is not older than any archive.
LEMMA NextAge == IInv /\ [Next]_vars => AgeOrder'
  <1> SUFFICES ASSUME IInv, [Next]_vars PROVE AgeOrder'
    OBVIOUS
  <1> USE LoggerAssumption DEF LoggerAssumption, IInv, AgeOrder, Archives, files
  <1>1. ASSUME NEW t \in Threads, Lock(t) \/ Throw(t) PROVE AgeOrder'
    BY <1>1 DEF Lock, Throw, NotNewer
  <1>2. ASSUME NEW t \in Threads, Write(t) PROVE AgeOrder'
    <2>1. gz' = gz
      BY <1>2 DEF Write
    <2>2. CASE log_path_' = log_path_
      BY <2>1, <2>2 DEF NotNewer
    <2>3. CASE log_path_' = Append(log_path_, last + 1) /\ file_stream_ = "good"
      <3>1. log_path_ \in Seq(1 .. last) /\ last \in Nat
        BY <2>3 DEF Present, TypeOK, File
      <3>2. log_path_ # <<>> => log_path_'[1] = log_path_[1]
        BY <2>3, <3>1
      <3>3. log_path_ = <<>> => log_path_'[1] = last + 1
        BY <2>3, <3>1
      <3>4. ASSUME NEW n \in 1 .. MaxIdx + 1 PROVE NotNewer(gz[n], log_path_')
        <4>1. CASE log_path_ # <<>>
          <5>1. NotNewer(gz[n], log_path_) /\ log_path_ # NoFile
            BY <2>3 DEF Present
          <5> QED
            BY <4>1, <3>2, <5>1 DEF NotNewer
        <4>2. CASE log_path_ = <<>>
          <5>1. gz[n] \notin {NoFile, <<>>} => gz[n] \in Seq(1 .. last) /\ gz[n] # <<>>
            BY DEF TypeOK, File
          <5>2. gz[n] \notin {NoFile, <<>>} => gz[n][1] \in 1 .. last
            BY <5>1, <3>1, FirstRecord
          <5> QED
            BY <4>2, <3>1, <3>3, <5>2 DEF NotNewer
        <4> QED
          BY <4>1, <4>2
      <3> QED
        BY <2>1, <3>4
    <2> QED
      BY <1>2, <2>2, <2>3 DEF Write
  <1>3. ASSUME NEW t \in Threads, RemoveOldest(t) PROVE AgeOrder'
    <2>1. \A n \in 1 .. MaxIdx + 1 : gz'[n] = gz[n] \/ gz'[n] = NoFile
      BY <1>3 DEF RemoveOldest, TypeOK
    <2>2. log_path_' = log_path_
      BY <1>3 DEF RemoveOldest
    <2> QED
      BY <2>1, <2>2 DEF NotNewer
  <1>4. ASSUME NEW t \in Threads, Shift(t) PROVE AgeOrder'
    <2>1. i \in 1 .. MaxIdx /\ log_path_' = log_path_
      BY <1>4 DEF Shift, TypeOK
    <2>2. CASE gz' = gz
      BY <2>1, <2>2 DEF NotNewer
    <2>3. CASE gz' = [gz EXCEPT ![i + 1] = gz[i], ![i] = NoFile]
      <3>1. gz'[i + 1] = gz[i] /\ gz'[i] = NoFile
        BY <2>1, <2>3 DEF TypeOK
      <3>2. \A n \in 1 .. MaxIdx + 1 : n # i /\ n # i + 1 => gz'[n] = gz[n]
        BY <2>1, <2>3 DEF TypeOK
      <3>3. ASSUME NEW m \in 1 .. MaxIdx + 1, NEW n \in 1 .. MaxIdx + 1, m < n
            PROVE  NotNewer(gz'[n], gz'[m])
        <4>1. CASE m = i \/ n = i
          BY <4>1, <3>1 DEF NotNewer
        <4>2. CASE n = i + 1 /\ m # i
          <5>1. m < i /\ i \in 1 .. MaxIdx + 1
            BY <2>1, <3>3, <4>2
          <5>2. gz'[m] = gz[m] /\ gz'[n] = gz[i]
            BY <3>1, <3>2, <4>2, <3>3
          <5> QED
            BY <5>1, <5>2
        <4>3. CASE m = i + 1
          <5>1. i < n /\ n # i /\ n # i + 1 /\ i \in 1 .. MaxIdx + 1
            BY <2>1, <3>3, <4>3
          <5>2. gz'[m] = gz[i] /\ gz'[n] = gz[n]
            BY <3>1, <3>2, <4>3, <5>1
          <5> QED
            BY <5>1, <5>2
        <4>4. CASE m \notin {i, i + 1} /\ n \notin {i, i + 1}
          BY <3>2, <3>3, <4>4
        <4> QED
          BY <4>1, <4>2, <4>3, <4>4
      <3>4. ASSUME NEW n \in 1 .. MaxIdx + 1 PROVE NotNewer(gz'[n], log_path_')
        <4>1. CASE n = i
          BY <4>1, <3>1 DEF NotNewer
        <4>2. CASE n = i + 1
          <5>1. i \in 1 .. MaxIdx + 1
            BY <2>1
          <5> QED
            BY <4>2, <3>1, <2>1, <5>1
        <4>3. CASE n # i /\ n # i + 1
          BY <4>3, <3>2, <2>1
        <4> QED
          BY <4>1, <4>2, <4>3
      <3> QED
        BY <3>3, <3>4
    <2> QED
      BY <1>4, <2>2, <2>3 DEF Shift
  <1>5. ASSUME NEW f, gz' = [gz EXCEPT ![1] = f], log_path_' = log_path_, log_path_ # NoFile,
               log_path_ \in Seq(1 .. last), last \in Nat,
               f # <<>> => log_path_ # <<>> /\ f[1] = log_path_[1]
        PROVE  AgeOrder'
    <2>1. gz'[1] = f /\ \A n \in 2 .. MaxIdx + 1 : gz'[n] = gz[n]
      BY <1>5 DEF TypeOK
    <2>2. ASSUME NEW n \in 1 .. MaxIdx + 1 PROVE NotNewer(gz'[n], log_path_)
      <3>1. CASE n = 1
        <4>1. log_path_ # <<>> => log_path_[1] \in Nat
          BY <1>5
        <4> QED
          BY <1>5, <2>1, <3>1, <4>1 DEF NotNewer
      <3>2. CASE n # 1
        BY <2>1, <3>2
      <3> QED
        BY <3>1, <3>2
    <2>3. ASSUME NEW m \in 1 .. MaxIdx + 1, NEW n \in 1 .. MaxIdx + 1, m < n
          PROVE  NotNewer(gz'[n], gz'[m])
      <3>1. gz'[n] = gz[n] /\ NotNewer(gz[n], log_path_)
        BY <2>1, <2>3
      <3>2. CASE m = 1
        BY <1>5, <2>1, <3>1, <3>2 DEF NotNewer
      <3>3. CASE m # 1
        BY <2>1, <2>3, <3>3
      <3> QED
        BY <3>2, <3>3
    <2> QED
      BY <1>5, <2>2, <2>3
  <1>6. ASSUME NEW t \in Threads, Compress(t) PROVE AgeOrder'
    <2>1. log_path_ \in Seq(1 .. last) /\ last \in Nat /\ log_path_ # NoFile
      BY <1>6 DEF Compress, Present, TypeOK, File
    <2>2. log_path_' = log_path_
      BY <1>6 DEF Compress
    <2>3. CASE gz' = gz
      BY <2>2, <2>3 DEF NotNewer
    <2>4. CASE gz' = [gz EXCEPT ![1] = log_path_]
      BY <1>5, <2>1, <2>2, <2>4
    <2>5. ASSUME NEW f \in Truncated, gz' = [gz EXCEPT ![1] = f] PROVE AgeOrder'
      BY <1>5, <2>1, <2>2, <2>5, TruncatedFile
    <2> QED
      BY <1>6, <2>3, <2>4, <2>5 DEF Compress
  <1>7. ASSUME NEW t \in Threads, Retire(t) \/ Open(t) PROVE AgeOrder'
    BY <1>7 DEF Retire, Open, NotNewer
  <1>8. ASSUME Crash PROVE AgeOrder'
    <2>1. CASE gz' = gz
      BY <1>8, <2>1 DEF Crash, NotNewer
    <2>2. CASE gz' # gz
      <3>1. PICK t \in Threads, f \in Truncated : pc[t] = "shift" /\ gz' = [gz EXCEPT ![1] = f]
        BY <1>8, <2>2 DEF Crash
      <3>2. log_path_ \in Seq(1 .. last) /\ last \in Nat /\ log_path_ # NoFile
        BY <3>1 DEF Present, TypeOK, File
      <3>3. log_path_' = log_path_
        BY <1>8, <3>2 DEF Crash
      <3> QED
        BY <1>5, <3>1, <3>2, <3>3, TruncatedFile
    <2> QED
      BY <2>1, <2>2
  <1>9. CASE UNCHANGED vars
    BY <1>9 DEF vars, NotNewer
  <1> QED
    BY <1>1, <1>2, <1>3, <1>4, <1>6, <1>7, <1>8, <1>9 DEF Next

-----------------------------------------------------------------------------
\* The inductive invariant holds in every state the logger reaches.
THEOREM LoggerInvariant == Spec => []IInv
  <1>1. IInv /\ [Next]_vars => IInv'
    BY NextType, NextExclusive, NextPresent, NextKeeps, NextAge DEF IInv
  <1> QED
    BY InitIInv, <1>1, PTL DEF Spec

\* Every variable of the logger keeps its type, whatever fails: no rotation reads
\* a log that is gone or writes past the archives' slots.
THEOREM TypeCorrect == Spec => []TypeOK
  <1>1. IInv => TypeOK
    BY DEF IInv
  <1> QED
    BY LoggerInvariant, <1>1, PTL

\* mutex_ keeps log() to one thread at a time, rotations included.
THEOREM OneThreadLogs ==
    Spec => [](\A t, u \in Threads : pc[t] # "idle" /\ pc[u] # "idle" => t = u)
  <1>1. IInv => (\A t, u \in Threads : pc[t] # "idle" /\ pc[u] # "idle" => t = u)
    BY DEF IInv, Exclusive
  <1> QED
    BY LoggerInvariant, <1>1, PTL

\* No failure, crash or repetition of a rotation leaves an archive beyond
\* log_path_.max.gz.
THEOREM ArchivesBounded == Spec => []KeepsAtMostMaxIdx
  <1>1. IInv => KeepsAtMostMaxIdx
    BY DEF IInv
  <1> QED
    BY LoggerInvariant, <1>1, PTL

\* The archives and the log stay in the order of their records.
THEOREM ArchivesOrdered == Spec => []AgeOrder
  <1>1. IInv => AgeOrder
    BY DEF IInv
  <1> QED
    BY LoggerInvariant, <1>1, PTL

-----------------------------------------------------------------------------
(***************************************************************************)
(* What a rotation may cost.  The log holds the newest records; of the     *)
(* m * MaxSize records before them, at most MaxSize are missing from the   *)
(* first m archives and .1 for every failing call and crash.  Within a     *)
(* rotation the archives above the gap have moved on by one already, and   *)
(* the file that goes next does not count any more.                        *)
(***************************************************************************)
Size == IF log_path_ = NoFile THEN 0 ELSE Len(log_path_)

\* The log is full when it is rotated, holds the newest records, and is gone
\* when open() is called; .1 was such a log; the loop moves a gap.
SizeInv ==
    /\ Size <= MaxSize
    /\ \A t \in Threads :
         /\ pc[t] \in {"rotate", "shift", "remove", "rename"} => Size = MaxSize
         /\ pc[t] = "write" /\ file_stream_ = "good" => Size < MaxSize
         /\ pc[t] = "open" => log_path_ = NoFile
         /\ pc[t] = "shift" => gz[i + 1] = NoFile
    /\ \A n \in 1 .. Size : log_path_[n] = last - Size + n
    /\ \E b \in Nat : Elems(raw1) \subseteq b + 1 .. b + MaxSize

\* Where the thread that has the mutex is.
Phase == IF mutex_ = NoThread THEN "idle" ELSE pc[mutex_]
Rotating == Phase \in {"shift", "remove", "rename"}
Levels == 0 .. (IF Rotating THEN MaxIdx - 1 ELSE MaxIdx)

\* The files in which the records above a level are looked for.
Older(m) == UNION {Elems(gz[n]) : n \in 1 .. m}
Cover(m) ==
    CASE Phase = "shift"  -> Elems(log_path_) \cup Elems(raw1) \cup Older(IF m <= i THEN m ELSE m + 1)
      [] Phase = "remove" -> Elems(raw1) \cup Older(m + 1)
      [] Phase = "rename" -> Elems(log_path_) \cup Older(m + 1)
      [] OTHER            -> Elems(log_path_) \cup Elems(raw1) \cup Older(m)

Level(m) == last - Size - m * MaxSize
Missing(m) == {r \in 1 .. last : r > Level(m) /\ r \notin Cover(m)}
Few(S, k) == Cardinality(S) <= k * MaxSize
CountInv == \A m \in Levels : Few(Missing(m), faults)

\* Less is missing, or the records of one file more.
LEMMA Fewer ==
  ASSUME NEW n \in Nat, NEW A \in SUBSET (1 .. n), NEW B \in SUBSET A,
         NEW k \in Nat, NEW l \in Nat, k <= l, Few(A, k)
  PROVE  Few(B, l)
  <1>1. IsFiniteSet(A)
    <2>1. IsFiniteSet(1 .. n)
      BY FS_Interval
    <2> QED
      BY <2>1, FS_Subset
  <1>2. IsFiniteSet(B) /\ Cardinality(B) <= Cardinality(A)
    BY <1>1, FS_Subset
  <1>3. Cardinality(A) \in Nat /\ Cardinality(B) \in Nat
    BY <1>1, <1>2, FS_CardinalityType
  <1>4. MaxSize \in Nat
    BY LoggerAssumption DEF LoggerAssumption
  <1>5. l * MaxSize = k * MaxSize + (l - k) * MaxSize /\ (l - k) * MaxSize \in Nat /\ k * MaxSize \in Nat
    BY <1>4
  <1> QED
    BY <1>2, <1>3, <1>5 DEF Few

LEMMA FewMore ==
  ASSUME NEW n \in Nat, NEW A \in SUBSET (1 .. n), NEW b \in Int, NEW B,
         B \subseteq A \cup (b + 1 .. b + MaxSize), NEW k \in Nat, Few(A, k)
  PROVE  Few(B, k + 1)
  <1> DEFINE X == b + 1 .. b + MaxSize
  <1>1. MaxSize \in Nat
    BY LoggerAssumption DEF LoggerAssumption
  <1>2. IsFiniteSet(A)
    <2>1. IsFiniteSet(1 .. n)
      BY FS_Interval
    <2> QED
      BY <2>1, FS_Subset
  <1>3. IsFiniteSet(X) /\ Cardinality(X) <= MaxSize
    <2>1. b + 1 \in Int /\ b + MaxSize \in Int
      BY <1>1
    <2>2. IsFiniteSet(X) /\ Cardinality(X) = IF b + 1 > b + MaxSize THEN 0 ELSE (b + MaxSize) - (b + 1) + 1
      BY <2>1, FS_Interval
    <2> QED
      BY <1>1, <2>2
  <1> HIDE DEF X
  <1>4. /\ IsFiniteSet(A \cup X)
        /\ Cardinality(A \cup X) = Cardinality(A) + Cardinality(X) - Cardinality(A \cap X)
    BY <1>2, <1>3, FS_Union
  <1>5. IsFiniteSet(A \cap X) /\ IsFiniteSet(B) /\ Cardinality(B) <= Cardinality(A \cup X)
    <2>1. A \cap X \in SUBSET A /\ B \in SUBSET (A \cup X)
      BY DEF X
    <2> QED
      BY <1>2, <1>4, <2>1, FS_Subset
  <1>6. /\ Cardinality(A) \in Nat /\ Cardinality(X) \in Nat /\ Cardinality(A \cap X) \in Nat
        /\ Cardinality(B) \in Nat
    BY <1>2, <1>3, <1>5, FS_CardinalityType
  <1>7. (k + 1) * MaxSize = k * MaxSize + MaxSize /\ k * MaxSize \in Nat
    BY <1>1
  <1> QED
    BY <1>1, <1>3, <1>4, <1>5, <1>6, <1>7 DEF Few

\* The numbers behind the definitions.
LEMMA Numbers ==
  ASSUME TypeOK, SizeInv
  PROVE  /\ last \in Nat /\ faults \in Nat /\ i \in Nat /\ Size \in Nat /\ MaxSize \in Nat /\ MaxSize > 0
         /\ MaxIdx \in Nat /\ MaxIdx > 0
         /\ log_path_ # NoFile => log_path_ \in Seq(1 .. last) /\ Size = Len(log_path_)
         /\ Elems(log_path_) = last - Size + 1 .. last
         /\ Level(0) = last - Size
         /\ \A m \in Nat : Level(m) \in Int /\ Level(m + 1) = Level(m) - MaxSize
  <1>1. /\ last \in Nat /\ faults \in Nat /\ i \in Nat /\ MaxSize \in Nat /\ MaxSize > 0
        /\ MaxIdx \in Nat /\ MaxIdx > 0
    BY LoggerAssumption DEF LoggerAssumption, TypeOK
  <1>2. log_path_ # NoFile => log_path_ \in Seq(1 .. last) /\ Size = Len(log_path_)
    BY DEF TypeOK, File, Size
  <1>3. Size \in Nat
    BY <1>2 DEF Size
  <1>4. Elems(log_path_) = last - Size + 1 .. last
    <2>1. CASE log_path_ = NoFile
      BY <1>1, <2>1 DEF Elems, Size
    <2>2. CASE log_path_ # NoFile
      <3>1. Elems(log_path_) = {log_path_[n] : n \in 1 .. Size}
        BY <1>2, <2>2 DEF Elems
      <3>2. \A n \in 1 .. Size : log_path_[n] = last - Size + n
        BY DEF SizeInv
      <3>3. ASSUME NEW r \in last - Size + 1 .. last PROVE r \in Elems(log_path_)
        <4>1. r - (last - Size) \in 1 .. Size /\ last - Size + (r - (last - Size)) = r
          BY <1>1, <1>3
        <4> QED
          BY <3>1, <3>2, <4>1
      <3>4. ASSUME NEW n \in 1 .. Size PROVE log_path_[n] \in last - Size + 1 .. last
        BY <1>1, <1>3, <3>2
      <3> QED
        BY <3>1, <3>3, <3>4
    <2> QED
      BY <2>1, <2>2
  <1>5. Level(0) = last - Size
    BY <1>1, <1>3 DEF Level
  <1>6. \A m \in Nat : Level(m) \in Int /\ Level(m + 1) = Level(m) - MaxSize
    <2> SUFFICES ASSUME NEW m \in Nat PROVE Level(m) \in Int /\ Level(m + 1) = Level(m) - MaxSize
      OBVIOUS
    <2>1. m * MaxSize \in Int /\ (m + 1) * MaxSize = m * MaxSize + MaxSize
      BY <1>1
    <2> QED
      BY <1>1, <1>3, <2>1 DEF Level
  <1> QED
    BY <1>1, <1>2, <1>3, <1>4, <1>5, <1>6

\* The log stays as long as it may be and in the order of its records.
LEMMA NextSize == IInv /\ SizeInv /\ [Next]_vars => SizeInv'
  <1> SUFFICES ASSUME IInv, SizeInv, [Next]_vars PROVE SizeInv'
    OBVIOUS
  <1>1. TypeOK /\ Exclusive /\ Present /\ KeepsAtMostMaxIdx
    BY DEF IInv
  <1>2. /\ last \in Nat /\ i \in Nat /\ Size \in Nat /\ MaxSize \in Nat /\ MaxSize > 0 /\ MaxIdx \in Nat
        /\ MaxIdx > 0 /\ (log_path_ # NoFile => log_path_ \in Seq(1 .. last) /\ Size = Len(log_path_))
        /\ Elems(log_path_) = last - Size + 1 .. last
    BY <1>1, Numbers
  <1>3. \A n \in 1 .. Size : log_path_[n] = last - Size + n
    BY DEF SizeInv
  <1>4. PICK b \in Nat : Elems(raw1) \subseteq b + 1 .. b + MaxSize
    BY DEF SizeInv
  <1>5. \A t \in Threads : pc[t] \in {"idle", "write", "rotate", "shift", "remove", "rename", "open"}
    BY <1>1 DEF TypeOK
  <1>6. ASSUME NEW t \in Threads, pc[t] # "idle"
        PROVE  \A u \in Threads : u # t => pc[u] = "idle"
    BY <1>1, <1>6 DEF Exclusive
  <1>7. ASSUME NEW t \in Threads, Lock(t) PROVE SizeInv'
    <2>1. UNCHANGED <<files, file_stream_, last, i>> /\ Size' = Size
      BY <1>7 DEF Lock, files, Size
    <2>2. \A u \in Threads : u # t => pc'[u] = pc[u]
      BY <1>1, <1>7 DEF Lock, Goto, TypeOK
    <2>3. pc'[t] = (IF log_path_ # NoFile /\ Len(log_path_) >= MaxSize THEN "rotate" ELSE "write")
      BY <1>1, <1>7 DEF Lock, Goto, TypeOK
    <2>4. pc'[t] = "rotate" => Size = MaxSize
      BY <1>2, <2>3 DEF SizeInv
    <2>5. pc'[t] = "write" => Size < MaxSize
      BY <1>2, <2>3 DEF Size
    <2> QED
      BY <1>3, <1>4, <2>1, <2>2, <2>3, <2>4, <2>5 DEF SizeInv, files
  <1>8. ASSUME NEW t \in Threads, Write(t) PROVE SizeInv'
    <2>1. pc[t] = "write" /\ UNCHANGED <<gz, raw1, i>> /\ \A u \in Threads : pc'[u] = "idle"
      BY <1>1, <1>6, <1>8 DEF Write, Leave, Goto, TypeOK
    <2>2. CASE log_path_' = log_path_ /\ last' = last
      BY <1>3, <1>4, <2>1, <2>2 DEF SizeInv, Size
    <2>3. CASE log_path_' = Append(log_path_, last + 1) /\ last' = last + 1 /\ file_stream_ = "good"
      <3>1. log_path_ # NoFile /\ log_path_ \in Seq(1 .. last) /\ Size = Len(log_path_) /\ Size < MaxSize
        BY <1>1, <1>2, <2>1, <2>3 DEF Present, SizeInv
      <3>2. log_path_ \in Seq(Nat) /\ last + 1 \in Nat
        BY <1>2, <3>1
      <3>3. /\ log_path_' \in Seq(Nat) /\ Len(log_path_') = Size + 1
            /\ log_path_'[Size + 1] = last + 1 /\ \A n \in 1 .. Size : log_path_'[n] = log_path_[n]
        BY <2>3, <3>1, <3>2
      <3>4. Size' = Size + 1
        BY <3>3, LoggerAssumption DEF Size, LoggerAssumption
      <3>5. last' = last + 1
        BY <2>3
      <3>6. ASSUME NEW n \in 1 .. Size' PROVE log_path_'[n] = last' - Size' + n
        <4>1. CASE n \in 1 .. Size
          <5>1. log_path_'[n] = last - Size + n
            BY <1>3, <3>3, <4>1
          <5>2. last - Size = last' - Size'
            BY <1>2, <3>4, <3>5
          <5> QED
            BY <5>1, <5>2
        <4>2. CASE n = Size + 1
          <5>1. log_path_'[n] = last + 1
            BY <3>3, <4>2
          <5>2. last' - Size' + n = last + 1
            BY <1>2, <3>4, <3>5, <4>2
          <5> QED
            BY <5>1, <5>2
        <4> QED
          BY <1>2, <3>4, <4>1, <4>2
      <3>7. Size' <= MaxSize
        BY <1>2, <3>1, <3>4
      <3> QED
        BY <1>4, <2>1, <3>6, <3>7 DEF SizeInv
    <2> QED
      BY <1>8, <2>2, <2>3 DEF Write
  <1>9. ASSUME NEW t \in Threads, RemoveOldest(t) PROVE SizeInv'
    <2>1. /\ pc[t] = "rotate" /\ UNCHANGED <<log_path_, raw1, last>> /\ Size' = Size
          /\ gz' = [gz EXCEPT ![MaxIdx] = NoFile] /\ i' = MaxIdx
      BY <1>9 DEF RemoveOldest, Size
    <2>2. pc'[t] = "shift" /\ \A u \in Threads : u # t => pc'[u] = "idle"
      BY <1>1, <1>6, <1>9 DEF RemoveOldest, Goto, TypeOK
    <2>3. gz'[i' + 1] = NoFile
      BY <1>1, <1>2, <2>1 DEF KeepsAtMostMaxIdx, TypeOK, Archives
    <2>4. Size = MaxSize
      BY <2>1 DEF SizeInv
    <2> QED
      BY <1>2, <1>3, <1>4, <2>1, <2>2, <2>3, <2>4 DEF SizeInv
  <1>10. ASSUME NEW t \in Threads, Shift(t) PROVE SizeInv'
    <2>1. /\ pc[t] = "shift" /\ UNCHANGED <<log_path_, raw1, last, pc>> /\ Size' = Size
          /\ gz' = (IF gz[i] = NoFile THEN gz ELSE [gz EXCEPT ![i + 1] = gz[i], ![i] = NoFile])
          /\ i' = i - 1 /\ i > 0
      BY <1>10 DEF Shift, Size
    <2>2. \A u \in Threads : u # t => pc[u] = "idle"
      BY <1>6, <2>1
    <2>3. gz'[i] = NoFile /\ i' + 1 = i
      <3>1. i \in Archives /\ i + 1 \in Archives /\ i # i + 1
        BY <1>1, <1>2, <2>1 DEF TypeOK, Archives
      <3> QED
        BY <1>1, <1>2, <2>1, <3>1 DEF TypeOK
    <2>4. Size = MaxSize
      BY <2>1 DEF SizeInv
    <2> QED
      BY <1>2, <1>3, <1>4, <2>1, <2>2, <2>3, <2>4 DEF SizeInv
  <1>11. ASSUME NEW t \in Threads, Compress(t) PROVE SizeInv'
    <2>1. pc[t] = "shift" /\ UNCHANGED <<log_path_, raw1, last>> /\ Size' = Size
      BY <1>11 DEF Compress, Size
    <2>2. pc'[t] \in {"remove", "rename"} /\ \A u \in Threads : u # t => pc'[u] = "idle"
      BY <1>1, <1>6, <1>11 DEF Compress, Goto, TypeOK
    <2>3. Size = MaxSize
      BY <2>1 DEF SizeInv
    <2> QED
      BY <1>2, <1>3, <1>4, <2>1, <2>2, <2>3 DEF SizeInv
  <1>12. ASSUME NEW t \in Threads, Retire(t) PROVE SizeInv'
    <2>1. /\ pc[t] \in {"remove", "rename"} /\ raw1' \in {raw1, log_path_} /\ log_path_' = NoFile
          /\ UNCHANGED last /\ Size' = 0
      BY <1>12 DEF Retire, Size
    <2>2. pc'[t] = "open" /\ \A u \in Threads : u # t => pc'[u] = "idle"
      BY <1>1, <1>6, <1>12 DEF Retire, Goto, TypeOK
    <2>3. \E c \in Nat : Elems(raw1') \subseteq c + 1 .. c + MaxSize
      <3>1. CASE raw1' = raw1
        BY <1>4, <3>1
      <3>2. CASE raw1' = log_path_
        <4>1. Size = MaxSize
          BY <2>1 DEF SizeInv
        <4>2. 1 \in 1 .. Size /\ log_path_ \in Seq(1 .. last) /\ Size = Len(log_path_)
          BY <1>2, <4>1 DEF Size
        <4>3. log_path_[1] \in 1 .. last /\ log_path_[1] = last - Size + 1
          BY <1>2, <1>3, <4>2
        <4>4. last - Size \in Nat /\ (last - Size) + MaxSize = last
          BY <1>2, <4>1, <4>3
        <4> QED
          BY <1>2, <3>2, <4>4
      <3> QED
        BY <2>1, <3>1, <3>2
    <2> QED
      BY <1>2, <2>1, <2>2, <2>3 DEF SizeInv
  <1>13. ASSUME NEW t \in Threads, Open(t) PROVE SizeInv'
    <2>1. pc[t] = "open" /\ UNCHANGED <<gz, raw1, i, last>> /\ log_path_ = NoFile
      BY <1>13 DEF Open, SizeInv
    <2>2. pc'[t] = "write" /\ \A u \in Threads : u # t => pc'[u] = "idle"
      BY <1>1, <1>6, <1>13 DEF Open, Goto, TypeOK
    <2>3. log_path_' \in {NoFile, <<>>} /\ Size' = 0
      BY <1>13, <2>1 DEF Open, Size
    <2> QED
      BY <1>2, <1>4, <2>1, <2>2, <2>3 DEF SizeInv
  <1>14. ASSUME NEW t \in Threads, Throw(t) PROVE SizeInv'
    <2>1. UNCHANGED <<files, last>> /\ Size' = Size
      BY <1>14 DEF Throw, Size, files
    <2>2. \A u \in Threads : pc'[u] = "idle"
      BY <1>1, <1>6, <1>14 DEF Throw, Leave, Goto, TypeOK
    <2> QED
      BY <1>3, <1>4, <2>1, <2>2 DEF SizeInv, files
  <1>15. ASSUME Crash PROVE SizeInv'
    <2>1. /\ UNCHANGED <<raw1, last>> /\ \A u \in Threads : pc'[u] = "idle"
          /\ log_path_' = (IF log_path_ = NoFile THEN <<>> ELSE log_path_)
      BY <1>15 DEF Crash
    <2>2. Size' = Size /\ (Size > 0 => log_path_' = log_path_)
      BY <2>1 DEF Size
    <2> QED
      BY <1>2, <1>3, <1>4, <2>1, <2>2 DEF SizeInv
  <1>16. CASE UNCHANGED vars
    BY <1>3, <1>4, <1>16 DEF vars, SizeInv, Size
  <1> QED
    BY <1>7, <1>8, <1>9, <1>10, <1>11, <1>12, <1>13, <1>14, <1>15, <1>16 DEF Next

-----------------------------------------------------------------------------
\* What the count is taken over.
LEMMA PhaseOf ==
  ASSUME IInv, NEW t \in Threads, pc[t] # "idle"
  PROVE  Phase = pc[t] /\ mutex_ = t /\ t # NoThread
  BY LoggerAssumption DEF LoggerAssumption, IInv, Exclusive, Phase

LEMMA OlderMore ==
  ASSUME NEW m \in Nat, NEW n \in Nat, m <= n
  PROVE  Older(m) \subseteq Older(n)
  <1>1. 1 .. m \subseteq 1 .. n
    OBVIOUS
  <1> QED
    BY <1>1 DEF Older

\* A level that misses nothing new still does so after a step.
LEMMA LevelKept ==
  ASSUME IInv, SizeInv, CountInv, NEW m \in Levels, NEW B \in SUBSET Missing(m),
         faults' \in {faults, faults + 1}
  PROVE  Few(B, faults')
  <1>1. last \in Nat /\ faults \in Nat
    BY Numbers DEF IInv
  <1>2. Missing(m) \in SUBSET (1 .. last) /\ Few(Missing(m), faults)
    BY DEF Missing, CountInv
  <1>3. faults' \in Nat /\ faults <= faults'
    BY <1>1
  <1> HIDE DEF Few
  <1> QED
    BY <1>1, <1>2, <1>3, Fewer

\* A failure costs one file.
LEMMA LevelLost ==
  ASSUME IInv, SizeInv, CountInv, NEW m \in Levels, NEW b \in Int, NEW B,
         B \subseteq Missing(m) \cup (b + 1 .. b + MaxSize), faults' = faults + 1
  PROVE  Few(B, faults')
  <1>1. last \in Nat /\ faults \in Nat
    BY Numbers DEF IInv
  <1>2. Missing(m) \in SUBSET (1 .. last) /\ Few(Missing(m), faults)
    BY DEF Missing, CountInv
  <1> QED
    BY <1>1, <1>2, FewMore

\* A rotation that breaks off has moved the archives up by one at most.
LEMMA Interrupted ==
  ASSUME IInv, SizeInv, CountInv, faults' = faults + 1, UNCHANGED <<last, raw1>>, Size' = Size,
         Elems(log_path_)' = Elems(log_path_),
         \A n \in 1 .. MaxIdx : Elems(gz[n]) \subseteq Elems(gz[n])', Phase' = "idle"
  PROVE  CountInv'
  <1>1. /\ last \in Nat /\ Size \in Nat /\ MaxSize \in Nat /\ MaxIdx \in Nat /\ MaxIdx > 0 /\ i \in Nat
        /\ Elems(log_path_) = last - Size + 1 .. last /\ Level(0) = last - Size
        /\ \A m \in Nat : Level(m) \in Int /\ Level(m + 1) = Level(m) - MaxSize
    BY Numbers DEF IInv
  <1>2. Levels' = 0 .. MaxIdx /\ 0 .. MaxIdx - 1 \subseteq Levels
    BY <1>1 DEF Levels, Rotating
  <1>3. SUFFICES ASSUME NEW m \in 0 .. MaxIdx PROVE Few(Missing(m), faults)'
    BY <1>2 DEF CountInv
  <1>4. Cover(m)' = Elems(log_path_)' \cup Elems(raw1) \cup Older(m)'
    BY DEF Cover, Elems
  <1>5. Older(m) \subseteq Older(m)'
    <2>1. 1 .. m \subseteq 1 .. MaxIdx
      BY <1>1
    <2> QED
      BY <2>1 DEF Older
  <1>6. Level(m)' = Level(m)
    BY DEF Level
  <1>7. Missing(m)' = {r \in 1 .. last : r > Level(m) /\ r \notin Cover(m)'}
    BY <1>6 DEF Missing
  <1>8. CASE m = 0
    <2>1. Missing(m)' = {}
      <3>1. SUFFICES ASSUME NEW r \in 1 .. last, r > Level(0) PROVE r \in Elems(log_path_)
        BY <1>4, <1>7, <1>8
      <3> QED
        BY <1>1, <3>1
    <2>2. 0 \in Levels /\ {} \in SUBSET Missing(0)
      BY <1>1, <1>2
    <2>3. Few({}, faults')
      BY <2>2, LevelKept
    <2> QED
      BY <2>1, <2>3 DEF Few
  <1>9. CASE m # 0
    <2>1. PICK k \in Levels : m = k + 1 /\ k \in Nat
      <3>1. m - 1 \in Levels /\ m - 1 \in Nat /\ m = (m - 1) + 1
        BY <1>1, <1>2, <1>9
      <3> QED
        BY <3>1
    <2>2. Level(m) \in Int /\ Level(k) = Level(m) + MaxSize
      <3>1. Level(k) \in Int /\ Level(m) = Level(k) - MaxSize
        BY <1>1, <2>1
      <3> QED
        BY <1>1, <3>1
    <2>3. Cover(k) \subseteq Cover(m)'
      <3>1. Older(k) \subseteq Older(m)
        BY <2>1, OlderMore
      <3>2. Older(IF k <= i THEN k ELSE k + 1) \subseteq Older(m) /\ Older(k + 1) = Older(m)
        BY <2>1, <3>1
      <3>3. Cover(k) \subseteq Elems(log_path_) \cup Elems(raw1) \cup Older(m)
        BY <3>1, <3>2 DEF Cover
      <3> QED
        BY <1>4, <1>5, <3>3
    <2>4. Missing(m)' \subseteq Missing(k) \cup (Level(m) + 1 .. Level(m) + MaxSize)
      <3>1. SUFFICES ASSUME NEW r \in 1 .. last, r > Level(m), r \notin Cover(m)'
                     PROVE  r \in Missing(k) \/ r \in Level(m) + 1 .. Level(m) + MaxSize
        BY <1>7
      <3>2. r \notin Cover(k)
        BY <2>3, <3>1
      <3>3. PICK x \in Int : x = Level(m)
        BY <2>2
      <3>4. r > x + MaxSize \/ r \in x + 1 .. x + MaxSize
        <4>1. r \in Int /\ MaxSize \in Int /\ r > x
          BY <1>1, <3>1, <3>3
        <4> QED
          BY <4>1
      <3> QED
        BY <2>2, <3>2, <3>3, <3>4 DEF Missing
    <2>5. Few(Missing(m)', faults')
      BY <2>2, <2>4, LevelLost
    <2> QED
      BY <2>5 DEF Few
  <1> QED
    BY <1>8, <1>9

LEMMA ThrowCount == ASSUME IInv, SizeInv, CountInv, NEW t \in Threads, Throw(t) PROVE CountInv'
  <1>1. faults' = faults + 1 /\ UNCHANGED <<last, raw1, log_path_, gz>>
    BY DEF Throw, Fault, files
  <1>2. Phase' = "idle"
    BY DEF Throw, Leave, Phase
  <1>3. Size' = Size /\ Elems(log_path_)' = Elems(log_path_)
    BY <1>1 DEF Size, Elems
  <1>4. \A n \in 1 .. MaxIdx : Elems(gz[n]) \subseteq Elems(gz[n])'
    BY <1>1 DEF Elems
  <1> QED
    BY <1>1, <1>2, <1>3, <1>4, Interrupted

LEMMA CrashCount == ASSUME IInv, SizeInv, CountInv, Crash PROVE CountInv'
  <1>1. /\ faults' = faults + 1 /\ UNCHANGED <<last, raw1>>
        /\ log_path_' = (IF log_path_ = NoFile THEN <<>> ELSE log_path_)
    BY DEF Crash, Fault
  <1>2. Phase' = "idle"
    BY DEF Crash, Phase
  <1>3. Size' = Size /\ Elems(log_path_)' = Elems(log_path_)
    <2>1. CASE log_path_ = NoFile
      <3>1. log_path_' = <<>> /\ <<>> # NoFile
        BY <1>1, <2>1, EmptyLog
      <3>2. Elems(log_path_)' = {} /\ Size' = 0
        BY <3>1 DEF Elems, Size
      <3> QED
        BY <2>1, <3>2 DEF Elems, Size
    <2>2. CASE log_path_ # NoFile
      BY <1>1, <2>2 DEF Elems, Size
    <2> QED
      BY <2>1, <2>2
  <1>4. ASSUME NEW n \in 1 .. MaxIdx PROVE Elems(gz[n]) \subseteq Elems(gz[n])'
    <2>1. CASE gz' = gz
      BY <2>1 DEF Elems
    <2>2. CASE gz' # gz
      <3>1. PICK t \in Threads, f \in Truncated : pc[t] = "shift" /\ i = 0 /\ gz' = [gz EXCEPT ![1] = f]
        BY <2>2 DEF Crash
      <3>2. gz[1] = NoFile
        BY <3>1 DEF SizeInv
      <3>3. n # 1 => gz'[n] = gz[n]
        BY <3>1 DEF IInv, TypeOK, Archives
      <3> QED
        BY <3>2, <3>3 DEF Elems
    <2> QED
      BY <2>1, <2>2
  <1> QED
    BY <1>1, <1>2, <1>3, <1>4, Interrupted

\* Outside the rotation only the log grows.
LEMMA QuietCount ==
  ASSUME IInv, SizeInv, CountInv, ~Rotating, ~Rotating', UNCHANGED <<gz, raw1>>,
         last' \in Nat, Size' \in Nat, last' - Size' = last - Size,
         Elems(log_path_) \subseteq Elems(log_path_)',
         \A r \in 1 .. last' : r \in 1 .. last \/ r \in Elems(log_path_)',
         faults' \in {faults, faults + 1}
  PROVE  CountInv'
  <1>1. last \in Nat /\ Size \in Nat /\ MaxSize \in Nat
    BY Numbers DEF IInv
  <1>2. Levels = 0 .. MaxIdx /\ Levels' = 0 .. MaxIdx
    BY DEF Levels
  <1>3. SUFFICES ASSUME NEW m \in Levels PROVE Few(Missing(m), faults)'
    BY <1>2 DEF CountInv
  <1>4. Level(m)' = Level(m)
    BY DEF Level
  <1>5. /\ Cover(m) = Elems(log_path_) \cup Elems(raw1) \cup Older(m)
        /\ Cover(m)' = Elems(log_path_)' \cup Elems(raw1) \cup Older(m)
    BY DEF Cover, Rotating, Elems, Older
  <1>6. Missing(m)' = {r \in 1 .. last' : r > Level(m) /\ r \notin Cover(m)'}
    BY <1>4 DEF Missing
  <1>7. Missing(m)' \in SUBSET Missing(m)
    BY <1>5, <1>6 DEF Missing
  <1>8. Few(Missing(m)', faults')
    BY <1>7, LevelKept
  <1> QED
    BY <1>8 DEF Few

LEMMA LockCount == ASSUME IInv, SizeInv, CountInv, NEW t \in Threads, Lock(t) PROVE CountInv'
  <1>1. UNCHANGED <<log_path_, raw1, gz, last, faults>> /\ mutex_ = NoThread /\ mutex_' = t
    BY DEF Lock, files
  <1>2. Phase = "idle" /\ Phase' \in {"rotate", "write"}
    <2>1. pc'[t] \in {"rotate", "write"}
      BY DEF Lock, Goto, IInv, TypeOK
    <2> QED
      BY <1>1, <2>1, LoggerAssumption DEF Phase, LoggerAssumption
  <1>3. ~Rotating /\ ~Rotating'
    BY <1>2 DEF Rotating
  <1>4. last \in Nat /\ Size \in Nat /\ Size' = Size /\ Elems(log_path_)' = Elems(log_path_)
    BY <1>1, Numbers DEF IInv, Size, Elems
  <1> QED
    BY <1>1, <1>3, <1>4, QuietCount

LEMMA WriteCount == ASSUME IInv, SizeInv, CountInv, NEW t \in Threads, Write(t) PROVE CountInv'
  <1>1. UNCHANGED <<raw1, gz>> /\ pc[t] = "write" /\ faults' \in {faults, faults + 1}
    BY DEF Write, Fault
  <1>2. ~Rotating /\ ~Rotating'
    <2>1. Phase = "write" /\ Phase' = "idle"
      BY <1>1, PhaseOf DEF Write, Leave, Phase
    <2> QED
      BY <2>1 DEF Rotating
  <1>3. last \in Nat /\ Size \in Nat /\ (log_path_ # NoFile => log_path_ \in Seq(1 .. last) /\ Size = Len(log_path_))
    BY Numbers DEF IInv
  <1>4. CASE UNCHANGED <<log_path_, last>>
    <2>1. Size' = Size /\ Elems(log_path_)' = Elems(log_path_)
      BY <1>4 DEF Size, Elems
    <2> QED
      BY <1>1, <1>2, <1>3, <1>4, <2>1, QuietCount
  <1>5. CASE log_path_' = Append(log_path_, last + 1) /\ last' = last + 1 /\ file_stream_ = "good"
    <2>1. log_path_ # NoFile /\ log_path_ \in Seq(1 .. last) /\ Size = Len(log_path_)
      BY <1>3, <1>5 DEF IInv, Present
    <2>2. log_path_ \in Seq(Nat) /\ last + 1 \in Nat
      BY <1>3, <2>1
    <2>3. /\ log_path_' \in Seq(Nat) /\ Len(log_path_') = Size + 1
          /\ log_path_'[Size + 1] = last + 1 /\ \A n \in 1 .. Size : log_path_'[n] = log_path_[n]
      BY <1>5, <2>1, <2>2
    <2>4. log_path_' # NoFile /\ Size' = Size + 1
      BY <2>3, LoggerAssumption DEF Size, LoggerAssumption
    <2>5. /\ Elems(log_path_) = {log_path_[n] : n \in 1 .. Size}
          /\ Elems(log_path_)' = {log_path_'[n] : n \in 1 .. Size + 1}
      BY <2>1, <2>3, <2>4 DEF Elems
    <2>6. Elems(log_path_) \subseteq Elems(log_path_)' /\ last + 1 \in Elems(log_path_)'
      <3>1. Size + 1 \in 1 .. Size + 1 /\ 1 .. Size \subseteq 1 .. Size + 1
        BY <1>3
      <3> QED
        BY <2>3, <2>5, <3>1
    <2>7. last' = last + 1 /\ last' \in Nat /\ Size' \in Nat /\ last' - Size' = last - Size
      BY <1>3, <1>5, <2>4
    <2>8. \A r \in 1 .. last' : r \in 1 .. last \/ r \in Elems(log_path_)'
      BY <1>3, <2>6, <2>7
    <2> QED
      BY <1>1, <1>2, <2>6, <2>7, <2>8, QuietCount
  <1> QED
    BY <1>4, <1>5 DEF Write

LEMMA OpenCount == ASSUME IInv, SizeInv, CountInv, NEW t \in Threads, Open(t) PROVE CountInv'
  <1>1. /\ UNCHANGED <<raw1, gz, last, mutex_>> /\ pc[t] = "open" /\ faults' \in {faults, faults + 1}
        /\ log_path_ = NoFile /\ log_path_' \in {NoFile, <<>>}
    BY DEF Open, Fault, SizeInv
  <1>2. ~Rotating /\ ~Rotating'
    <2>1. Phase = "open" /\ mutex_ = t /\ t # NoThread /\ pc'[t] = "write"
      BY <1>1, PhaseOf DEF Open, Goto, IInv, TypeOK
    <2> QED
      BY <1>1, <2>1 DEF Rotating, Phase
  <1>3. last \in Nat /\ Size = 0 /\ Size' = 0 /\ Elems(log_path_) = {}
    BY <1>1, Numbers DEF IInv, Size, Elems
  <1> QED
    BY <1>1, <1>2, <1>3, QuietCount

LEMMA StutterCount == ASSUME IInv, SizeInv, CountInv, UNCHANGED vars PROVE CountInv'
  BY DEF vars, CountInv, Levels, Rotating, Phase, Few, Missing, Level, Size, Cover, Older, Elems

-----------------------------------------------------------------------------
\* The oldest archive goes: the levels that are left do not look for it.
LEMMA RemoveCount == ASSUME IInv, SizeInv, CountInv, NEW t \in Threads, RemoveOldest(t) PROVE CountInv'
  <1>1. /\ UNCHANGED <<log_path_, raw1, last, faults, mutex_>> /\ pc[t] = "rotate" /\ i' = MaxIdx
        /\ gz' = [gz EXCEPT ![MaxIdx] = NoFile]
    BY DEF RemoveOldest
  <1>2. last \in Nat /\ faults \in Nat /\ MaxIdx \in Nat /\ MaxIdx > 0
    BY Numbers DEF IInv
  <1>3. Phase = "rotate" /\ Phase' = "shift"
    <2>1. Phase = "rotate" /\ mutex_ = t /\ t # NoThread /\ pc'[t] = "shift"
      BY <1>1, PhaseOf DEF RemoveOldest, Goto, IInv, TypeOK
    <2> QED
      BY <1>1, <2>1 DEF Phase
  <1>4. Levels = 0 .. MaxIdx /\ Levels' = 0 .. MaxIdx - 1
    BY <1>3 DEF Levels, Rotating
  <1>5. SUFFICES ASSUME NEW m \in 0 .. MaxIdx - 1 PROVE Few(Missing(m), faults)'
    BY <1>4 DEF CountInv
  <1>6. Level(m)' = Level(m)
    BY <1>1 DEF Level, Size
  <1>7. Older(m)' = Older(m)
    <2>1. \A n \in 1 .. m : gz'[n] = gz[n]
      <3>1. \A n \in 1 .. m : n \in Archives /\ n # MaxIdx
        BY <1>2 DEF Archives
      <3> QED
        BY <1>1, <3>1 DEF IInv, TypeOK
    <2> QED
      BY <2>1 DEF Older, Elems
  <1>8. /\ Cover(m) = Elems(log_path_) \cup Elems(raw1) \cup Older(m)
        /\ Cover(m)' = Elems(log_path_) \cup Elems(raw1) \cup Older(m)
    <2>1. m <= i'
      BY <1>1, <1>2
    <2>2. Elems(log_path_)' = Elems(log_path_) /\ Elems(raw1)' = Elems(raw1)
      BY <1>1 DEF Elems
    <2> QED
      BY <1>3, <1>7, <2>1, <2>2 DEF Cover
  <1>9. Missing(m)' \in SUBSET Missing(m)
    BY <1>1, <1>6, <1>8 DEF Missing
  <1>10. m \in Levels
    BY <1>2, <1>4
  <1>11. Few(Missing(m)', faults')
    BY <1>1, <1>9, <1>10, LevelKept
  <1> QED
    BY <1>11 DEF Few

\* An archive moves into the gap above it.
LEMMA ShiftCount == ASSUME IInv, SizeInv, CountInv, NEW t \in Threads, Shift(t) PROVE CountInv'
  <1>1. /\ UNCHANGED <<log_path_, raw1, last, faults, mutex_, pc>> /\ pc[t] = "shift" /\ i' = i - 1 /\ i > 0
        /\ gz' = (IF gz[i] = NoFile THEN gz ELSE [gz EXCEPT ![i + 1] = gz[i], ![i] = NoFile])
    BY DEF Shift
  <1>2. last \in Nat /\ faults \in Nat /\ MaxIdx \in Nat /\ MaxIdx > 0 /\ i \in 1 .. MaxIdx
    BY <1>1, Numbers DEF IInv, TypeOK
  <1>3. Phase = "shift" /\ Phase' = "shift"
    BY <1>1, PhaseOf DEF Phase
  <1>4. Levels = 0 .. MaxIdx - 1 /\ Levels' = 0 .. MaxIdx - 1
    BY <1>3 DEF Levels, Rotating
  <1>5. SUFFICES ASSUME NEW m \in 0 .. MaxIdx - 1 PROVE Few(Missing(m), faults)'
    BY <1>4 DEF CountInv
  <1>6. Level(m)' = Level(m)
    BY <1>1 DEF Level, Size
  <1>7. gz[i + 1] = NoFile
    BY <1>1 DEF SizeInv
  <1>8. /\ gz'[i + 1] = gz[i] /\ gz'[i] = NoFile
        /\ \A n \in Archives : n # i /\ n # i + 1 => gz'[n] = gz[n]
    <2>1. i \in Archives /\ i + 1 \in Archives /\ i # i + 1 /\ gz \in [Archives -> File]
      BY <1>2 DEF IInv, TypeOK, Archives
    <2> QED
      BY <1>1, <1>7, <2>1
  <1>9. Older(IF m <= i THEN m ELSE m + 1) \subseteq Older(IF m <= i THEN m ELSE m + 1)'
    <2>1. ASSUME NEW n \in 1 .. (IF m <= i THEN m ELSE m + 1), NEW r \in Elems(gz[n])
          PROVE  \E k \in 1 .. (IF m <= i' THEN m ELSE m + 1) : r \in Elems(gz'[k])
      <3>1. n # i + 1
        BY <1>7, <2>1 DEF Elems
      <3>2. CASE n = i
        <4>1. i + 1 \in 1 .. (IF m <= i' THEN m ELSE m + 1)
          BY <1>1, <1>2, <3>2
        <4>2. Elems(gz'[i + 1]) = Elems(gz[n])
          BY <1>8, <3>2
        <4> QED
          BY <2>1, <4>1, <4>2
      <3>3. CASE n # i
        <4>1. n \in Archives /\ n \in 1 .. (IF m <= i' THEN m ELSE m + 1)
          BY <1>1, <1>2, <3>3 DEF Archives
        <4>2. gz'[n] = gz[n]
          BY <1>8, <3>1, <3>3, <4>1
        <4> QED
          BY <2>1, <4>1, <4>2
      <3> QED
        BY <3>2, <3>3
    <2>2. Older(IF m <= i THEN m ELSE m + 1)' = UNION {Elems(gz'[k]) : k \in 1 .. (IF m <= i' THEN m ELSE m + 1)}
      BY DEF Older, Elems
    <2> QED
      BY <2>1, <2>2 DEF Older
  <1>10. Cover(m) \subseteq Cover(m)'
    <2>1. Elems(log_path_)' = Elems(log_path_) /\ Elems(raw1)' = Elems(raw1)
      BY <1>1 DEF Elems
    <2>2. /\ Cover(m) = Elems(log_path_) \cup Elems(raw1) \cup Older(IF m <= i THEN m ELSE m + 1)
          /\ Cover(m)' = Elems(log_path_)' \cup Elems(raw1)' \cup Older(IF m <= i THEN m ELSE m + 1)'
      BY <1>3 DEF Cover
    <2> QED
      BY <1>9, <2>1, <2>2
  <1>11. Missing(m)' \in SUBSET Missing(m)
    BY <1>1, <1>6, <1>10 DEF Missing
  <1>12. Few(Missing(m)', faults')
    BY <1>1, <1>4, <1>11, LevelKept
  <1> QED
    BY <1>12 DEF Few

\* The log goes into the gap, or some of it, or it will take the place of .1.
LEMMA CompressCount == ASSUME IInv, SizeInv, CountInv, NEW t \in Threads, Compress(t) PROVE CountInv'
  <1>1. /\ UNCHANGED <<log_path_, raw1, last, mutex_, i>> /\ pc[t] = "shift" /\ i = 0
        /\ \/ gz' = [gz EXCEPT ![1] = log_path_] /\ Goto(t, "remove") /\ faults' = faults
           \/ /\ faults' = faults + 1 /\ (Goto(t, "remove") \/ Goto(t, "rename"))
              /\ (gz' = gz \/ \E f \in Truncated : gz' = [gz EXCEPT ![1] = f])
    <2>1. UNCHANGED <<log_path_, raw1, last, mutex_, i>> /\ pc[t] = "shift" /\ i = 0
      BY DEF Compress
    <2>2. CASE gz' = [gz EXCEPT ![1] = log_path_] /\ Goto(t, "remove") /\ UNCHANGED faults
      BY <2>1, <2>2
    <2>3. CASE Fault /\ Goto(t, "rename") /\ gz' \in {gz} \cup {[gz EXCEPT ![1] = f] : f \in Truncated}
      BY <2>1, <2>3 DEF Fault
    <2>4. CASE Fault /\ Goto(t, "remove") /\ \E f \in Truncated : gz' = [gz EXCEPT ![1] = f]
      BY <2>1, <2>4 DEF Fault
    <2> QED
      BY <2>2, <2>3, <2>4 DEF Compress
  <1>2. /\ last \in Nat /\ faults \in Nat /\ Size \in Nat /\ MaxSize \in Nat /\ MaxIdx \in Nat /\ MaxIdx > 0
        /\ Elems(log_path_) = last - Size + 1 .. last
    BY Numbers DEF IInv
  <1>3. Phase = "shift" /\ mutex_ = t /\ t # NoThread /\ Size = MaxSize
    BY <1>1, PhaseOf DEF SizeInv
  <1>4. Phase' = pc'[t] /\ pc'[t] \in {"remove", "rename"}
    BY <1>1, <1>3 DEF Phase, Goto, IInv, TypeOK
  <1>5. Levels = 0 .. MaxIdx - 1 /\ Levels' = 0 .. MaxIdx - 1
    BY <1>3, <1>4 DEF Levels, Rotating
  <1>6. SUFFICES ASSUME NEW m \in 0 .. MaxIdx - 1 PROVE Few(Missing(m), faults)'
    BY <1>5 DEF CountInv
  <1>7. Level(m)' = Level(m) /\ m \in Nat
    BY <1>1 DEF Level, Size
  <1>8. Older(IF m <= i THEN m ELSE m + 1) \subseteq Older(m + 1)'
    <2>1. SUFFICES ASSUME NEW n \in 1 .. m + 1, NEW r \in Elems(gz[n]) PROVE r \in Elems(gz[n])'
      <3>1. 1 .. (IF m <= i THEN m ELSE m + 1) \subseteq 1 .. m + 1
        BY <1>7
      <3> QED
        BY <3>1 DEF Older
    <2>2. n # 1
      <3>1. gz[0 + 1] = NoFile /\ 0 + 1 = 1
        BY <1>1 DEF SizeInv
      <3> QED
        BY <2>1, <3>1 DEF Elems
    <2>3. gz'[n] = gz[n]
      BY <1>1, <1>2, <2>2 DEF IInv, TypeOK, Archives
    <2> QED
      BY <2>1, <2>3 DEF Elems
  <1>9. Cover(m) = Elems(log_path_) \cup Elems(raw1) \cup Older(IF m <= i THEN m ELSE m + 1)
    BY <1>3 DEF Cover
  <1>10. Elems(log_path_)' = Elems(log_path_) /\ Elems(raw1)' = Elems(raw1)
    BY <1>1 DEF Elems
  <1>11. Missing(m)' = {r \in 1 .. last : r > Level(m) /\ r \notin Cover(m)'}
    BY <1>1, <1>7 DEF Missing
  <1>12. CASE gz' = [gz EXCEPT ![1] = log_path_] /\ Goto(t, "remove") /\ faults' = faults
    <2>1. Cover(m)' = Elems(raw1) \cup Older(m + 1)'
      <3>1. Phase' = "remove"
        BY <1>3, <1>4, <1>12 DEF Goto, IInv, TypeOK
      <3> QED
        BY <1>10, <3>1 DEF Cover
    <2>2. Elems(log_path_) \subseteq Older(m + 1)'
      <3>1. gz'[1] = log_path_ /\ 1 \in 1 .. m + 1
        BY <1>2, <1>12 DEF IInv, TypeOK, Archives
      <3> QED
        BY <3>1 DEF Older, Elems
    <2>3. Missing(m)' \in SUBSET Missing(m)
      BY <1>8, <1>9, <1>11, <2>1, <2>2 DEF Missing
    <2>4. Few(Missing(m)', faults')
      BY <1>5, <1>12, <2>3, LevelKept
    <2> QED
      BY <2>4 DEF Few
  <1>13. ASSUME faults' = faults + 1 PROVE Few(Missing(m), faults)'
    <2>1. PICK b \in Int : Cover(m) \subseteq Cover(m)' \cup (b + 1 .. b + MaxSize)
      <3>1. CASE Phase' = "remove"
        <4>1. Cover(m)' = Elems(raw1) \cup Older(m + 1)'
          BY <1>10, <3>1 DEF Cover
        <4>2. last - Size \in Int /\ Elems(log_path_) = (last - Size) + 1 .. (last - Size) + MaxSize
          <5>1. (last - Size) + MaxSize = last /\ last - Size \in Int
            BY <1>2, <1>3
          <5> QED
            BY <1>2, <5>1
        <4> QED
          BY <1>8, <1>9, <4>1, <4>2
      <3>2. CASE Phase' = "rename"
        <4>1. Cover(m)' = Elems(log_path_) \cup Older(m + 1)'
          BY <1>10, <3>2 DEF Cover
        <4>2. PICK b \in Nat : Elems(raw1) \subseteq b + 1 .. b + MaxSize
          BY DEF SizeInv
        <4>3. b \in Int
          OBVIOUS
        <4> QED
          BY <1>8, <1>9, <4>1, <4>2, <4>3
      <3> QED
        BY <1>4, <3>1, <3>2
    <2>2. Missing(m)' \subseteq Missing(m) \cup (b + 1 .. b + MaxSize)
      BY <1>11, <2>1 DEF Missing
    <2>3. Few(Missing(m)', faults')
      BY <1>5, <1>13, <2>2, LevelLost
    <2> QED
      BY <2>3 DEF Few
  <1> QED
    BY <1>1, <1>12, <1>13

\* The log makes room for a new one, and every level moves up.
LEMMA RetireCount == ASSUME IInv, SizeInv, CountInv, NEW t \in Threads, Retire(t) PROVE CountInv'
  <1>1. /\ UNCHANGED <<gz, last, faults, mutex_>> /\ log_path_' = NoFile
        /\ (pc[t] = "remove" /\ raw1' = raw1) \/ (pc[t] = "rename" /\ raw1' = log_path_)
    BY DEF Retire
  <1>2. /\ last \in Nat /\ faults \in Nat /\ MaxIdx \in Nat /\ MaxIdx > 0 /\ MaxSize \in Nat
        /\ Elems(log_path_) = last - Size + 1 .. last /\ Size = MaxSize
    BY <1>1, Numbers DEF IInv, SizeInv
  <1>3. Phase = pc[t] /\ Phase' = "open"
    <2>1. Phase = pc[t] /\ mutex_ = t /\ t # NoThread /\ pc'[t] = "open"
      BY <1>1, PhaseOf DEF Retire, Goto, IInv, TypeOK
    <2> QED
      BY <1>1, <2>1 DEF Phase
  <1>4. Levels = 0 .. MaxIdx - 1 /\ Levels' = 0 .. MaxIdx
    BY <1>1, <1>3 DEF Levels, Rotating
  <1>5. SUFFICES ASSUME NEW m \in 0 .. MaxIdx PROVE Few(Missing(m), faults)'
    BY <1>4 DEF CountInv
  <1>6. Size' = 0 /\ Elems(log_path_)' = {}
    BY <1>1 DEF Size, Elems
  <1>7. Level(m)' = last - m * MaxSize
    BY <1>1, <1>2, <1>6 DEF Level
  <1>8. Missing(m)' = {r \in 1 .. last : r > last - m * MaxSize /\ r \notin Cover(m)'}
    BY <1>1, <1>7 DEF Missing
  <1>9. CASE m = 0
    <2>1. Missing(m)' = {}
      <3>1. last - m * MaxSize = last
        BY <1>2, <1>9
      <3> QED
        BY <1>2, <1>8, <3>1
    <2>2. 0 \in Levels /\ {} \in SUBSET Missing(0)
      BY <1>2, <1>4
    <2>3. Few({}, faults')
      BY <1>1, <2>2, LevelKept
    <2> QED
      BY <2>1, <2>3 DEF Few
  <1>10. CASE m # 0
    <2>1. PICK k \in Levels : m = k + 1 /\ k \in Nat
      <3>1. m - 1 \in Levels /\ m - 1 \in Nat /\ m = (m - 1) + 1
        BY <1>2, <1>4, <1>10
      <3> QED
        BY <3>1
    <2>2. Level(k) = last - m * MaxSize
      <3>1. m * MaxSize = k * MaxSize + MaxSize /\ k * MaxSize \in Int
        BY <1>2, <2>1
      <3> QED
        BY <1>2, <3>1 DEF Level
    <2>3. Cover(k) \subseteq Cover(m)'
      <3>1. Cover(m)' = Elems(raw1)' \cup Older(m)
        BY <1>1, <1>3, <1>6 DEF Cover, Older, Elems
      <3>2. CASE pc[t] = "remove" /\ raw1' = raw1
        <4>1. Cover(k) = Elems(raw1) \cup Older(m) /\ Elems(raw1)' = Elems(raw1)
          BY <1>3, <2>1, <3>2 DEF Cover, Elems
        <4> QED
          BY <3>1, <4>1
      <3>3. CASE pc[t] = "rename" /\ raw1' = log_path_
        <4>1. Cover(k) = Elems(log_path_) \cup Older(m) /\ Elems(raw1)' = Elems(log_path_)
          BY <1>3, <2>1, <3>3 DEF Cover, Elems
        <4> QED
          BY <3>1, <4>1
      <3> QED
        BY <1>1, <3>2, <3>3
    <2>4. Missing(m)' \in SUBSET Missing(k)
      BY <1>8, <2>2, <2>3 DEF Missing
    <2>5. Few(Missing(m)', faults')
      BY <1>1, <2>1, <2>4, LevelKept
    <2> QED
      BY <2>5 DEF Few
  <1> QED
    BY <1>9, <1>10

\* At the highest level the records that are looked for are those of LossBounded.
LEMMA CountBounds == ASSUME IInv, SizeInv, CountInv PROVE LossBounded
  <1>1. /\ last \in Nat /\ faults \in Nat /\ Size \in Nat /\ MaxIdx \in Nat /\ MaxIdx > 0 /\ MaxSize \in Nat
        /\ i \in Nat
    BY Numbers DEF IInv
  <1> DEFINE Lost == {r \in 1 .. last : r > last - MaxIdx * MaxSize} \ OnDisk
  <1>2. PICK m \in Levels : m \in Nat /\ Level(m) <= last - MaxIdx * MaxSize /\ Cover(m) \subseteq OnDisk
    <2>1. \A n \in Nat : n <= MaxIdx => Older(n) \subseteq OnDisk
      <3>1. \A n \in Nat : n <= MaxIdx => 1 .. n \subseteq Archives
        BY <1>1 DEF Archives
      <3> QED
        BY <3>1 DEF Older, OnDisk
    <2>2. Elems(log_path_) \subseteq OnDisk /\ Elems(raw1) \subseteq OnDisk
      BY DEF OnDisk
    <2>3. CASE Rotating
      <3>1. MaxIdx - 1 \in Levels /\ MaxIdx - 1 \in Nat
        BY <1>1, <2>3 DEF Levels
      <3>2. Cover(MaxIdx - 1) \subseteq OnDisk
        <4>1. (MaxIdx - 1) + 1 = MaxIdx /\ MaxIdx - 1 <= MaxIdx
          BY <1>1
        <4>2. /\ Older(MaxIdx - 1) \subseteq OnDisk /\ Older((MaxIdx - 1) + 1) \subseteq OnDisk
          BY <1>1, <2>1, <3>1, <4>1
        <4> QED
          BY <2>2, <4>2 DEF Cover
      <3>3. Level(MaxIdx - 1) = last - MaxIdx * MaxSize
        <4>1. Size = MaxSize
          <5>1. mutex_ \in Threads /\ pc[mutex_] \in {"shift", "remove", "rename"}
            BY <2>3 DEF Rotating, Phase, IInv, TypeOK
          <5> QED
            BY <5>1 DEF SizeInv
        <4>2. (MaxIdx - 1) * MaxSize = MaxIdx * MaxSize - MaxSize /\ MaxIdx * MaxSize \in Int
          BY <1>1
        <4> QED
          BY <1>1, <4>1, <4>2 DEF Level
      <3>4. last - MaxIdx * MaxSize \in Int
        BY <1>1
      <3> QED
        BY <3>1, <3>2, <3>3, <3>4
    <2>4. CASE ~Rotating
      <3>1. MaxIdx \in Levels
        BY <1>1, <2>4 DEF Levels
      <3>2. Cover(MaxIdx) \subseteq OnDisk
        <4>1. Older(MaxIdx) \subseteq OnDisk
          BY <1>1, <2>1
        <4> QED
          BY <2>2, <2>4, <4>1 DEF Cover, Rotating
      <3>3. Level(MaxIdx) <= last - MaxIdx * MaxSize
        <4>1. MaxIdx * MaxSize \in Int
          BY <1>1
        <4> QED
          BY <1>1, <4>1 DEF Level
      <3> QED
        BY <1>1, <3>1, <3>2, <3>3
    <2> QED
      BY <2>3, <2>4
  <1>3. Lost \in SUBSET Missing(m)
    <2>1. SUFFICES ASSUME NEW r \in 1 .. last, r > last - MaxIdx * MaxSize, r \notin OnDisk
                   PROVE  r > Level(m) /\ r \notin Cover(m)
      BY DEF Missing
    <2>2. Level(m) \in Int /\ MaxIdx * MaxSize \in Int
      BY <1>1, <1>2, Numbers DEF IInv
    <2> QED
      BY <1>1, <1>2, <2>1, <2>2
  <1>4. Missing(m) \in SUBSET (1 .. last) /\ Few(Missing(m), faults) /\ faults <= faults
    BY <1>1 DEF Missing, CountInv
  <1> HIDE DEF Lost
  <1>5. Few(Lost, faults)
    BY <1>1, <1>3, <1>4, Fewer
  <1> QED
    BY <1>5 DEF Few, LossBounded, Lost

LEMMA InitCount == Init => SizeInv /\ CountInv
  <1> SUFFICES ASSUME Init PROVE SizeInv /\ CountInv
    OBVIOUS
  <1>1. /\ log_path_ = <<>> /\ raw1 = NoFile /\ last = 0 /\ faults = 0
        /\ \A t \in Threads : pc[t] = "idle"
    BY DEF Init
  <1>2. MaxSize \in Nat /\ MaxSize > 0 /\ MaxIdx \in Nat
    BY LoggerAssumption DEF LoggerAssumption
  <1>3. Size = 0
    BY <1>1, EmptyLog DEF Size
  <1>4. SizeInv
    BY <1>1, <1>2, <1>3 DEF SizeInv, Elems
  <1>5. ASSUME NEW m \in Levels PROVE Few(Missing(m), faults)
    <2>1. Missing(m) = {}
      BY <1>1 DEF Missing
    <2>2. Cardinality({}) = 0 /\ 0 * MaxSize = 0
      BY <1>2, FS_EmptySet
    <2> QED
      BY <1>1, <2>1, <2>2 DEF Few
  <1> QED
    BY <1>4, <1>5 DEF CountInv

-----------------------------------------------------------------------------
\* Every failing call of a rotation and every crash loses at most one file's worth of the
\* newest MaxIdx * MaxSize records, wherever in the rotation it happens; without failures all
\* of them are in some file.
THEOREM LossesBounded == Spec => []LossBounded
  <1>1. IInv /\ SizeInv /\ CountInv /\ [Next]_vars => SizeInv' /\ CountInv'
    BY NextSize, LockCount, WriteCount, RemoveCount, ShiftCount, CompressCount, RetireCount, OpenCount,
       ThrowCount, CrashCount, StutterCount DEF Next
  <1> QED
    BY InitCount, <1>1, LoggerInvariant, CountBounds, PTL DEF Spec
=============================================================================
