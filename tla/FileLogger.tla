---------------------------- MODULE FileLogger ----------------------------
(***************************************************************************)
(* FileLogger (util/logger.cpp): threads append records to the active log  *)
(* under mutex_; a full log is compressed into .1.gz after the older       *)
(* archives .1.gz ... .max.gz have moved up by one.  The files outlive the *)
(* process, which may die between any two calls on the file system; a call *)
(* on the file system may throw, a stream may go bad, and zlib may fail,   *)
(* also at gzclose(), whose result is not looked at.  A file is the        *)
(* sequence of the numbers of its records; a record has size 1.            *)
(***************************************************************************)
EXTENDS Integers, Sequences, FiniteSets

CONSTANTS
    Threads,      \* threads that call log()
    NoThread,     \* mutex_ is not locked
    NoFile,       \* a file that does not exist
    MaxSize,      \* max_file_sz_
    MaxIdx,       \* max_log_file_idx_
    MaxRecords,   \* bound: records written
    MaxFaults     \* bound: failing calls and crashes

ASSUME LoggerAssumption ==
    /\ NoThread \notin Threads /\ NoFile \notin Seq(Nat)
    /\ MaxSize \in Nat \ {0} /\ MaxIdx \in Nat \ {0}
    /\ MaxRecords \in Nat /\ MaxFaults \in Nat

VARIABLES
    log_path_,    \* the active log
    gz,           \* gz[i]: log_path_.i.gz
    raw1,         \* log_path_.1
    file_stream_, \* "good", "bad" (failed or never opened) or "closed"
    mutex_,       \* the thread that has the mutex
    pc,           \* where each thread is in log() and rotateLogs()
    i,            \* loop counter of rotateLogs()
    last,         \* the number of the last record written
    faults        \* failing calls and crashes so far

files == <<log_path_, gz, raw1>>
vars == <<log_path_, gz, raw1, file_stream_, mutex_, pc, i, last, faults>>

Init ==
    /\ log_path_ = <<>> /\ gz = [n \in 1 .. MaxIdx + 1 |-> NoFile]
    /\ raw1 = NoFile /\ file_stream_ = "good"
    /\ mutex_ = NoThread /\ pc = [t \in Threads |-> "idle"]
    /\ i = 0 /\ last = 0 /\ faults = 0

Goto(t, l) == pc' = [pc EXCEPT ![t] = l]

\* lock_guard gives the mutex back when log() returns or throws.
Leave(t) == Goto(t, "idle") /\ mutex_' = NoThread

Fault == faults < MaxFaults /\ faults' = faults + 1

\* A bug: log() without the lock_guard.
LockUnguarded(t) ==
    /\ pc[t] = "idle" /\ last < MaxRecords /\ mutex_' = t
    /\ Goto(t, IF log_path_ # NoFile /\ Len(log_path_) >= MaxSize
                 THEN "rotate" ELSE "write")
    /\ UNCHANGED <<files, file_stream_, i, last, faults>>

\* log(): lock, and find out whether the log is full.
Lock(t) ==
    /\ pc[t] = "idle" /\ last < MaxRecords
    /\ mutex_ = NoThread /\ mutex_' = t
    /\ Goto(t, IF log_path_ # NoFile /\ Len(log_path_) >= MaxSize
                 THEN "rotate" ELSE "write")
    /\ UNCHANGED <<files, file_stream_, i, last, faults>>

\* The record goes into the stream, which drops it without a word when it is
\* not good; a write that fails makes it bad.
Write(t) ==
    /\ pc[t] = "write" /\ Leave(t)
    /\ \/ /\ file_stream_ = "good"
          /\ log_path_' = Append(log_path_, last + 1) /\ last' = last + 1
          /\ UNCHANGED <<file_stream_, faults>>
       \/ file_stream_ # "good" /\ UNCHANGED <<log_path_, last, file_stream_, faults>>
       \/ Fault /\ file_stream_' = "bad" /\ UNCHANGED <<log_path_, last>>
    /\ UNCHANGED <<gz, raw1, i>>

\* A bug: the loop starts past the oldest archive.
LoopFromTooHigh(t) ==
    /\ pc[t] = "rotate" /\ file_stream_' = "closed"
    /\ gz' = [gz EXCEPT ![MaxIdx] = NoFile]
    /\ Goto(t, "shift") /\ i' = MaxIdx + 1
    /\ UNCHANGED <<log_path_, raw1, mutex_, last, faults>>

\* A bug: the oldest archive is not deleted.
KeepOldest(t) ==
    /\ pc[t] = "rotate" /\ file_stream_' = "closed" /\ Goto(t, "shift") /\ i' = MaxIdx
    /\ UNCHANGED <<files, mutex_, last, faults>>

\* rotateLogs(): close the stream, delete the oldest archive.
RemoveOldest(t) ==
    /\ pc[t] = "rotate" /\ file_stream_' = "closed"
    /\ gz' = [gz EXCEPT ![MaxIdx] = NoFile]
    /\ Goto(t, "shift") /\ i' = MaxIdx
    /\ UNCHANGED <<log_path_, raw1, mutex_, last, faults>>

\* One turn of the loop: .i.gz becomes .(i+1).gz.
Shift(t) ==
    /\ pc[t] = "shift" /\ i > 0 /\ i' = i - 1
    /\ gz' = IF gz[i] = NoFile THEN gz ELSE [gz EXCEPT ![i + 1] = gz[i], ![i] = NoFile]
    /\ UNCHANGED <<log_path_, raw1, file_stream_, mutex_, pc, last, faults>>

\* What a compression that breaks off leaves: nothing, or a part of the log.
Truncated == {SubSeq(log_path_, 1, n) : n \in 0 .. Len(log_path_) - 1}

\* A bug: the loop reads the next buffer before it writes the first.
CompressDropsFirst(t) ==
    /\ pc[t] = "shift" /\ i = 0
    /\ gz' = [gz EXCEPT ![1] = Tail(log_path_)]
    /\ Goto(t, "remove")
    /\ UNCHANGED <<log_path_, raw1, file_stream_, mutex_, i, last, faults>>

\* compress_file_gzip(log_path_, .1.gz): all of it; a failure of open, gzopen
\* or gzwrite, which is reported; or one of gzclose, which is not.
Compress(t) ==
    /\ pc[t] = "shift" /\ i = 0
    /\ \/ /\ gz' = [gz EXCEPT ![1] = log_path_]
          /\ Goto(t, "remove") /\ UNCHANGED faults
       \/ /\ Fault /\ Goto(t, "rename")
          /\ gz' \in {gz} \cup {[gz EXCEPT ![1] = f] : f \in Truncated}
       \/ /\ Fault /\ Goto(t, "remove")
          /\ \E f \in Truncated : gz' = [gz EXCEPT ![1] = f]
    /\ UNCHANGED <<log_path_, raw1, file_stream_, mutex_, i, last>>

\* The log is deleted when it was compressed, else renamed to .1.
Retire(t) ==
    /\ \/ pc[t] = "remove" /\ UNCHANGED raw1
       \/ pc[t] = "rename" /\ raw1' = log_path_
    /\ log_path_' = NoFile /\ Goto(t, "open")
    /\ UNCHANGED <<gz, file_stream_, mutex_, i, last, faults>>

\* open(): a fresh log; nobody looks whether the stream could be opened.
Open(t) ==
    /\ pc[t] = "open" /\ Goto(t, "write")
    /\ \/ log_path_' = <<>> /\ file_stream_' = "good" /\ UNCHANGED faults
       \/ Fault /\ file_stream_' = "bad" /\ UNCHANGED log_path_
    /\ UNCHANGED <<gz, raw1, mutex_, i, last>>

\* fs::remove or fs::rename throws out of log(); the stream stays closed.
Throw(t) ==
    /\ Fault /\ Leave(t)
    /\ \/ pc[t] = "rotate" /\ gz[MaxIdx] # NoFile
       \/ pc[t] = "shift" /\ i > 0 /\ gz[i] # NoFile
       \/ pc[t] \in {"remove", "rename"}
    /\ file_stream_' = "closed"
    /\ UNCHANGED <<files, i, last>>

\* The process dies, perhaps within the compression, and starts again.
Crash ==
    /\ Fault
    /\ gz' \in IF i = 0 /\ \E t \in Threads : pc[t] = "shift"
                 THEN {gz} \cup {[gz EXCEPT ![1] = f] : f \in Truncated} ELSE {gz}
    /\ log_path_' = (IF log_path_ = NoFile THEN <<>> ELSE log_path_)
    /\ file_stream_' = "good" /\ mutex_' = NoThread
    /\ pc' = [t \in Threads |-> "idle"]
    /\ UNCHANGED <<raw1, i, last>>

Next ==
    \/ \E t \in Threads :
         \/ Lock(t) \/ Write(t) \/ RemoveOldest(t) \/ Shift(t) \/ Compress(t)
         \/ Retire(t) \/ Open(t) \/ Throw(t)
    \/ Crash

Spec == Init /\ [][Next]_vars

---------------------------------------------------------------------------
File == Seq(1 .. last) \cup {NoFile}
Elems(f) == IF f = NoFile THEN {} ELSE {f[n] : n \in 1 .. Len(f)}
Archives == 1 .. MaxIdx + 1

\* f begins no later than g, when both hold records.
NotNewer(f, g) == f \notin {NoFile, <<>>} /\ g \notin {NoFile, <<>>} => f[1] <= g[1]

\* The records that can be read from some file.
OnDisk == Elems(log_path_) \cup Elems(raw1) \cup UNION {Elems(gz[n]) : n \in Archives}

\* Every variable has its type; the loop counter stays within the archives
\* that rotateLogs() may touch.
TypeOK ==
    /\ last \in 0 .. MaxRecords /\ faults \in 0 .. MaxFaults /\ i \in 0 .. MaxIdx
    /\ log_path_ \in File /\ raw1 \in File /\ gz \in [Archives -> File]
    /\ file_stream_ \in {"good", "bad", "closed"}
    /\ mutex_ \in Threads \cup {NoThread}
    /\ pc \in [Threads -> {"idle", "write", "rotate", "shift", "remove", "rename", "open"}]

\* The header promises a maximum number of rotated files to keep: whatever
\* fails and wherever the process dies, no archive beyond .max.gz is left
\* (logger.hpp:42).
KeepsAtMostMaxIdx == gz[MaxIdx + 1] = NoFile

\* Reading the archives from .max.gz down to .1.gz and then the log never goes
\* back in time, although every rotation moves each of them and may be cut
\* short or be repeated after a failure or a crash.
AgeOrder ==
    /\ \A m, n \in Archives : m < n => NotNewer(gz[n], gz[m])
    /\ \A n \in Archives : NotNewer(gz[n], log_path_)

\* What a rotation may cost: of the newest max_file_sz_ * max_log_file_idx_
\* records that reached a file, each failing call and each crash loses at most
\* one file's worth; when nothing fails all of them are on disk.
LossBounded ==
    LET window == {r \in 1 .. last : r > last - MaxIdx * MaxSize}
    IN  Cardinality(window \ OnDisk) <= faults * MaxSize
=============================================================================
