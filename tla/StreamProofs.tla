---------------------------- MODULE StreamProofs ----------------------------
(***************************************************************************)
(* The components that hand a stream on through buffers, in one module     *)
(* because their proofs rest on the same lemmas about sequences.           *)
(*                                                                         *)
(* AsyncLogging for any set of messages, buffer capacity and batch limit:  *)
(* the buffer pointers never run out, the back end never sleeps on a       *)
(* filled buffer, and no message is lost, duplicated or reordered.  With   *)
(* its LogFile, for any roll size and check interval: the file is rolled   *)
(* in time and flushed whenever the back end is idle.                      *)
(*                                                                         *)
(* Buffer for any sizes and bytes: it holds what was put in and not taken  *)
(* out.  HTTPServer for any requests, cut into reads anywhere: requests    *)
(* are served as they were sent, in time, and a 400 has its reason.        *)
(***************************************************************************)
EXTENDS LogFile, HTTPServer,
        SequenceTheorems, WellFoundedInduction, NaturalsInduction, TLAPS

-----------------------------------------------------------------------------
(* The invariant.  SparesSuffice is not inductive: that a batch holds two  *)
(* buffers whenever both spares were handed over rests on nxtBuf_ being    *)
(* null only while bufs_ is not empty.                                     *)

Buf == Seq(Msg)

PtrType ==
  /\ curBuf_ \in Buf
  /\ nxtBuf_ \in {Null, <<>>} /\ buf2 \in {Null, <<>>}
  /\ bufs_ \in Seq(Buf) /\ bufs \in Seq(Buf)
  /\ next \in Nat \ {0}

OwnerInv ==
  /\ pc = "begin" => opc = "starting"
  /\ opc = "starting" => running_
  /\ pc = "unborn" <=> opc = "new"

FrontInv == nxtBuf_ = Null => bufs_ # <<>>

Holding == {"trim", "write", "recycle"}

BackInv ==
  /\ pc \notin Holding => buf1 = <<>> /\ buf2 = <<>> /\ bufs = <<>>
  /\ pc \in Holding => /\ buf1 = Null
                       /\ Len(bufs) >= IF buf2 = Null THEN 2 ELSE 1

SpareInv == /\ PtrType /\ OwnerInv /\ FrontInv /\ BackInv /\ NoSleepOnFullBuffer

\* Null is not a buffer, the empty one included.
LEMMA NullNotEmpty == Null \notin Buf /\ Null # <<>> /\ <<>> \in Buf
BY LoggingAssumption, EmptySeq DEF Buf

\* Copying into a buffer gives a buffer.
LEMMA CopiedType ==
  ASSUME NEW b \in Buf, NEW m \in Msg
  PROVE  Append(b, m) \in Buf /\ Copied(b, m) \in Buf
<1>1. Append(b, m) \in Buf
  BY AppendProperties DEF Buf
<1> QED BY <1>1 DEF Copied

\* append(): a null nxtBuf_ leaves a filled buffer behind.
LEMMA AppendStep ==
  ASSUME SpareInv, NEW m \in Msg, AppendMsg(m)
  PROVE  SpareInv'
<1> USE NullNotEmpty DEF SpareInv, PtrType, AppendMsg, back
<1>1. CASE m \notin Huge /\ Len(curBuf_) < Cap
  <2>1. curBuf_' \in Buf
    BY <1>1, CopiedType
  <2> QED BY <1>1, <2>1 DEF OwnerInv, FrontInv, BackInv, NoSleepOnFullBuffer
<1>2. CASE ~(m \notin Huge /\ Len(curBuf_) < Cap)
  <2>1. curBuf_' \in Buf
    BY <1>2, CopiedType
  <2>2. bufs_' \in Seq(Buf) /\ bufs_' # <<>>
    BY <1>2, AppendProperties, SMTT(60)
  <2>3. nxtBuf_' = Null /\ pc' = Notified
    BY <1>2
  <2> QED BY <2>1, <2>2, <2>3
          DEF OwnerInv, FrontInv, BackInv, NoSleepOnFullBuffer, Notified, Holding
<1> QED BY <1>1, <1>2

\* The critical section of threadFunc() hands both spares over only together
\* with at least two buffers to write.
LEMMA SwapStep == ASSUME SpareInv, Swap PROVE SpareInv'
<1> USE NullNotEmpty DEF SpareInv, PtrType, Swap, Swapped
<1>1. pc \notin Holding /\ pc' = "trim" /\ pc \notin {"unborn", "begin"}
  BY DEF Holding
<1>2. /\ bufs' \in Seq(Buf)
      /\ Len(bufs') = Len(bufs_) + 1
      /\ Len(bufs_) \in Nat
      /\ bufs_ # <<>> => Len(bufs_) > 0
  BY AppendProperties, EmptySeq, LenProperties
<1>3. buf1 = <<>> /\ buf2 = <<>>
  BY <1>1 DEF BackInv
<1>4. PtrType' /\ FrontInv'
  BY <1>2, <1>3, EmptySeq DEF FrontInv
<1>5. BackInv'
  BY <1>1, <1>2, <1>3 DEF BackInv, FrontInv, Holding
<1> QED BY <1>1, <1>4, <1>5 DEF OwnerInv, NoSleepOnFullBuffer

\* Cutting a batch leaves two buffers, or all of them.
LEMMA CutStep == ASSUME SpareInv, Trim \/ Written PROVE SpareInv'
<1> USE NullNotEmpty, LoggingAssumption DEF SpareInv, PtrType, KeptBufs, front
<1>1. pc \in Holding /\ pc' \in Holding /\ pc' \notin {"unborn", "begin", "wait"}
  BY DEF Trim, Written, Holding
<1>2. Len(bufs) \in Nat
  BY LenProperties
<1>3. ASSUME Len(bufs) > 2
      PROVE  SubSeq(bufs, 1, 2) \in Seq(Buf) /\ Len(SubSeq(bufs, 1, 2)) = 2
  BY <1>2, <1>3, SubSeqProperties
<1>6. bufs' = bufs \/ (Len(bufs) > 2 /\ bufs' = SubSeq(bufs, 1, 2))
  BY <1>2 DEF Trim, Written
<1>7. bufs' \in Seq(Buf) /\ (bufs' = bufs \/ Len(bufs') = 2)
  BY <1>3, <1>6
<1>4. UNCHANGED <<front, buf1, buf2, running_, opc>> /\ next' \in Nat \ {0}
  BY DEF Trim, Written
<1>5. pc \notin {"unborn", "begin"}
  BY <1>1 DEF Holding
<1>8. PtrType' /\ FrontInv' /\ NoSleepOnFullBuffer'
  BY <1>1, <1>4, <1>7 DEF FrontInv, NoSleepOnFullBuffer
<1>9. OwnerInv'
  BY <1>1, <1>4, <1>5 DEF OwnerInv
<1>10. BackInv'
  <2>1. buf1 = Null /\ Len(bufs) >= IF buf2 = Null THEN 2 ELSE 1
    BY <1>1 DEF BackInv
  <2>2. Len(bufs') >= IF buf2' = Null THEN 2 ELSE 1
    <3>1. CASE bufs' = bufs
      BY <3>1, <2>1, <1>4
    <3>2. CASE Len(bufs') = 2
      BY <3>2
    <3> QED BY <3>1, <3>2, <1>7
  <2> QED BY <1>1, <1>4, <2>1, <2>2 DEF BackInv
<1> QED BY <1>8, <1>9, <1>10

\* Every step preserves the invariant.
LEMMA SpareStep == SpareInv /\ [Next]_vars => SpareInv'
<1> SUFFICES ASSUME SpareInv, [Next]_vars PROVE SpareInv'
  OBVIOUS
<1> USE DEF SpareInv, PtrType, OwnerInv, FrontInv, BackInv, Holding,
            NoSleepOnFullBuffer, front, back, history
<1>1. CASE Begin BY <1>1 DEF Begin
<1>2. CASE CheckRunning BY <1>2 DEF CheckRunning
<1>3. CASE Wait BY <1>3 DEF Wait
<1>4. CASE WaitTimeout BY <1>4 DEF WaitTimeout
<1>5. CASE Write BY <1>5 DEF Write
<1>6. CASE Recycle
  <2>1. <<>> \in Seq(Buf)
    BY EmptySeq
  <2> QED BY <1>6, <2>1 DEF Recycle, Spare
<1>7. CASE Start BY <1>7 DEF Start
<1>8. CASE StartReturn BY <1>8 DEF StartReturn
<1>9. CASE Stop BY <1>9 DEF Stop
<1>10. CASE StopNotify BY <1>10 DEF StopNotify, Notified
<1>11. CASE StopJoin BY <1>11 DEF StopJoin
<1>12. CASE UNCHANGED vars BY <1>12 DEF vars
<1> HIDE DEF SpareInv
<1> QED BY <1>1, <1>2, <1>3, <1>4, <1>5, <1>6, <1>7, <1>8, <1>9, <1>10, <1>11,
           <1>12, AppendStep, SwapStep, CutStep
        DEF Next, BackEnd, OwnerReturns

\* The invariant holds from the construction of the object on.
LEMMA SpareInvariant == Spec => []SpareInv
<1>1. Init => SpareInv
  BY NullNotEmpty, EmptySeq
  DEF Init, SpareInv, PtrType, OwnerInv, FrontInv, BackInv, Holding,
      NoSleepOnFullBuffer
<1> QED BY <1>1, SpareStep, PTL DEF Spec

\* The assertions of threadFunc() hold and no null buffer is dereferenced,
\* for every interleaving of append(), threadFunc(), start() and stop().
THEOREM AsyncLoggingSparesSuffice == Spec => []SparesSuffice
<1>1. SpareInv => SparesSuffice
  BY NullNotEmpty, EmptySeq
  DEF SpareInv, PtrType, OwnerInv, BackInv, Holding, SparesSuffice
<1> QED BY <1>1, SpareInvariant, PTL

\* The back end never waits for the flush interval with a buffer to write.
THEOREM AsyncLoggingNoSleepOnFullBuffer == Spec => []NoSleepOnFullBuffer
BY SpareInvariant, PTL DEF SpareInv

-----------------------------------------------------------------------------
(* The history variables and the file.                                     *)

HistoryType ==
  /\ running_ \in BOOLEAN
  /\ pc \in {"unborn", "begin", "check", "lock", "wait", "woken", "trim", "write",
             "recycle", "done"}
  /\ opc \in {"new", "starting", "started", "notify", "join", "stopped"}
  /\ file \in Seq(Msg) /\ appended \in Seq(Msg)
  /\ dropped \subseteq Msg /\ beforeStop \subseteq Msg

\* A buffer of a batch holds messages, and its length is a number.
LEMMA BatchBuffer ==
  ASSUME PtrType, NEW i \in 1 .. Len(bufs)
  PROVE  bufs[i] \in Buf /\ Len(bufs[i]) \in Nat /\ Range(bufs[i]) \subseteq Msg
<1>1. bufs[i] \in Buf
  BY ElementOfSeq DEF PtrType
<1>2. \A j \in DOMAIN bufs[i] : bufs[i][j] \in Msg
  BY <1>1, LenProperties, ElementOfSeq DEF Buf
<1> QED BY <1>1, <1>2, LenProperties DEF Buf, Range

\* Every step keeps the types of the history and of the file.
LEMMA HistoryStep ==
  ASSUME SpareInv, HistoryType, [Next]_vars
  PROVE  HistoryType'
<1> USE DEF HistoryType, front, back, history
<1>1. ASSUME NEW m \in Msg, AppendMsg(m) PROVE HistoryType'
  <2>1. appended' \in Seq(Msg)
    BY <1>1, AppendProperties DEF AppendMsg
  <2>2. dropped' \subseteq Msg /\ beforeStop' \subseteq Msg
    BY <1>1 DEF AppendMsg
  <2> QED BY <1>1, <2>1, <2>2 DEF AppendMsg, Notified
<1>2. CASE Trim
  <2>1. \A i \in (KeptBufs + 1) .. Len(bufs) : Range(bufs[i]) \subseteq Msg
    BY BatchBuffer, LenProperties DEF SpareInv, PtrType, KeptBufs
  <2>2. dropped' \subseteq Msg
    BY <1>2, <2>1 DEF Trim
  <2> QED BY <1>2, <2>2 DEF Trim
<1>3. CASE Write
  <2>1. next \in 1 .. Len(bufs)
    BY <1>3, LenProperties DEF Write, SpareInv, PtrType
  <2>2. bufs[next] \in Seq(Msg)
    BY <2>1, BatchBuffer DEF SpareInv, Buf
  <2>3. file' \in Seq(Msg)
    BY <1>3, <2>2, ConcatProperties DEF Write
  <2> QED BY <1>3, <2>3 DEF Write
<1>4. CASE Begin BY <1>4 DEF Begin
<1>5. CASE CheckRunning BY <1>5 DEF CheckRunning
<1>6. CASE Swap BY <1>6 DEF Swap
<1>7. CASE Wait BY <1>7 DEF Wait
<1>8. CASE WaitTimeout BY <1>8 DEF WaitTimeout
<1>9. CASE Written BY <1>9 DEF Written
<1>10. CASE Recycle BY <1>10 DEF Recycle
<1>11. CASE Start BY <1>11 DEF Start
<1>12. CASE StartReturn BY <1>12 DEF StartReturn
<1>13. CASE Stop BY <1>13 DEF Stop
<1>14. CASE StopNotify BY <1>14 DEF StopNotify, Notified
<1>15. CASE StopJoin BY <1>15 DEF StopJoin
<1>16. CASE UNCHANGED vars BY <1>16 DEF vars
<1> HIDE DEF HistoryType, history, front, back
<1> QED BY <1>1, <1>2, <1>3, <1>4, <1>5, <1>6, <1>7, <1>8, <1>9, <1>10, <1>11,
           <1>12, <1>13, <1>14, <1>15, <1>16
        DEF Next, BackEnd, OwnerReturns

\* The history variables' types and those of the buffers make up TypeOK.
LEMMA AsyncTypes == SpareInv /\ HistoryType => TypeOK
<1> SUFFICES ASSUME SpareInv, HistoryType PROVE TypeOK
  OBVIOUS
<1>1. /\ curBuf_ \in Seq(Msg) \cup {Null} /\ nxtBuf_ \in Seq(Msg) \cup {Null}
      /\ buf2 \in Seq(Msg) \cup {Null}
  BY NullNotEmpty DEF SpareInv, PtrType, Buf
<1>2. buf1 \in Seq(Msg) \cup {Null}
  BY NullNotEmpty DEF SpareInv, BackInv, Buf
<1> QED BY <1>1, <1>2 DEF SpareInv, PtrType, HistoryType, TypeOK, Buf

\* AsyncLogging's state keeps its type.
THEOREM AsyncLoggingTypeOK == Spec => []TypeOK
<1>1. Init => HistoryType
  BY EmptySeq DEF Init, HistoryType
<1>2. HistoryType /\ SpareInv /\ [Next]_vars => HistoryType'
  BY HistoryStep
<1>3. Spec => []HistoryType
  BY <1>1, <1>2, SpareInvariant, PTL DEF Spec
<1> QED BY <1>3, SpareInvariant, AsyncTypes, PTL

-----------------------------------------------------------------------------
(* The pipeline: threadFunc() with its LogFile.  That a check comes within *)
(* checkEveryN_ appends rests on late <= cnt_: every append to a file of a *)
(* period that is over counts, unless the file is, or cannot be, rolled.   *)

PeriodInv == late <= cnt_

\* What is written is flushed before the back end looks at running_ again.
FlushInv == pc \notin Holding => ~unflushed

FileBits == open \in BOOLEAN /\ crowded \in BOOLEAN /\ unflushed \in BOOLEAN

FileCounts == cnt_ \in 0 .. checkEveryN_ - 1 /\ written_ \in Nat /\ late \in Nat

FileInv == /\ FileBits /\ FileCounts /\ RolledWhenFull /\ PeriodInv

\* The bits and the counters make up LogFileTypeOK.
LEMMA FileTypes == FileBits /\ FileCounts <=> LogFileTypeOK
BY DEF FileBits, FileCounts, LogFileTypeOK

\* A step of the pipeline is a step of AsyncLogging.
LEMMA PipelineImplements == [PipelineNext]_pipelineVars => [Next]_vars
BY DEF PipelineNext, pipelineVars, PipelineBackEnd, BeginWithFile, CheckAndFlush,
       TrimToFile, WriteToFile, RecycleAndFlush, Next, BackEnd

\* roll() and the write without a roll keep the file within its limits.
LEMMA StaysStep ==
  ASSUME FileInv, NEW n \in Nat, NEW l \in BOOLEAN, NEW p \in BOOLEAN,
         NEW c \in 0 .. checkEveryN_ - 1,
         open' = open,
         written_ + n > rollsz_ => ~l,
         p /\ l => c > cnt_,
         Stays(n, [later |-> l, period |-> p], c)
  PROVE  FileInv'
<1> USE LogFileAssumption DEF FileInv, FileBits, FileCounts, Stays
<1>1. cnt_' = c /\ written_' = written_ + n /\ crowded' = ~l
  OBVIOUS
<1>2. late' = IF p /\ l THEN late + 1 ELSE 0
  OBVIOUS
<1>3. unflushed' \in BOOLEAN
  OBVIOUS
<1>4. FileBits' /\ FileCounts'
  BY <1>1, <1>2, <1>3
<1>5. RolledWhenFull'
  BY <1>1 DEF RolledWhenFull
<1>6. PeriodInv'
  BY <1>1, <1>2 DEF PeriodInv
<1> QED BY <1>4, <1>5, <1>6

LEMMA NewFileStep ==
  ASSUME FileInv, NewFile, cnt_' \in 0 .. checkEveryN_ - 1, open' \in BOOLEAN
  PROVE  FileInv' /\ ~unflushed'
<1>1. FileBits' /\ ~unflushed'
  BY DEF FileBits, NewFile
<1>2. FileCounts' /\ RolledWhenFull' /\ PeriodInv'
  BY LogFileAssumption DEF FileCounts, RolledWhenFull, PeriodInv, NewFile
<1> QED BY <1>1, <1>2 DEF FileInv

\* LogFile::append keeps the file within its limits at any time of the clock.
LEMMA LogAppendStep ==
  ASSUME FileInv, NEW n \in Nat, appendToFile(n)
  PROVE  FileInv'
<1>1. PICK l \in BOOLEAN, p \in BOOLEAN :
        append_unlocked(n, [later |-> l, period |-> p])
  BY DEF appendToFile
<1> DEFINE at == [later |-> l, period |-> p]
<1>2. at.later = l /\ at.period = p
  OBVIOUS
<1>3. open' = open /\ open \in BOOLEAN /\ cnt_ \in 0 .. checkEveryN_ - 1
  BY DEF appendToFile, FileInv, FileBits, FileCounts
<1>4. 0 \in 0 .. checkEveryN_ - 1
  BY LogFileAssumption
<1>5. CASE written_ + n > rollsz_
  <2>1. roll(n, at, cnt_)
    BY <1>1, <1>5 DEF append_unlocked
  <2>2. CASE l
    BY <1>2, <1>3, <2>1, <2>2, NewFileStep DEF roll
  <2>3. CASE ~l
    <3>1. Stays(n, at, cnt_)
      BY <1>2, <2>1, <2>3 DEF roll
    <3> QED BY <1>1, <1>3, <2>3, <3>1, StaysStep
  <2> QED BY <2>2, <2>3
<1>6. CASE ~(written_ + n > rollsz_) /\ cnt_ + 1 < checkEveryN_
  <2>1. Stays(n, at, cnt_ + 1)
    BY <1>1, <1>6 DEF append_unlocked
  <2>2. cnt_ + 1 \in 0 .. checkEveryN_ - 1 /\ cnt_ + 1 > cnt_
    BY <1>3, <1>6, LogFileAssumption
  <2> QED BY <1>1, <1>3, <1>6, <2>1, <2>2, StaysStep
<1>7. CASE ~(written_ + n > rollsz_) /\ ~(cnt_ + 1 < checkEveryN_) /\ p
  <2>1. roll(n, at, 0)
    BY <1>1, <1>2, <1>7 DEF append_unlocked
  <2>2. CASE l
    BY <1>2, <1>3, <1>4, <2>1, <2>2, NewFileStep DEF roll
  <2>3. CASE ~l
    <3>1. Stays(n, at, 0)
      BY <1>2, <2>1, <2>3 DEF roll
    <3> QED BY <1>3, <1>4, <1>7, <2>3, <3>1, StaysStep
  <2> QED BY <2>2, <2>3
<1>8. CASE ~(written_ + n > rollsz_) /\ ~(cnt_ + 1 < checkEveryN_) /\ ~p
  <2>1. CASE Stays(n, at, 0)
    BY <1>1, <1>3, <1>4, <1>8, <2>1, StaysStep
  <2>2. CASE ~Stays(n, at, 0)
    <3>1. /\ unflushed' = FALSE /\ cnt_' = 0 /\ written_' = written_ + n
          /\ crowded' = ~l /\ late' = 0
      BY <1>1, <1>2, <1>8, <2>2 DEF append_unlocked
    <3>2. FileBits'
      BY <1>3, <3>1 DEF FileBits
    <3>3. FileCounts' /\ RolledWhenFull' /\ PeriodInv'
      BY <1>4, <1>8, <3>1, LogFileAssumption
      DEF FileInv, FileCounts, RolledWhenFull, PeriodInv
    <3> QED BY <3>2, <3>3 DEF FileInv
  <2> QED BY <2>1, <2>2
<1> QED BY <1>5, <1>6, <1>7, <1>8

\* A step that leaves the file alone keeps its invariant.
LEMMA FileUnchanged == FileInv /\ UNCHANGED logFile => FileInv'
BY DEF FileInv, FileBits, FileCounts, RolledWhenFull, PeriodInv, logFile

\* Every step of the pipeline keeps the file within its limits.
LEMMA FileStep ==
  ASSUME SpareInv, FileInv, [PipelineNext]_pipelineVars
  PROVE  FileInv'
<1>1. CASE BeginWithFile
  <2>1. NewFile /\ cnt_' = 0 /\ open' = TRUE
    BY <1>1 DEF BeginWithFile, Construct
  <2> QED BY <2>1, NewFileStep, LogFileAssumption
<1>2. CASE flush
  BY <1>2 DEF flush, FileInv, FileBits, FileCounts, RolledWhenFull, PeriodInv
<1>3. CASE CheckAndFlush
  BY <1>2, <1>3, FileUnchanged DEF CheckAndFlush
<1>4. CASE TrimToFile
  BY <1>4, LogAppendStep, FileUnchanged DEF TrimToFile
<1>5. CASE WriteToFile
  <2>1. next \in 1 .. Len(bufs)
    BY <1>5, LenProperties DEF WriteToFile, Write, SpareInv, PtrType
  <2>2. Len(bufs[next]) \in Nat
    BY <2>1, BatchBuffer DEF SpareInv
  <2> QED BY <1>5, <2>2, LogAppendStep DEF WriteToFile
<1>6. CASE RecycleAndFlush
  BY <1>2, <1>6 DEF RecycleAndFlush
<1>7. CASE UNCHANGED logFile
  BY <1>7, FileUnchanged
<1> QED BY <1>1, <1>3, <1>4, <1>5, <1>6, <1>7
        DEF PipelineNext, PipelineBackEnd, pipelineVars

\* The back end flushes before it waits or ends.
LEMMA FlushStep ==
  ASSUME SpareInv, FlushInv, [PipelineNext]_pipelineVars
  PROVE  FlushInv'
<1> USE DEF FlushInv, Holding, logFile
<1>1. CASE BeginWithFile
  BY <1>1 DEF BeginWithFile, Construct, NewFile
<1>2. CASE CheckAndFlush
  BY <1>2 DEF CheckAndFlush, CheckRunning, flush
<1>3. CASE TrimToFile
  BY <1>3 DEF TrimToFile, Trim
<1>4. CASE WriteToFile
  BY <1>4 DEF WriteToFile, Write
<1>5. CASE RecycleAndFlush
  BY <1>5 DEF RecycleAndFlush, flush
<1>6. ASSUME NEW m \in Msg, AppendMsg(m), UNCHANGED logFile PROVE FlushInv'
  BY <1>6 DEF AppendMsg, Notified
<1>7. CASE (Swap \/ Wait \/ Written \/ WaitTimeout) /\ UNCHANGED logFile
  BY <1>7 DEF Swap, Wait, Written, WaitTimeout
<1>9. CASE (Start \/ Stop \/ StartReturn \/ StopNotify \/ StopJoin)
           /\ UNCHANGED logFile
  BY <1>9 DEF Start, Stop, StartReturn, StopNotify, StopJoin, Notified,
              SpareInv, OwnerInv
<1>8. CASE UNCHANGED pipelineVars
  BY <1>8 DEF pipelineVars, vars
<1> HIDE DEF FlushInv, Holding, logFile
<1> QED BY <1>1, <1>2, <1>3, <1>4, <1>5, <1>6, <1>7, <1>8, <1>9
        DEF PipelineNext, PipelineBackEnd, OwnerReturns

\* What holds of AsyncLogging alone holds of it with its file.
LEMMA PipelineAsync == PipelineSpec => Spec
<1>1. LogFileInit => Init
  BY DEF LogFileInit
<1> QED BY <1>1, PipelineImplements, PTL DEF PipelineSpec, Spec

\* The log file never outgrows the roll size but while now > lastRoll_ fails,
\* and fewer than checkEveryN_ appends go in a row to the file of a period that
\* is over while it could be rolled, wherever the clock stands at each append.
THEOREM LogFileRolledInTime == PipelineSpec => []RolledInTime
<1>1. LogFileInit => FileInv
  <2>1. LogFileInit => FileBits
    BY DEF LogFileInit, FileBits
  <2>2. LogFileInit => FileCounts /\ RolledWhenFull /\ PeriodInv
    BY LogFileAssumption DEF LogFileInit, FileCounts, RolledWhenFull, PeriodInv
  <2> QED BY <2>1, <2>2 DEF FileInv
<1>2. FileInv /\ SpareInv /\ [PipelineNext]_pipelineVars => FileInv'
  BY FileStep
<1>3. PipelineSpec => []FileInv
  BY <1>1, <1>2, PipelineAsync, SpareInvariant, PTL DEF PipelineSpec
<1>4. FileInv /\ TypeOK => RolledInTime
  <2>1. FileInv => RolledEachPeriod
    BY LogFileAssumption DEF FileInv, FileCounts, PeriodInv, RolledEachPeriod
  <2> QED BY <2>1, FileTypes DEF FileInv, RolledInTime
<1> QED BY <1>3, <1>4, PipelineAsync, AsyncLoggingTypeOK, PTL

\* Whenever the back end waits, or has ended, nothing it wrote is left in the
\* stdio buffer.
THEOREM LogFileFlushedWhenIdle == PipelineSpec => []FlushedWhenIdle
<1>1. LogFileInit => FlushInv
  BY DEF LogFileInit, FlushInv
<1>2. FlushInv /\ SpareInv /\ [PipelineNext]_pipelineVars => FlushInv'
  BY FlushStep
<1>3. FlushInv => FlushedWhenIdle
  BY DEF FlushInv, FlushedWhenIdle, Holding
<1> QED BY <1>1, <1>2, <1>3, PipelineAsync, SpareInvariant, PTL DEF PipelineSpec

-----------------------------------------------------------------------------
(* FlattenSeq, by induction on the number of sequences that are flattened. *)

\* A set of natural numbers with 0, and with n + 1 for each n, has all of them.
LEMMA SetInduction ==
  ASSUME NEW S \in SUBSET Nat, 0 \in S, \A n \in S : n + 1 \in S
  PROVE  \A n \in Nat : n \in S
<1> SUFFICES ASSUME Nat \ S # {}  PROVE FALSE  OBVIOUS
<1>1. PICK x \in Nat \ S : \A y \in Nat \ S : ~(<<y, x>> \in OpToRel(<, Nat))
  BY NatLessThanWellFounded, WFMin
<1>2. x \in Nat /\ x # 0 /\ x - 1 \in Nat /\ x - 1 < x /\ (x - 1) + 1 = x  OBVIOUS
<1>3. x - 1 \in S  BY <1>1, <1>2 DEF OpToRel
<1> QED  BY <1>2, <1>3

\* FlattenSeq of the first k sequences, for every k.
IsFlatten(g, s) ==
  g = [i \in 1 .. Len(s) |-> IF i = 1 THEN s[i] ELSE g[i - 1] \o s[i]]

\* The function FlattenSeq chooses exists.
LEMMA FlattenExists ==
  ASSUME NEW T, NEW s \in Seq(Seq(T))
  PROVE  \E g \in [1 .. Len(s) -> Seq(T)] : IsFlatten(g, s)
<1> DEFINE P(g, k) == g = [i \in 1 .. k |-> IF i = 1 THEN s[i] ELSE g[i - 1] \o s[i]]
           S == {k \in Nat : k <= Len(s) => \E g \in [1 .. k -> Seq(T)] : P(g, k)}
<1>0. Len(s) \in Nat /\ \A i \in 1 .. Len(s) : s[i] \in Seq(T)
  BY LenProperties, ElementOfSeq
<1>1. 0 \in S
  <2> DEFINE g0 == [i \in 1 .. 0 |-> <<>>]
  <2>1. g0 \in [1 .. 0 -> Seq(T)]  OBVIOUS
  <2>2. P(g0, 0)  OBVIOUS
  <2> QED  BY <2>1, <2>2
<1>2. ASSUME NEW k \in S, k + 1 <= Len(s)
      PROVE  \E g \in [1 .. k + 1 -> Seq(T)] : P(g, k + 1)
  <2>0. k \in Nat /\ k <= Len(s)  BY <1>0, <1>2
  <2>1. PICK g \in [1 .. k -> Seq(T)] : P(g, k)  BY <1>2, <2>0
  <2> DEFINE e == IF k = 0 THEN s[1] ELSE g[k] \o s[k + 1]
             h == [i \in 1 .. k + 1 |-> IF i = k + 1 THEN e ELSE g[i]]
  <2>2. e \in Seq(T)
    <3>1. k + 1 \in 1 .. Len(s)  BY <1>0, <1>2, <2>0
    <3>2. CASE k = 0  BY <1>0, <3>1, <3>2
    <3>3. CASE k # 0
      <4>1. g[k] \in Seq(T)  BY <2>0, <2>1, <3>3
      <4>2. s[k + 1] \in Seq(T)  BY <1>0, <3>1
      <4> QED  BY <3>3, <4>1, <4>2, ConcatProperties
    <3> QED  BY <3>2, <3>3
  <2>3. h \in [1 .. k + 1 -> Seq(T)]
    <3> HIDE DEF e
    <3>1. ASSUME NEW i \in 1 .. k + 1, i # k + 1  PROVE g[i] \in Seq(T)
      <4>1. i \in 1 .. k  BY <2>0, <3>1
      <4> QED  BY <2>1, <4>1
    <3> QED  BY <2>2, <3>1
  <2>4. ASSUME NEW i \in 1 .. k + 1
        PROVE  h[i] = IF i = 1 THEN s[i] ELSE h[i - 1] \o s[i]
    <3>1. CASE i = k + 1 /\ k = 0  BY <2>0, <3>1
    <3>2. CASE i = k + 1 /\ k # 0
      <4>1. i - 1 = k /\ i # 1 /\ k \in 1 .. k + 1 /\ k # k + 1  BY <2>0, <3>2
      <4>2. h[i] = e /\ h[k] = g[k]  BY <3>2, <4>1
      <4> QED  BY <3>2, <4>1, <4>2
    <3>3. CASE i # k + 1
      <4>1. i \in 1 .. k /\ h[i] = g[i]  BY <2>0, <3>3
      <4>2. g[i] = IF i = 1 THEN s[i] ELSE g[i - 1] \o s[i]  BY <2>1, <4>1
      <4>3. i # 1 => i - 1 \in 1 .. k + 1 /\ i - 1 # k + 1  BY <2>0, <4>1
      <4>4. i # 1 => h[i - 1] = g[i - 1]  BY <4>3
      <4> QED  BY <4>1, <4>2, <4>4
    <3> QED  BY <3>1, <3>2, <3>3
  <2> HIDE DEF h
  <2>5. P(h, k + 1)  BY <2>3, <2>4
  <2> QED  BY <2>3, <2>5
<1> HIDE DEF P
<1>3. ASSUME NEW k \in S  PROVE k + 1 \in S
  <2>1. k \in Nat /\ k + 1 \in Nat  OBVIOUS
  <2>2. k + 1 <= Len(s) => \E g \in [1 .. k + 1 -> Seq(T)] : P(g, k + 1)  BY <1>2
  <2> QED  BY <2>1, <2>2
<1>4. S \in SUBSET Nat  OBVIOUS
<1> HIDE DEF S
<1>5. Len(s) \in S  BY <1>0, <1>1, <1>3, <1>4, SetInduction
<1>6. \E g \in [1 .. Len(s) -> Seq(T)] : P(g, Len(s))  BY <1>0, <1>5 DEF S
<1> QED  BY <1>6 DEF P, IsFlatten

\* u begins with s.
Begins(s, u) ==
  /\ Len(s) \in Nat /\ Len(u) \in Nat /\ Len(s) <= Len(u)
  /\ \A i \in 1 .. Len(s) : s[i] = u[i]

\* Two such functions agree as far as their sequences do.
LEMMA FlattenUnique ==
  ASSUME NEW s, NEW u, NEW g, NEW h, IsFlatten(g, s), IsFlatten(h, u), Begins(s, u)
  PROVE  \A i \in 1 .. Len(s) : g[i] = h[i]
<1> USE DEF Begins
<1> DEFINE S == {k \in Nat : k \in 1 .. Len(s) => g[k] = h[k]}
<1>1. 0 \in S  OBVIOUS
<1>2. ASSUME NEW k \in S, k + 1 \in 1 .. Len(s)  PROVE g[k + 1] = h[k + 1]
  <2>1. k \in Nat /\ k + 1 \in 1 .. Len(u)  BY <1>2
  <2>2. g[k + 1] = IF k + 1 = 1 THEN s[k + 1] ELSE g[(k + 1) - 1] \o s[k + 1]
    BY <1>2 DEF IsFlatten
  <2>3. h[k + 1] = IF k + 1 = 1 THEN u[k + 1] ELSE h[(k + 1) - 1] \o u[k + 1]
    BY <2>1 DEF IsFlatten
  <2>4. s[k + 1] = u[k + 1]  BY <1>2
  <2>5. CASE k = 0  BY <2>2, <2>3, <2>4, <2>5
  <2>6. CASE k # 0
    <3>1. k \in 1 .. Len(s) /\ (k + 1) - 1 = k /\ k + 1 # 1  BY <1>2, <2>1, <2>6
    <3>2. g[k] = h[k]  BY <1>2, <3>1
    <3> QED  BY <2>2, <2>3, <2>4, <3>1, <3>2
  <2> QED  BY <2>5, <2>6
<1>3. \A k \in S : k + 1 \in S  BY <1>2
<1>4. S \in SUBSET Nat  OBVIOUS
<1> HIDE DEF S
<1>5. \A k \in Nat : k \in S  BY <1>1, <1>3, <1>4, SetInduction
<1> QED  BY <1>5 DEF S

\* FlattenSeq as the last value of such a function.
LEMMA FlattenValue ==
  ASSUME NEW T, NEW s \in Seq(Seq(T)), s # <<>>
  PROVE  \E g \in [1 .. Len(s) -> Seq(T)] :
            IsFlatten(g, s) /\ FlattenSeq(s) = g[Len(s)]
<1>0. Len(s) \in Nat /\ Len(s) # 0 /\ Len(s) \in 1 .. Len(s)
  BY EmptySeq, LenProperties
<1>1. PICK g \in [1 .. Len(s) -> Seq(T)] : IsFlatten(g, s)  BY FlattenExists
<1> DEFINE c == CHOOSE h : IsFlatten(h, s)
<1>2. IsFlatten(c, s)  BY <1>1
<1>3. FlattenSeq(s) = c[Len(s)]
  <2>1. c = CHOOSE h : h = [i \in 1 .. Len(s) |-> IF i = 1 THEN s[i] ELSE h[i - 1] \o s[i]]
    BY DEF IsFlatten
  <2> HIDE DEF c
  <2>2. Len(s) # 0  BY <1>0
  <2> QED  BY <2>1, <2>2 DEF FlattenSeq
<1> HIDE DEF c
<1>4. c[Len(s)] = g[Len(s)]
  <2>1. Begins(s, s)  BY <1>0 DEF Begins
  <2>2. \A i \in 1 .. Len(s) : c[i] = g[i]  BY <1>1, <1>2, <2>1, FlattenUnique
  <2> QED  BY <1>0, <2>2
<1> QED  BY <1>1, <1>3, <1>4

\* One more sequence is flattened to the end.
LEMMA FlattenAppend ==
  ASSUME NEW T, NEW s \in Seq(Seq(T)), NEW b \in Seq(T)
  PROVE  /\ FlattenSeq(<<>>) = <<>> /\ FlattenSeq(s) \in Seq(T)
         /\ FlattenSeq(Append(s, b)) = FlattenSeq(s) \o b
<1> DEFINE u == Append(s, b)
           n == Len(s)
<1>0. n \in Nat  BY LenProperties
<1>1. /\ u \in Seq(Seq(T)) /\ Len(u) = n + 1 /\ u # <<>>
      /\ \A i \in 1 .. n : u[i] = s[i]
      /\ u[n + 1] = b
  BY AppendProperties, EmptySeq
<1> HIDE DEF u
<1>2. FlattenSeq(<<>>) = <<>>  BY EmptySeq DEF FlattenSeq
<1>3. PICK h \in [1 .. Len(u) -> Seq(T)] : IsFlatten(h, u) /\ FlattenSeq(u) = h[Len(u)]
  BY <1>1, FlattenValue
<1>4. n + 1 \in 1 .. Len(u)  BY <1>0, <1>1
<1>5. h[n + 1] = IF n + 1 = 1 THEN b ELSE h[(n + 1) - 1] \o b
  BY <1>1, <1>3, <1>4 DEF IsFlatten
<1>6. CASE s = <<>>
  <2>1. n = 0  BY <1>6, EmptySeq
  <2>2. FlattenSeq(u) = b  BY <1>1, <1>3, <1>5, <2>1
  <2>3. <<>> \o b = b /\ <<>> \in Seq(T)  BY ConcatEmptySeq, EmptySeq
  <2> QED  BY <1>2, <1>6, <2>2, <2>3 DEF u
<1>7. CASE s # <<>>
  <2>1. n # 0 /\ n \in 1 .. n /\ (n + 1) - 1 = n /\ n + 1 # 1
    BY <1>0, <1>7, EmptySeq
  <2>2. PICK g \in [1 .. n -> Seq(T)] : IsFlatten(g, s) /\ FlattenSeq(s) = g[n]
    BY <1>7, FlattenValue
  <2>3. Begins(s, u)  BY <1>0, <1>1 DEF Begins
  <2>4. \A i \in 1 .. n : g[i] = h[i]  BY <1>3, <2>2, <2>3, FlattenUnique
  <2>5. g[n] = h[n] /\ g[n] \in Seq(T)  BY <2>1, <2>2, <2>4
  <2>6. FlattenSeq(u) = h[n] \o b  BY <1>1, <1>3, <1>5, <2>1
  <2> QED  BY <1>2, <2>2, <2>5, <2>6 DEF u
<1> QED  BY <1>6, <1>7

\* One sequence is flattened to itself.
LEMMA FlattenOne ==
  ASSUME NEW T, NEW b \in Seq(T)  PROVE FlattenSeq(<<b>>) = b
<1>1. <<>> \in Seq(Seq(T)) /\ Append(<<>>, b) = <<b>>  BY EmptySeq
<1>2. FlattenSeq(<<b>>) = FlattenSeq(<<>>) \o b /\ FlattenSeq(<<>>) = <<>>
  BY <1>1, FlattenAppend
<1> QED  BY <1>2, ConcatEmptySeq

\* The first k + 1 elements are the first k and one more.
LEMMA PrefixStep ==
  ASSUME NEW T, NEW t \in Seq(T), NEW k \in Nat, k < Len(t)
  PROVE  /\ SubSeq(t, 1, k) \in Seq(T) /\ t[k + 1] \in T
         /\ SubSeq(t, 1, k + 1) = Append(SubSeq(t, 1, k), t[k + 1])
<1>0. Len(t) \in Nat /\ \A i \in 1 .. Len(t) : t[i] \in T
  BY LenProperties, ElementOfSeq
<1> DEFINE p == SubSeq(t, 1, k)
           q == SubSeq(t, 1, k + 1)
<1>1. /\ p \in Seq(T) /\ Len(p) = IF 1 <= k THEN k - 1 + 1 ELSE 0
      /\ \A i \in 1 .. k - 1 + 1 : p[i] = t[1 + i - 1]
  <2>1. \A i \in 1 .. k : t[i] \in T  BY <1>0
  <2> QED  BY <2>1, SubSeqProperties
<1>2. /\ q \in Seq(T) /\ Len(q) = IF 1 <= k + 1 THEN (k + 1) - 1 + 1 ELSE 0
      /\ \A i \in 1 .. (k + 1) - 1 + 1 : q[i] = t[1 + i - 1]
  <2>1. \A i \in 1 .. k + 1 : t[i] \in T  BY <1>0
  <2>2. 1 \in Int /\ k + 1 \in Int  OBVIOUS
  <2> QED  BY <2>1, <2>2, SubSeqProperties
<1> HIDE DEF p, q
<1>3. Len(p) = k /\ Len(q) = k + 1  BY <1>1, <1>2
<1>4. \A i \in 1 .. k : p[i] = t[i]
  <2> TAKE i \in 1 .. k
  <2>1. i \in 1 .. k - 1 + 1 /\ 1 + i - 1 = i  OBVIOUS
  <2> QED  BY <1>1, <2>1
<1>5. \A i \in 1 .. k + 1 : q[i] = t[i]
  <2> TAKE i \in 1 .. k + 1
  <2>1. i \in 1 .. (k + 1) - 1 + 1 /\ 1 + i - 1 = i  OBVIOUS
  <2> QED  BY <1>2, <2>1
<1>6. t[k + 1] \in T  BY <1>0
<1> DEFINE a == Append(p, t[k + 1])
<1>7. /\ a \in Seq(T) /\ Len(a) = k + 1
      /\ \A i \in 1 .. k : a[i] = p[i]
      /\ a[k + 1] = t[k + 1]
  BY <1>1, <1>3, <1>6, AppendProperties
<1> HIDE DEF a
<1>8. \A i \in 1 .. k + 1 : q[i] = a[i]
  <2> TAKE i \in 1 .. k + 1
  <2>1. CASE i = k + 1  BY <1>5, <1>7, <2>1
  <2>2. CASE i \in 1 .. k  BY <1>4, <1>5, <1>7, <2>2
  <2> QED  BY <2>1, <2>2
<1>9. q = a  BY <1>2, <1>3, <1>7, <1>8, SeqEqual
<1> QED  BY <1>1, <1>6, <1>9 DEF p, q, a

\* All of a sequence, and none of it.
LEMMA PrefixEnds ==
  ASSUME NEW T, NEW t \in Seq(T)
  PROVE  SubSeq(t, 1, Len(t)) = t /\ SubSeq(t, 1, 0) = <<>>
OBVIOUS

\* Flattening goes through concatenation.
LEMMA FlattenConcat ==
  ASSUME NEW T, NEW s \in Seq(Seq(T)), NEW t \in Seq(Seq(T))
  PROVE  FlattenSeq(s \o t) = FlattenSeq(s) \o FlattenSeq(t)
<1> DEFINE p(k) == SubSeq(t, 1, k)
           S == {k \in Nat : k <= Len(t) =>
                   FlattenSeq(s \o p(k)) = FlattenSeq(s) \o FlattenSeq(p(k))}
<1>0. Len(t) \in Nat  BY LenProperties
<1>1. 0 \in S
  <2>1. p(0) = <<>> /\ s \o <<>> = s  BY PrefixEnds, ConcatEmptySeq
  <2>2. FlattenSeq(<<>>) = <<>> /\ FlattenSeq(s) \in Seq(T)
    <3>1. <<>> \in Seq(T)  BY EmptySeq
    <3> QED  BY <3>1, FlattenAppend
  <2>3. FlattenSeq(s) \o <<>> = FlattenSeq(s)  BY <2>2, ConcatEmptySeq
  <2> QED  BY <2>1, <2>2, <2>3
<1>2. ASSUME NEW k \in S, k + 1 <= Len(t)
      PROVE  FlattenSeq(s \o p(k + 1)) = FlattenSeq(s) \o FlattenSeq(p(k + 1))
  <2>0. k \in Nat /\ k < Len(t) /\ k <= Len(t)  BY <1>0, <1>2
  <2>1. /\ p(k) \in Seq(Seq(T)) /\ t[k + 1] \in Seq(T)
        /\ p(k + 1) = Append(p(k), t[k + 1])
    BY <2>0, PrefixStep
  <2>2. FlattenSeq(s \o p(k)) = FlattenSeq(s) \o FlattenSeq(p(k))  BY <1>2, <2>0
  <2> DEFINE b == t[k + 1]
             r == p(k)
  <2> HIDE DEF b, r
  <2>3. r \in Seq(Seq(T)) /\ b \in Seq(T) /\ p(k + 1) = Append(r, b)
    BY <2>1 DEF b, r
  <2>4. s \o r \in Seq(Seq(T))  BY <2>3, ConcatProperties
  <2>5. s \o Append(r, b) = Append(s \o r, b)
    <3>1. Append(r, b) = r \o <<b>> /\ Append(s \o r, b) = (s \o r) \o <<b>>
      BY <2>3, <2>4, AppendIsConcat
    <3>2. <<b>> \in Seq(Seq(T))  BY <2>3
    <3>3. \A x, y, z \in Seq(Seq(T)) : (x \o y) \o z = x \o (y \o z)
      <4> DEFINE D == Seq(T)
      <4> HIDE DEF D
      <4>1. \A x, y, z \in Seq(D) : (x \o y) \o z = x \o (y \o z)
        BY ConcatAssociative, SMTT(60)
      <4> QED  BY <4>1 DEF D
    <3>4. (s \o r) \o <<b>> = s \o (r \o <<b>>)  BY <2>3, <3>2, <3>3, Zenon
    <3> QED  BY <3>1, <3>4
  <2>6. FlattenSeq(Append(s \o r, b)) = FlattenSeq(s \o r) \o b
    BY <2>3, <2>4, FlattenAppend
  <2>7. /\ FlattenSeq(Append(r, b)) = FlattenSeq(r) \o b
        /\ FlattenSeq(r) \in Seq(T) /\ FlattenSeq(s) \in Seq(T)
    BY <2>3, FlattenAppend
  <2>8. (FlattenSeq(s) \o FlattenSeq(r)) \o b = FlattenSeq(s) \o (FlattenSeq(r) \o b)
    <3>1. \A x, y, z \in Seq(T) : (x \o y) \o z = x \o (y \o z)
      BY ConcatAssociative, SMTT(60)
    <3> QED  BY <2>3, <2>7, <3>1, Zenon
  <2>9. FlattenSeq(s \o r) = FlattenSeq(s) \o FlattenSeq(r)  BY <2>2 DEF r
  <2> QED  BY <2>3, <2>5, <2>6, <2>7, <2>8, <2>9
<1> HIDE DEF p
<1>3. ASSUME NEW k \in S  PROVE k + 1 \in S
  <2>1. k \in Nat /\ k + 1 \in Nat  OBVIOUS
  <2> QED  BY <1>2, <2>1
<1>4. S \in SUBSET Nat  OBVIOUS
<1> HIDE DEF S
<1>5. Len(t) \in S  BY <1>0, <1>1, <1>3, <1>4, SetInduction
<1>6. FlattenSeq(s \o p(Len(t))) = FlattenSeq(s) \o FlattenSeq(p(Len(t)))
  BY <1>0, <1>5 DEF S
<1> QED  BY <1>6, PrefixEnds DEF p

\* The elements of a sequence, and of two in a row.
LEMMA RangeFacts ==
  ASSUME NEW T, NEW s \in Seq(T), NEW t \in Seq(T)
  PROVE  /\ Range(<<>>) = {}
         /\ Range(s) = {s[i] : i \in 1 .. Len(s)}
         /\ Range(s \o t) = Range(s) \cup Range(t)
<1>0. /\ Len(s) \in Nat /\ Len(t) \in Nat
      /\ DOMAIN s = 1 .. Len(s) /\ DOMAIN t = 1 .. Len(t)
  BY LenProperties
<1>1. /\ s \o t \in Seq(T) /\ Len(s \o t) = Len(s) + Len(t)
      /\ \A i \in 1 .. Len(s) + Len(t) : (s \o t)[i] =
            IF i <= Len(s) THEN s[i] ELSE t[i - Len(s)]
  BY ConcatProperties
<1> DEFINE u == s \o t
<1>2. DOMAIN u = 1 .. Len(s) + Len(t)  BY <1>1, LenProperties
<1> HIDE DEF u
<1>3. ASSUME NEW i \in DOMAIN u  PROVE u[i] \in Range(s) \cup Range(t)
  <2>1. CASE i <= Len(s)
    <3>1. i \in DOMAIN s /\ u[i] = s[i]  BY <1>0, <1>1, <1>2, <2>1 DEF u
    <3> QED  BY <3>1 DEF Range
  <2>2. CASE ~(i <= Len(s))
    <3>1. i - Len(s) \in DOMAIN t /\ u[i] = t[i - Len(s)]
      BY <1>0, <1>1, <1>2, <2>2 DEF u
    <3> QED  BY <3>1 DEF Range
  <2> QED  BY <2>1, <2>2
<1>4. ASSUME NEW i \in DOMAIN s  PROVE s[i] \in Range(u)
  <2>1. i \in DOMAIN u /\ u[i] = s[i]  BY <1>0, <1>1, <1>2 DEF u
  <2> QED  BY <2>1 DEF Range
<1>5. ASSUME NEW i \in DOMAIN t  PROVE t[i] \in Range(u)
  <2>1. Len(s) + i \in DOMAIN u /\ ~(Len(s) + i <= Len(s)) /\ (Len(s) + i) - Len(s) = i
    BY <1>0, <1>2
  <2>2. u[Len(s) + i] = t[i]  BY <1>1, <1>2, <2>1 DEF u
  <2> QED  BY <2>1, <2>2 DEF Range
<1>6. Range(u) = Range(s) \cup Range(t)
  <2>1. Range(u) \subseteq Range(s) \cup Range(t)  BY <1>3 DEF Range
  <2>2. Range(s) \subseteq Range(u) /\ Range(t) \subseteq Range(u)
    BY <1>4, <1>5 DEF Range
  <2> QED  BY <2>1, <2>2
<1>7. Range(<<>>) = {}  BY EmptySeq DEF Range
<1>8. Range(s) = {s[i] : i \in 1 .. Len(s)}  BY <1>0 DEF Range
<1> QED  BY <1>6, <1>7, <1>8 DEF u

\* The elements of a flattened sequence are those of its members.
LEMMA FlattenRange ==
  ASSUME NEW T, NEW s \in Seq(Seq(T))
  PROVE  Range(FlattenSeq(s)) = UNION {Range(s[i]) : i \in 1 .. Len(s)}
<1> DEFINE p(k) == SubSeq(s, 1, k)
           R(k) == UNION {Range(s[i]) : i \in 1 .. k}
           S == {k \in Nat : k <= Len(s) => Range(FlattenSeq(p(k))) = R(k)}
<1>0. Len(s) \in Nat  BY LenProperties
<1>1. 0 \in S
  <2>1. p(0) = <<>>  BY PrefixEnds
  <2>2. FlattenSeq(<<>>) = <<>> /\ Range(<<>>) = {}
    <3>1. <<>> \in Seq(T)  BY EmptySeq
    <3> QED  BY <3>1, FlattenAppend, RangeFacts
  <2>3. R(0) = {}  OBVIOUS
  <2> QED  BY <2>1, <2>2, <2>3
<1>2. ASSUME NEW k \in S, k + 1 <= Len(s)
      PROVE  Range(FlattenSeq(p(k + 1))) = R(k + 1)
  <2>0. k \in Nat /\ k < Len(s) /\ k <= Len(s)  BY <1>0, <1>2
  <2>1. /\ p(k) \in Seq(Seq(T)) /\ s[k + 1] \in Seq(T)
        /\ p(k + 1) = Append(p(k), s[k + 1])
    BY <2>0, PrefixStep
  <2>2. Range(FlattenSeq(p(k))) = R(k)  BY <1>2, <2>0
  <2>3. /\ FlattenSeq(p(k + 1)) = FlattenSeq(p(k)) \o s[k + 1]
        /\ FlattenSeq(p(k)) \in Seq(T)
    BY <2>1, FlattenAppend
  <2>4. Range(FlattenSeq(p(k + 1))) = R(k) \cup Range(s[k + 1])
    <3>1. Range(FlattenSeq(p(k)) \o s[k + 1]) = Range(FlattenSeq(p(k))) \cup Range(s[k + 1])
      <4>1. \A x, y \in Seq(T) : Range(x \o y) = Range(x) \cup Range(y)
        BY RangeFacts
      <4> QED  BY <2>1, <2>3, <4>1, Zenon
    <3> QED  BY <2>2, <2>3, <3>1
  <2>5. R(k + 1) = R(k) \cup Range(s[k + 1])
    <3>1. \A i : i \in 1 .. k + 1 <=> i \in 1 .. k \/ i = k + 1  BY <2>0
    <3> QED  BY <3>1
  <2> QED  BY <2>4, <2>5
<1> HIDE DEF p, R
<1>3. ASSUME NEW k \in S  PROVE k + 1 \in S
  <2>1. k \in Nat /\ k + 1 \in Nat  OBVIOUS
  <2> QED  BY <1>2, <2>1
<1>4. S \in SUBSET Nat  OBVIOUS
<1> HIDE DEF S
<1>5. Len(s) \in S  BY <1>0, <1>1, <1>3, <1>4, SetInduction
<1>6. Range(FlattenSeq(p(Len(s)))) = R(Len(s))  BY <1>0, <1>5 DEF S
<1> QED  BY <1>6, PrefixEnds DEF p, R

-----------------------------------------------------------------------------
(* What appending and cutting do to a sequence that conserves another.     *)

\* What a message appended to a sequence does to its elements.
LEMMA AppendFacts ==
  ASSUME NEW T, NEW s \in Seq(T), NEW m \in T
  PROVE  /\ Len(s) \in Nat /\ DOMAIN s = 1 .. Len(s)
         /\ Append(s, m) \in Seq(T)
         /\ DOMAIN Append(s, m) = 1 .. Len(s) + 1
         /\ \A i \in 1 .. Len(s) : Append(s, m)[i] = s[i] /\ s[i] \in Range(s)
         /\ Append(s, m)[Len(s) + 1] = m
         /\ Range(Append(s, m)) = Range(s) \cup {m}
<1> DEFINE u == Append(s, m)
           n == Len(s)
<1>1. n \in Nat /\ DOMAIN s = 1 .. n  BY LenProperties
<1>2. /\ u \in Seq(T) /\ Len(u) = n + 1 /\ DOMAIN u = 1 .. n + 1
      /\ \A i \in 1 .. n : u[i] = s[i]
      /\ u[n + 1] = m
  BY AppendProperties, LenProperties
<1>3. \A i \in 1 .. n : s[i] \in Range(s)  BY <1>1 DEF Range
<1> HIDE DEF u, n
<1>4. Range(u) = Range(s) \cup {m}
  <2>1. \A i \in 1 .. n + 1 : i \in 1 .. n \/ i = n + 1  BY <1>1
  <2>2. 1 .. n \subseteq 1 .. n + 1 /\ n + 1 \in 1 .. n + 1  BY <1>1
  <2>3. \A v \in Range(u) : v \in Range(s) \cup {m}
    BY <1>1, <1>2, <1>3, <2>1 DEF Range
  <2>4. m \in Range(u)  BY <1>2, <2>2 DEF Range
  <2>5. \A v \in Range(s) : v \in Range(u)  BY <1>1, <1>2, <2>2 DEF Range
  <2> QED  BY <2>3, <2>4, <2>5
<1> QED  BY <1>1, <1>2, <1>3, <1>4 DEF u, n

\* A new message that is kept.
LEMMA ConservedAppend ==
  ASSUME NEW T, NEW o \in Seq(T), NEW a \in Seq(T), NEW d, NEW m \in T,
         Conserved(o, a, d), m \notin Range(a), d \subseteq Range(a)
  PROVE  Conserved(Append(o, m), Append(a, m), d)
<1> DEFINE p == Append(o, m)
           b == Append(a, m)
           n == Len(o)
           q == Len(a)
<1>1. /\ n \in Nat /\ DOMAIN o = 1 .. n /\ DOMAIN p = 1 .. n + 1
      /\ \A i \in 1 .. n : p[i] = o[i] /\ o[i] \in Range(o)
      /\ p[n + 1] = m /\ Range(p) = Range(o) \cup {m}
  BY AppendFacts
<1>2. /\ q \in Nat /\ DOMAIN a = 1 .. q /\ DOMAIN b = 1 .. q + 1
      /\ \A i \in 1 .. q : b[i] = a[i] /\ a[i] \in Range(a)
      /\ b[q + 1] = m /\ Range(b) = Range(a) \cup {m}
  BY AppendFacts
<1> HIDE DEF p, b, n, q
<1>3. Range(o) = Range(a) \ d  BY DEF Conserved
<1>4. Range(p) = Range(b) \ d  BY <1>1, <1>2, <1>3
<1>5. ASSUME NEW i \in 1 .. n + 1, NEW k \in 1 .. q + 1, p[i] = b[k]
      PROVE  i = n + 1 <=> k = q + 1
  <2>1. CASE i = n + 1 /\ k # q + 1
    <3>1. k \in 1 .. q  BY <1>2, <2>1
    <3> QED  BY <1>1, <1>2, <1>5, <2>1, <3>1
  <2>2. CASE i # n + 1 /\ k = q + 1
    <3>1. i \in 1 .. n  BY <1>1, <2>2
    <3> QED  BY <1>1, <1>2, <1>3, <1>5, <2>2, <3>1
  <2> QED  BY <2>1, <2>2
<1>6. ASSUME NEW i \in 1 .. n + 1, NEW j \in 1 .. n + 1,
             NEW k \in 1 .. q + 1, NEW l \in 1 .. q + 1, p[i] = b[k], p[j] = b[l]
      PROVE  i < j <=> k < l
  <2>1. (i = n + 1 <=> k = q + 1) /\ (j = n + 1 <=> l = q + 1)  BY <1>5, <1>6
  <2>2. CASE i = n + 1  BY <1>1, <1>2, <2>1, <2>2
  <2>3. CASE i # n + 1 /\ j = n + 1  BY <1>1, <1>2, <2>1, <2>3
  <2>4. CASE i # n + 1 /\ j # n + 1
    <3>1. i \in 1 .. n /\ j \in 1 .. n /\ k \in 1 .. q /\ l \in 1 .. q
      BY <1>1, <1>2, <2>1, <2>4
    <3>2. o[i] = a[k] /\ o[j] = a[l]  BY <1>1, <1>2, <1>6, <3>1
    <3> QED  BY <1>1, <1>2, <3>1, <3>2 DEF Conserved
  <2> QED  BY <2>2, <2>3, <2>4
<1>7. Conserved(p, b, d)  BY <1>1, <1>2, <1>4, <1>6 DEF Conserved
<1> QED  BY <1>7 DEF p, b

\* A new message that is dropped.
LEMMA ConservedSkip ==
  ASSUME NEW T, NEW o \in Seq(T), NEW a \in Seq(T), NEW d, NEW m \in T,
         Conserved(o, a, d), m \notin Range(a)
  PROVE  Conserved(o, Append(a, m), d \cup {m})
<1> DEFINE b == Append(a, m)
           q == Len(a)
<1>1. DOMAIN o = 1 .. Len(o) /\ \A i \in DOMAIN o : o[i] \in Range(o)
  BY LenProperties DEF Range
<1>2. /\ q \in Nat /\ DOMAIN a = 1 .. q /\ DOMAIN b = 1 .. q + 1
      /\ \A i \in 1 .. q : b[i] = a[i] /\ a[i] \in Range(a)
      /\ b[q + 1] = m /\ Range(b) = Range(a) \cup {m}
  BY AppendFacts
<1> HIDE DEF b, q
<1>3. Range(o) = Range(a) \ d  BY DEF Conserved
<1>4. Range(o) = Range(b) \ (d \cup {m})  BY <1>2, <1>3
<1>5. ASSUME NEW i \in DOMAIN o, NEW k \in 1 .. q + 1, o[i] = b[k]
      PROVE  k \in 1 .. q /\ o[i] = a[k]
  <2>1. k # q + 1  BY <1>1, <1>2, <1>3, <1>5
  <2>2. k \in 1 .. q  BY <1>2, <2>1
  <2> QED  BY <1>2, <1>5, <2>2
<1>6. ASSUME NEW i \in DOMAIN o, NEW j \in DOMAIN o,
             NEW k \in 1 .. q + 1, NEW l \in 1 .. q + 1, o[i] = b[k], o[j] = b[l]
      PROVE  i < j <=> k < l
  <2>1. k \in 1 .. q /\ l \in 1 .. q /\ o[i] = a[k] /\ o[j] = a[l]  BY <1>5, <1>6
  <2> QED  BY <1>2, <2>1 DEF Conserved
<1>7. Conserved(o, b, d \cup {m})  BY <1>2, <1>4, <1>6 DEF Conserved
<1> QED  BY <1>7 DEF b

\* An element that is kept is kept once.
LEMMA ConservedOnce ==
  ASSUME NEW T, NEW o \in Seq(T), NEW a \in Seq(T), NEW d, Conserved(o, a, d),
         NEW i \in DOMAIN o, NEW j \in DOMAIN o, o[i] = o[j]
  PROVE  i = j
<1>1. /\ Len(o) \in Nat /\ DOMAIN o = 1 .. Len(o)
      /\ Len(a) \in Nat /\ DOMAIN a = 1 .. Len(a)
  BY LenProperties
<1>2. o[i] \in Range(a)
  <2>1. o[i] \in Range(o)  BY DEF Range
  <2> QED  BY <2>1 DEF Conserved
<1>3. PICK k \in DOMAIN a : o[i] = a[k]  BY <1>2 DEF Range
<1>4. (i < j <=> k < k) /\ (j < i <=> k < k)  BY <1>3 DEF Conserved
<1>5. i \in Int /\ j \in Int /\ k \in Int  BY <1>1
<1> QED  BY <1>4, <1>5

\* A part that is cut out and dropped.
LEMMA ConservedCut ==
  ASSUME NEW T, NEW x \in Seq(T), NEW y \in Seq(T), NEW z \in Seq(T),
         NEW a \in Seq(T), NEW d, Conserved(x \o (y \o z), a, d)
  PROVE  Conserved(x \o z, a, d \cup Range(y))
<1> DEFINE w == x \o (y \o z)
           v == x \o z
           f(i) == IF i <= Len(x) THEN i ELSE i + Len(y)
<1>0. /\ Len(x) \in Nat /\ Len(y) \in Nat /\ Len(z) \in Nat
      /\ DOMAIN y = 1 .. Len(y)
  BY LenProperties
<1>1. /\ y \o z \in Seq(T) /\ Len(y \o z) = Len(y) + Len(z)
      /\ \A i \in 1 .. Len(y) + Len(z) : (y \o z)[i] =
            IF i <= Len(y) THEN y[i] ELSE z[i - Len(y)]
  BY ConcatProperties
<1>2. /\ w \in Seq(T) /\ DOMAIN w = 1 .. Len(x) + (Len(y) + Len(z))
      /\ \A i \in 1 .. Len(x) + (Len(y) + Len(z)) : w[i] =
            IF i <= Len(x) THEN x[i] ELSE (y \o z)[i - Len(x)]
  <2> DEFINE yz == y \o z
  <2>1. yz \in Seq(T) /\ Len(yz) = Len(y) + Len(z)  BY <1>1
  <2> HIDE DEF yz
  <2>2. /\ x \o yz \in Seq(T) /\ Len(x \o yz) = Len(x) + Len(yz)
        /\ \A i \in 1 .. Len(x) + Len(yz) : (x \o yz)[i] =
            IF i <= Len(x) THEN x[i] ELSE yz[i - Len(x)]
    <3>1. ASSUME NEW r \in Seq(T)
          PROVE  /\ x \o r \in Seq(T) /\ Len(x \o r) = Len(x) + Len(r)
                 /\ \A i \in 1 .. Len(x) + Len(r) : (x \o r)[i] =
                      IF i <= Len(x) THEN x[i] ELSE r[i - Len(x)]
      BY ConcatProperties
    <3> QED  BY <2>1, <3>1
  <2>3. DOMAIN (x \o yz) = 1 .. Len(x \o yz)  BY <2>2, LenProperties
  <2> QED  BY <2>1, <2>2, <2>3 DEF yz
<1>3. /\ v \in Seq(T) /\ Len(v) = Len(x) + Len(z)
      /\ \A i \in 1 .. Len(x) + Len(z) : v[i] =
            IF i <= Len(x) THEN x[i] ELSE z[i - Len(x)]
  BY ConcatProperties
<1>4. DOMAIN v = 1 .. Len(x) + Len(z)  BY <1>3, LenProperties
<1> HIDE DEF w, v
<1>5. ASSUME NEW i \in DOMAIN v
      PROVE  f(i) \in DOMAIN w /\ v[i] = w[f(i)]
             /\ \A j \in 1 .. Len(y) : f(i) # Len(x) + j
  <2>1. CASE i <= Len(x)
    <3>1. i \in 1 .. Len(x) + (Len(y) + Len(z)) /\ f(i) = i  BY <1>0, <1>4, <2>1
    <3>2. \A j \in 1 .. Len(y) : i # Len(x) + j  BY <1>0, <1>4, <2>1
    <3> QED  BY <1>2, <1>3, <1>4, <2>1, <3>1, <3>2
  <2>2. CASE ~(i <= Len(x))
    <3> DEFINE g == i + Len(y)
    <3>1. /\ i \in 1 .. Len(x) + Len(z) /\ f(i) = g
          /\ g \in 1 .. Len(x) + (Len(y) + Len(z)) /\ ~(g <= Len(x))
          /\ g - Len(x) \in 1 .. Len(y) + Len(z) /\ ~(g - Len(x) <= Len(y))
          /\ (g - Len(x)) - Len(y) = i - Len(x)
      BY <1>0, <1>4, <2>2, SMTT(60)
    <3>2. \A j \in 1 .. Len(y) : g # Len(x) + j  BY <1>0, <1>4, <2>2
    <3> HIDE DEF g
    <3>3. w[g] = (y \o z)[g - Len(x)]  BY <1>2, <3>1
    <3>4. (y \o z)[g - Len(x)] = z[(g - Len(x)) - Len(y)]  BY <1>1, <3>1
    <3>5. v[i] = z[i - Len(x)]  BY <1>3, <2>2, <3>1
    <3> HIDE DEF f
    <3> QED  BY <1>2, <3>1, <3>2, <3>3, <3>4, <3>5
  <2> QED  BY <2>1, <2>2
<1>6. ASSUME NEW j \in 1 .. Len(y)
      PROVE  Len(x) + j \in DOMAIN w /\ w[Len(x) + j] = y[j]
  <2>1. /\ Len(x) + j \in 1 .. Len(x) + (Len(y) + Len(z))
        /\ ~(Len(x) + j <= Len(x)) /\ (Len(x) + j) - Len(x) = j
        /\ j \in 1 .. Len(y) + Len(z) /\ j <= Len(y)
    BY <1>0
  <2>2. w[Len(x) + j] = (y \o z)[j]  BY <1>2, <2>1
  <2>3. (y \o z)[j] = y[j]  BY <1>1, <2>1
  <2> QED  BY <1>2, <2>1, <2>2, <2>3
<1>7. ASSUME NEW g \in DOMAIN w
      PROVE  w[g] \in Range(v) \/ w[g] \in Range(y)
  <2>1. CASE g <= Len(x)
    <3>1. g \in 1 .. Len(x) + Len(z) /\ g \in 1 .. Len(x) + (Len(y) + Len(z))
      BY <1>0, <1>2, <2>1
    <3>2. w[g] = v[g]  BY <1>2, <1>3, <2>1, <3>1
    <3> QED  BY <1>4, <3>1, <3>2 DEF Range
  <2>2. CASE ~(g <= Len(x)) /\ g - Len(x) <= Len(y)
    <3>1. g - Len(x) \in 1 .. Len(y) /\ Len(x) + (g - Len(x)) = g
      BY <1>0, <1>2, <2>2
    <3>2. w[g] = y[g - Len(x)]  BY <1>6, <3>1
    <3> QED  BY <1>0, <3>1, <3>2 DEF Range
  <2>3. CASE ~(g <= Len(x)) /\ ~(g - Len(x) <= Len(y))
    <3>1. /\ g - Len(y) \in DOMAIN v /\ ~(g - Len(y) <= Len(x))
          /\ (g - Len(y)) + Len(y) = g
      BY <1>0, <1>2, <1>4, <2>3
    <3>2. f(g - Len(y)) = g  BY <3>1
    <3>3. v[g - Len(y)] = w[g]  BY <1>5, <3>1, <3>2
    <3> QED  BY <3>1, <3>3 DEF Range
  <2> QED  BY <2>1, <2>2, <2>3
<1>8. Conserved(w, a, d)  BY DEF w
<1>9. Range(w) = Range(a) \ d  BY <1>8 DEF Conserved
<1>10. ASSUME NEW i \in DOMAIN v
       PROVE  v[i] \in Range(w) /\ v[i] \notin Range(y)
  <2>1. f(i) \in DOMAIN w /\ v[i] = w[f(i)]  BY <1>5
  <2>2. ASSUME NEW j \in 1 .. Len(y)  PROVE v[i] # y[j]
    <3>1. f(i) # Len(x) + j  BY <1>5
    <3>2. Len(x) + j \in DOMAIN w /\ w[Len(x) + j] = y[j]  BY <1>6
    <3> HIDE DEF f
    <3>3. w[f(i)] # w[Len(x) + j]  BY <1>2, <1>8, <2>1, <3>1, <3>2, ConservedOnce
    <3> QED  BY <2>1, <3>2, <3>3
  <2> HIDE DEF f
  <2> QED  BY <1>0, <2>1, <2>2 DEF Range
<1>11. ASSUME NEW j \in 1 .. Len(y)  PROVE y[j] \in Range(w)
  BY <1>6 DEF Range
<1>12. Range(v) = Range(a) \ (d \cup Range(y))
  <2>1. \A e \in Range(v) : e \in Range(w) /\ e \notin Range(y)  BY <1>10 DEF Range
  <2>2. \A e \in Range(w) : e \in Range(v) \/ e \in Range(y)  BY <1>7 DEF Range
  <2> QED  BY <1>9, <2>1, <2>2
<1>13. ASSUME NEW i \in DOMAIN v, NEW j \in DOMAIN v,
              NEW k \in DOMAIN a, NEW l \in DOMAIN a, v[i] = a[k], v[j] = a[l]
       PROVE  i < j <=> k < l
  <2>1. /\ f(i) \in DOMAIN w /\ w[f(i)] = a[k]
        /\ f(j) \in DOMAIN w /\ w[f(j)] = a[l]
    BY <1>5, <1>13
  <2>2. i < j <=> f(i) < f(j)  BY <1>0, <1>4
  <2> HIDE DEF f
  <2>3. f(i) < f(j) <=> k < l  BY <1>8, <2>1 DEF Conserved
  <2> QED  BY <2>2, <2>3
<1>14. Conserved(v, a, d \cup Range(y))  BY <1>12, <1>13 DEF Conserved
<1> QED  BY <1>14 DEF v

-----------------------------------------------------------------------------
(* What was handed to append(), in the order of the buffers it is in: the  *)
(* file f, the batch w, the filled buffers b and the current buffer c.     *)

Total(f, w, b, c) == f \o (FlattenSeq(w) \o (FlattenSeq(b) \o c))

\* What of it is not in the file, as Unwritten has it.
Left(w, b, c) == FlattenSeq(w \o b \o <<c>>)

ConcatClosed(T) == \A x, y \in Seq(T) : x \o y \in Seq(T)
ConcatAssoc(T) == \A x, y, z \in Seq(T) : (x \o y) \o z = x \o (y \o z)

\* Concatenation of buffers is a buffer, and associative.
LEMMA BufConcat == ASSUME NEW T PROVE ConcatClosed(T) /\ ConcatAssoc(T)
<1>1. ConcatClosed(T)  BY ConcatProperties DEF ConcatClosed
<1>2. ConcatAssoc(T)  BY ConcatAssociative DEF ConcatAssoc
<1> QED  BY <1>1, <1>2

\* The parts of Total are sequences, and Unwritten is all but the file.
LEMMA TotalType ==
  ASSUME NEW T, NEW f \in Seq(T), NEW w \in Seq(Seq(T)), NEW b \in Seq(Seq(T)),
         NEW c \in Seq(T)
  PROVE  /\ FlattenSeq(w) \in Seq(T) /\ FlattenSeq(b) \in Seq(T)
         /\ FlattenSeq(b) \o c \in Seq(T)
         /\ Total(f, w, b, c) \in Seq(T)
         /\ Total(f, w, b, c) = f \o Left(w, b, c)
<1>0. ConcatClosed(T) /\ ConcatAssoc(T)  BY BufConcat
<1>1. FlattenSeq(w) \in Seq(T) /\ FlattenSeq(b) \in Seq(T)  BY FlattenAppend
<1>2. FlattenSeq(b) \o c \in Seq(T)
  BY <1>1, <1>0, Zenon DEF ConcatClosed, ConcatAssoc
<1>3. FlattenSeq(w) \o (FlattenSeq(b) \o c) \in Seq(T)
  BY <1>1, <1>2, <1>0, Zenon DEF ConcatClosed, ConcatAssoc
<1>4. Total(f, w, b, c) \in Seq(T)  BY <1>3, <1>0 DEF Total, ConcatClosed
<1>5. FlattenSeq(w \o b \o <<c>>) = FlattenSeq(w) \o (FlattenSeq(b) \o c)
  <2> DEFINE wb == w \o b
  <2>1. wb \in Seq(Seq(T)) /\ FlattenSeq(wb) = FlattenSeq(w) \o FlattenSeq(b)
    BY ConcatProperties, FlattenConcat
  <2> HIDE DEF wb
  <2>2. wb \o <<c>> = Append(wb, c)  BY <2>1, AppendIsConcat
  <2>3. FlattenSeq(Append(wb, c)) = FlattenSeq(wb) \o c  BY <2>1, FlattenAppend
  <2>4. (FlattenSeq(w) \o FlattenSeq(b)) \o c = FlattenSeq(w) \o (FlattenSeq(b) \o c)
    BY <1>1, <1>0, Zenon DEF ConcatClosed, ConcatAssoc
  <2> QED  BY <2>1, <2>2, <2>3, <2>4 DEF wb
<1> QED  BY <1>1, <1>2, <1>4, <1>5 DEF Total, Left

\* A message copied into the current buffer comes last.
LEMMA TotalAppend ==
  ASSUME NEW T, NEW f \in Seq(T), NEW w \in Seq(Seq(T)), NEW b \in Seq(Seq(T)),
         NEW c \in Seq(T), NEW m \in T
  PROVE  Total(f, w, b, Append(c, m)) = Append(Total(f, w, b, c), m)
<1> DEFINE x == FlattenSeq(w)
           y == FlattenSeq(b)
           e == <<m>>
<1>0. ConcatClosed(T) /\ ConcatAssoc(T)  BY BufConcat
<1>1. x \in Seq(T) /\ y \in Seq(T)  BY TotalType
<1>6. e \in Seq(T)  OBVIOUS
<1>2. Append(c, m) = c \o e /\ Append(Total(f, w, b, c), m) = Total(f, w, b, c) \o e
  BY TotalType, AppendIsConcat
<1> HIDE DEF x, y, e
<1>3. y \o c \in Seq(T) /\ (y \o c) \o e = y \o (c \o e)
  BY <1>1, <1>6, <1>0, ZenonT(60) DEF ConcatClosed, ConcatAssoc
<1>4. x \o (y \o c) \in Seq(T) /\ (x \o (y \o c)) \o e = x \o ((y \o c) \o e)
  BY <1>1, <1>6, <1>3, <1>0, ZenonT(60) DEF ConcatClosed, ConcatAssoc
<1>5. (f \o (x \o (y \o c))) \o e = f \o ((x \o (y \o c)) \o e)
  BY <1>1, <1>6, <1>4, <1>0, ZenonT(60) DEF ConcatClosed, ConcatAssoc
<1> QED  BY <1>2, <1>3, <1>4, <1>5 DEF Total, x, y

\* A filled buffer keeps its place when the next one becomes current.
LEMMA TotalFilled ==
  ASSUME NEW T, NEW f \in Seq(T), NEW w \in Seq(Seq(T)), NEW b \in Seq(Seq(T)),
         NEW c \in Seq(T)
  PROVE  Total(f, w, Append(b, c), <<>>) = Total(f, w, b, c)
<1>1. FlattenSeq(Append(b, c)) = FlattenSeq(b) \o c  BY FlattenAppend
<1>2. FlattenSeq(b) \o c \in Seq(T)  BY TotalType
<1>3. (FlattenSeq(b) \o c) \o <<>> = FlattenSeq(b) \o c  BY <1>2, ConcatEmptySeq
<1> QED  BY <1>1, <1>3 DEF Total

\* The critical section turns the filled buffers and the current one into
\* the batch.
LEMMA TotalSwap ==
  ASSUME NEW T, NEW f \in Seq(T), NEW b \in Seq(Seq(T)), NEW c \in Seq(T)
  PROVE  Total(f, Append(b, c), <<>>, <<>>) = Total(f, <<>>, b, c)
<1>1. /\ FlattenSeq(Append(b, c)) = FlattenSeq(b) \o c
      /\ FlattenSeq(<<>>) = <<>>
  BY FlattenAppend
<1>2. FlattenSeq(b) \o c \in Seq(T)
  <2>1. <<>> \in Seq(Seq(T))  BY EmptySeq
  <2> QED  BY <2>1, TotalType
<1>3. <<>> \o <<>> = <<>>
  <2>1. <<>> \in Seq(T)  BY EmptySeq
  <2> QED  BY <2>1, ConcatEmptySeq
<1>4. /\ (FlattenSeq(b) \o c) \o <<>> = FlattenSeq(b) \o c
      /\ <<>> \o (FlattenSeq(b) \o c) = FlattenSeq(b) \o c
  BY <1>2, ConcatEmptySeq
<1> QED  BY <1>1, <1>3, <1>4 DEF Total

\* The first buffer of the batch goes to the end of the file.
LEMMA TotalWrite ==
  ASSUME NEW T, NEW f \in Seq(T), NEW h \in Seq(T), NEW w \in Seq(Seq(T)),
         NEW b \in Seq(Seq(T)), NEW c \in Seq(T)
  PROVE  Total(f \o h, w, b, c) = Total(f, <<h>> \o w, b, c)
<1> DEFINE x == FlattenSeq(w)
           y == FlattenSeq(b) \o c
<1>0. ConcatClosed(T) /\ ConcatAssoc(T)  BY BufConcat
<1>1. x \in Seq(T) /\ y \in Seq(T)  BY TotalType
<1>2. FlattenSeq(<<h>> \o w) = h \o x
  <2>1. <<h>> \in Seq(Seq(T))  OBVIOUS
  <2>2. FlattenSeq(<<h>> \o w) = FlattenSeq(<<h>>) \o x  BY <2>1, FlattenConcat
  <2> QED  BY <2>2, FlattenOne
<1> HIDE DEF x, y
<1>3. x \o y \in Seq(T) /\ (h \o x) \o y = h \o (x \o y)
  BY <1>1, <1>0, ZenonT(60) DEF ConcatClosed, ConcatAssoc
<1>4. (f \o h) \o (x \o y) = f \o (h \o (x \o y))
  BY <1>3, <1>0, Zenon DEF ConcatClosed, ConcatAssoc
<1> QED  BY <1>2, <1>3, <1>4 DEF Total, x, y

\* The end of the batch is cut off and dropped.
LEMMA TotalCut ==
  ASSUME NEW T, NEW f \in Seq(T), NEW k \in Seq(Seq(T)), NEW r \in Seq(Seq(T)),
         NEW b \in Seq(Seq(T)), NEW c \in Seq(T), NEW a \in Seq(T), NEW d,
         Conserved(Total(f, k \o r, b, c), a, d)
  PROVE  Conserved(Total(f, k, b, c), a, d \cup Range(FlattenSeq(r)))
<1> DEFINE x == FlattenSeq(k)
           y == FlattenSeq(r)
           z == FlattenSeq(b) \o c
<1>0. ConcatClosed(T) /\ ConcatAssoc(T)  BY BufConcat
<1>1. x \in Seq(T) /\ y \in Seq(T) /\ z \in Seq(T)
  <2>1. x \in Seq(T) /\ z \in Seq(T)  BY TotalType
  <2>2. y \in Seq(T)  BY FlattenAppend
  <2> QED  BY <2>1, <2>2
<1>2. FlattenSeq(k \o r) = x \o y  BY FlattenConcat
<1> HIDE DEF x, y, z
<1>3. y \o z \in Seq(T) /\ (x \o y) \o z = x \o (y \o z)
  BY <1>1, <1>0, ZenonT(60) DEF ConcatClosed, ConcatAssoc
<1>4. f \o x \in Seq(T) /\ (f \o x) \o (y \o z) = f \o (x \o (y \o z))
  BY <1>1, <1>3, <1>0, ZenonT(60) DEF ConcatClosed, ConcatAssoc
<1>5. (f \o x) \o z = f \o (x \o z)
  BY <1>1, <1>0, ZenonT(60) DEF ConcatClosed, ConcatAssoc
<1>6. Conserved((f \o x) \o (y \o z), a, d)  BY <1>2, <1>3, <1>4 DEF Total, x, y, z
<1>7. Conserved((f \o x) \o z, a, d \cup Range(y))
  BY <1>1, <1>4, <1>6, ConservedCut
<1> QED  BY <1>5, <1>7 DEF Total, x, y, z

-----------------------------------------------------------------------------
(* Every message is conserved.  The invariant adds that only what was      *)
(* appended is dropped: a message that append() sees for the first time is *)
(* then new to the file and to every buffer.                               *)

ConservedInv ==
  /\ dropped \subseteq Range(appended)
  /\ Conserved(Total(file, ToWrite, bufs_, curBuf_), appended, dropped)

\* The part of a batch that is still to be written is a sequence of buffers.
LEMMA ToWriteType == ASSUME PtrType PROVE ToWrite \in Seq(Buf)
<1>1. <<>> \in Seq(Buf)  BY EmptySeq
<1>2. \A i \in next .. Len(bufs) : bufs[i] \in Buf
  BY LenProperties, ElementOfSeq DEF PtrType
<1>3. SubSeq(bufs, next, Len(bufs)) \in Seq(Buf)
  BY <1>2, LenProperties, SubSeqProperties DEF PtrType
<1> QED  BY <1>1, <1>3 DEF ToWrite, PtrType

\* append(): the message comes last, or is the one that is dropped.
LEMMA AppendConserved ==
  ASSUME SpareInv, HistoryType, ConservedInv, NEW m \in Msg, AppendMsg(m)
  PROVE  ConservedInv'
<1> DEFINE t == Total(file, ToWrite, bufs_, curBuf_)
<1>0. /\ file \in Seq(Msg) /\ appended \in Seq(Msg)
      /\ ToWrite \in Seq(Seq(Msg)) /\ bufs_ \in Seq(Seq(Msg)) /\ curBuf_ \in Seq(Msg)
      /\ nxtBuf_ \in {Null, <<>>} /\ <<>> \in Seq(Msg)
  BY ToWriteType, EmptySeq DEF SpareInv, PtrType, HistoryType, Buf
<1>1. t \in Seq(Msg)  BY <1>0, TotalType
<1>2. /\ m \notin Range(appended) /\ appended' = Append(appended, m)
      /\ dropped' = dropped \cup ({m} \cap Huge) /\ file' = file
  BY DEF AppendMsg
<1>3. ToWrite' = ToWrite
  BY DEF AppendMsg, Notified, back, ToWrite
<1>4. dropped \subseteq Range(appended) /\ Conserved(t, appended, dropped)
  BY DEF ConservedInv
<1>5. dropped' \subseteq Range(appended')
  <2>1. Range(Append(appended, m)) = Range(appended) \cup {m}  BY <1>0, AppendFacts
  <2> QED  BY <1>2, <1>4, <2>1
<1> HIDE DEF t
<1>6. ASSUME m \notin Huge  PROVE Conserved(Append(t, m), appended', dropped')
  <2>1. dropped' = dropped  BY <1>2, <1>6
  <2>2. Conserved(Append(t, m), Append(appended, m), dropped)
    BY <1>0, <1>1, <1>2, <1>4, ConservedAppend
  <2> QED  BY <1>2, <2>1, <2>2
<1>7. ASSUME m \in Huge  PROVE Conserved(t, appended', dropped')
  <2>1. dropped' = dropped \cup {m}  BY <1>2, <1>7
  <2>2. Conserved(t, Append(appended, m), dropped \cup {m})
    BY <1>0, <1>1, <1>2, <1>4, ConservedSkip
  <2> QED  BY <1>2, <2>1, <2>2
<1>8. CASE m \notin Huge /\ Len(curBuf_) < Cap
  <2>1. curBuf_' = Append(curBuf_, m) /\ bufs_' = bufs_  BY <1>8 DEF AppendMsg
  <2>2. Total(file, ToWrite, bufs_, Append(curBuf_, m)) = Append(t, m)
    BY <1>0, TotalAppend DEF t
  <2> QED  BY <1>2, <1>3, <1>5, <1>6, <1>8, <2>1, <2>2 DEF ConservedInv
<1>9. CASE ~(m \notin Huge /\ Len(curBuf_) < Cap)
  <2> DEFINE b == Append(bufs_, curBuf_)
  <2>1. bufs_' = b /\ curBuf_' = Copied(IF nxtBuf_ # Null THEN nxtBuf_ ELSE <<>>, m)
    BY <1>9 DEF AppendMsg
  <2>2. curBuf_' = IF m \in Huge THEN <<>> ELSE Append(<<>>, m)
    BY <1>0, <2>1 DEF Copied
  <2>3. b \in Seq(Seq(Msg)) /\ Total(file, ToWrite, b, <<>>) = t
    BY <1>0, AppendProperties, TotalFilled DEF t
  <2> HIDE DEF b
  <2>4. Total(file, ToWrite, b, Append(<<>>, m)) = Append(Total(file, ToWrite, b, <<>>), m)
    <3>1. ASSUME NEW c \in Seq(Msg)
          PROVE  Total(file, ToWrite, b, Append(c, m)) = Append(Total(file, ToWrite, b, c), m)
      BY <1>0, <2>3, TotalAppend, SMTT(60)
    <3> QED  BY <1>0, <3>1
  <2>5. CASE m \in Huge
    BY <1>2, <1>3, <1>5, <1>7, <2>1, <2>2, <2>3, <2>5 DEF ConservedInv
  <2>6. CASE m \notin Huge
    BY <1>2, <1>3, <1>5, <1>6, <2>1, <2>2, <2>3, <2>4, <2>6 DEF ConservedInv
  <2> QED  BY <2>5, <2>6
<1> QED  BY <1>8, <1>9

\* The critical section of threadFunc() moves buffers and no message.
LEMMA SwapConserved ==
  ASSUME SpareInv, HistoryType, ConservedInv, Swap
  PROVE  ConservedInv'
<1>0. file \in Seq(Msg) /\ bufs_ \in Seq(Seq(Msg)) /\ curBuf_ \in Seq(Msg)
  BY DEF SpareInv, PtrType, HistoryType, Buf
<1>1. pc \notin Holding /\ pc # "trim" /\ pc # "write" /\ pc' = "trim"
  BY DEF Swap, Holding
<1>2. buf1 = <<>>  BY <1>1 DEF SpareInv, BackInv
<1>3. /\ bufs' = Append(bufs_, curBuf_) /\ bufs_' = <<>> /\ curBuf_' = <<>>
      /\ file' = file /\ appended' = appended /\ dropped' = dropped
  BY <1>2 DEF Swap, Swapped, history
<1>4. ToWrite = <<>> /\ ToWrite' = Append(bufs_, curBuf_)
  BY <1>1, <1>3 DEF ToWrite
<1>5. Total(file, Append(bufs_, curBuf_), <<>>, <<>>) = Total(file, <<>>, bufs_, curBuf_)
  BY <1>0, TotalSwap
<1> QED  BY <1>3, <1>4, <1>5 DEF ConservedInv

\* Writing a buffer moves its messages from the batch to the file.
LEMMA WriteConserved ==
  ASSUME SpareInv, HistoryType, ConservedInv, Write
  PROVE  ConservedInv'
<1> DEFINE n == Len(bufs)
           w == SubSeq(bufs, next + 1, n)
           h == bufs[next]
<1>0. /\ file \in Seq(Msg) /\ bufs_ \in Seq(Seq(Msg)) /\ curBuf_ \in Seq(Msg)
      /\ bufs \in Seq(Seq(Msg)) /\ next \in Nat \ {0} /\ n \in Nat
  BY LenProperties DEF SpareInv, PtrType, HistoryType, Buf
<1>1. /\ pc = "write" /\ pc' = "write" /\ next \in 1 .. n /\ next' = next + 1
      /\ bufs' = bufs /\ file' = file \o h
      /\ UNCHANGED <<bufs_, curBuf_, appended, dropped>>
  BY <1>0 DEF Write, front, history
<1>2. ToWrite = SubSeq(bufs, next, n) /\ ToWrite' = w  BY <1>1 DEF ToWrite
<1>3. h \in Seq(Msg) /\ w \in Seq(Seq(Msg)) /\ SubSeq(bufs, next, n) = <<h>> \o w
  <2>1. \A i \in 1 .. n : bufs[i] \in Seq(Msg)  BY <1>0, ElementOfSeq
  <2> DEFINE u == SubSeq(bufs, next, n)
  <2>2. /\ w \in Seq(Seq(Msg))
        /\ Len(w) = IF next + 1 <= n THEN n - (next + 1) + 1 ELSE 0
        /\ \A i \in 1 .. n - (next + 1) + 1 : w[i] = bufs[(next + 1) + i - 1]
    <3>1. \A i \in next + 1 .. n : bufs[i] \in Seq(Msg)  BY <1>0, <2>1
    <3>2. next + 1 \in Int /\ n \in Int  BY <1>0
    <3> QED  BY <3>1, <3>2, SubSeqProperties
  <2>3. /\ u \in Seq(Seq(Msg))
        /\ Len(u) = IF next <= n THEN n - next + 1 ELSE 0
        /\ \A i \in 1 .. n - next + 1 : u[i] = bufs[next + i - 1]
    <3>1. \A i \in next .. n : bufs[i] \in Seq(Msg)  BY <1>0, <2>1
    <3>2. next \in Int /\ n \in Int  BY <1>0
    <3> QED  BY <3>1, <3>2, SubSeqProperties
  <2>4. h \in Seq(Msg)  BY <1>1, <2>1
  <2> HIDE DEF n, w, h, u
  <2>5. Len(w) = n - next /\ Len(u) = n - next + 1  BY <1>0, <1>1, <2>2, <2>3
  <2>6. <<h>> \in Seq(Seq(Msg)) /\ Len(<<h>>) = 1 /\ <<h>>[1] = h  BY <2>4
  <2> DEFINE v == <<h>> \o w
  <2>7. /\ v \in Seq(Seq(Msg)) /\ Len(v) = 1 + Len(w)
        /\ \A i \in 1 .. 1 + Len(w) : v[i] = IF i <= 1 THEN <<h>>[i] ELSE w[i - 1]
    BY <2>2, <2>6, ConcatProperties
  <2> HIDE DEF v
  <2>8. Len(v) = Len(u)  BY <1>0, <1>1, <2>5, <2>7
  <2>9. ASSUME NEW i \in 1 .. Len(u)  PROVE u[i] = v[i]
    <3>1. i \in 1 .. n - next + 1 /\ i \in 1 .. 1 + Len(w)  BY <1>0, <1>1, <2>5
    <3>2. u[i] = bufs[next + i - 1]  BY <2>3, <3>1
    <3>3. CASE i = 1
      <4>1. next + i - 1 = next  BY <1>0, <3>3
      <4>2. v[i] = h  BY <2>6, <2>7, <3>1, <3>3
      <4> QED  BY <3>2, <4>1, <4>2 DEF h
    <3>4. CASE i # 1
      <4>1. /\ ~(i <= 1) /\ i - 1 \in 1 .. n - (next + 1) + 1
            /\ (next + 1) + (i - 1) - 1 = next + i - 1
        BY <1>0, <1>1, <3>1, <3>4
      <4>2. v[i] = w[i - 1]  BY <2>7, <3>1, <4>1
      <4>3. w[i - 1] = bufs[(next + 1) + (i - 1) - 1]  BY <2>2, <4>1
      <4> QED  BY <3>2, <4>1, <4>2, <4>3
    <3> QED  BY <3>3, <3>4
  <2>10. u = v  BY <2>3, <2>7, <2>8, <2>9, SeqEqual
  <2> QED  BY <2>2, <2>4, <2>10 DEF u, v
<1> HIDE DEF w, h, n
<1>4. Total(file \o h, w, bufs_, curBuf_) = Total(file, <<h>> \o w, bufs_, curBuf_)
  BY <1>0, <1>3, TotalWrite
<1> QED  BY <1>1, <1>2, <1>3, <1>4 DEF ConservedInv

\* A sequence is its first j elements and the others.
LEMMA SplitAt ==
  ASSUME NEW T, NEW s \in Seq(T), NEW j \in 1 .. Len(s)
  PROVE  /\ SubSeq(s, 1, j) \in Seq(T) /\ SubSeq(s, j + 1, Len(s)) \in Seq(T)
         /\ Len(SubSeq(s, j + 1, Len(s))) = Len(s) - j
         /\ \A i \in 1 .. Len(s) - j : SubSeq(s, j + 1, Len(s))[i] = s[j + i]
         /\ s = SubSeq(s, 1, j) \o SubSeq(s, j + 1, Len(s))
<1> DEFINE n == Len(s)
           k == SubSeq(s, 1, j)
           r == SubSeq(s, j + 1, n)
<1>0. n \in Nat /\ j \in Nat /\ j <= n /\ \A i \in 1 .. n : s[i] \in T
  BY LenProperties, ElementOfSeq
<1>1. /\ k \in Seq(T) /\ Len(k) = IF 1 <= j THEN j - 1 + 1 ELSE 0
      /\ \A i \in 1 .. j - 1 + 1 : k[i] = s[1 + i - 1]
  <2>1. \A i \in 1 .. j : s[i] \in T  BY <1>0
  <2> QED  BY <1>0, <2>1, SubSeqProperties
<1>2. /\ r \in Seq(T) /\ Len(r) = IF j + 1 <= n THEN n - (j + 1) + 1 ELSE 0
      /\ \A i \in 1 .. n - (j + 1) + 1 : r[i] = s[(j + 1) + i - 1]
  <2>1. \A i \in j + 1 .. n : s[i] \in T  BY <1>0
  <2>2. j + 1 \in Int /\ n \in Int  BY <1>0
  <2> QED  BY <2>1, <2>2, SubSeqProperties
<1> HIDE DEF n, k, r
<1>3. Len(k) = j /\ Len(r) = n - j  BY <1>0, <1>1, <1>2
<1>4. ASSUME NEW i \in 1 .. j  PROVE k[i] = s[i]
  <2>1. i \in 1 .. j - 1 + 1 /\ 1 + i - 1 = i  BY <1>0
  <2> QED  BY <1>1, <2>1
<1>5. ASSUME NEW i \in 1 .. n - j  PROVE r[i] = s[j + i]
  <2>1. i \in 1 .. n - (j + 1) + 1 /\ (j + 1) + i - 1 = j + i  BY <1>0
  <2> QED  BY <1>2, <2>1
<1> DEFINE u == k \o r
<1>6. /\ u \in Seq(T) /\ Len(u) = Len(k) + Len(r)
      /\ \A i \in 1 .. Len(k) + Len(r) : u[i] = IF i <= Len(k) THEN k[i] ELSE r[i - Len(k)]
  BY <1>1, <1>2, ConcatProperties
<1> HIDE DEF u
<1>7. Len(u) = n  BY <1>0, <1>3, <1>6
<1>8. ASSUME NEW i \in 1 .. n  PROVE u[i] = s[i]
  <2>0. i \in 1 .. Len(k) + Len(r)  BY <1>0, <1>3
  <2>1. CASE i <= j
    <3>1. i \in 1 .. j  BY <1>0, <2>1
    <3> QED  BY <1>3, <1>4, <1>6, <2>0, <2>1, <3>1
  <2>2. CASE ~(i <= j)
    <3>1. i - j \in 1 .. n - j /\ j + (i - j) = i  BY <1>0, <2>2
    <3>2. u[i] = r[i - j]  BY <1>3, <1>6, <2>0, <2>2
    <3> QED  BY <1>5, <3>1, <3>2
  <2> QED  BY <2>1, <2>2
<1>9. s = u
  <2>1. Len(s) = n  BY DEF n
  <2> QED  BY <1>6, <1>7, <1>8, <2>1, SeqEqual
<1> QED  BY <1>1, <1>2, <1>3, <1>5, <1>9 DEF n, k, r, u

\* Cutting a batch drops what was in the buffers that are cut off.
LEMMA TrimConserved ==
  ASSUME SpareInv, HistoryType, ConservedInv, Trim
  PROVE  ConservedInv'
<1> DEFINE n == Len(bufs)
           k == SubSeq(bufs, 1, 2)
           r == SubSeq(bufs, 3, n)
<1>0. /\ file \in Seq(Msg) /\ bufs_ \in Seq(Seq(Msg)) /\ curBuf_ \in Seq(Msg)
      /\ bufs \in Seq(Seq(Msg)) /\ n \in Nat /\ appended \in Seq(Msg)
  BY LenProperties DEF SpareInv, PtrType, HistoryType, Buf
<1>1. /\ pc = "trim" /\ pc' = "write" /\ next' = 1
      /\ UNCHANGED <<file, bufs_, curBuf_, appended>>
  BY DEF Trim, front
<1>2. ToWrite = bufs /\ ToWrite' = SubSeq(bufs', 1, Len(bufs'))  BY <1>1 DEF ToWrite
<1>3. /\ dropped \subseteq Range(appended)
      /\ Conserved(Total(file, bufs, bufs_, curBuf_), appended, dropped)
  BY <1>2 DEF ConservedInv
<1>4. CASE ~(n > MaxBufs)
  <2>1. bufs' = bufs /\ dropped' = dropped  BY <1>4 DEF Trim
  <2>2. SubSeq(bufs, 1, n) = bufs  BY <1>0, PrefixEnds
  <2> QED  BY <1>1, <1>2, <1>3, <2>1, <2>2 DEF ConservedInv
<1>5. CASE n > MaxBufs
  <2>1. /\ bufs' = k
        /\ dropped' = dropped \cup UNION {Range(bufs[i]) : i \in 3 .. n}
    BY <1>5 DEF Trim, KeptBufs
  <2>2. 2 \in 1 .. n  BY <1>0, <1>5, LoggingAssumption
  <2>3. /\ k \in Seq(Seq(Msg)) /\ r \in Seq(Seq(Msg)) /\ bufs = k \o r
        /\ Len(r) = n - 2 /\ \A i \in 1 .. n - 2 : r[i] = bufs[2 + i]
    <3>1. 2 + 1 = 3  OBVIOUS
    <3> DEFINE D == Seq(Msg)
    <3>2. bufs \in Seq(D)  BY <1>0
    <3> HIDE DEF D
    <3>3. /\ SubSeq(bufs, 1, 2) \in Seq(D) /\ SubSeq(bufs, 2 + 1, n) \in Seq(D)
          /\ Len(SubSeq(bufs, 2 + 1, n)) = n - 2
          /\ \A i \in 1 .. n - 2 : SubSeq(bufs, 2 + 1, n)[i] = bufs[2 + i]
          /\ bufs = SubSeq(bufs, 1, 2) \o SubSeq(bufs, 2 + 1, n)
      BY <2>2, <3>2, SplitAt
    <3> QED  BY <3>1, <3>3 DEF D
  <2> HIDE DEF k, r
  <2>4. UNION {Range(bufs[i]) : i \in 3 .. n} = Range(FlattenSeq(r))
    <3> HIDE DEF n
    <3>1. Range(FlattenSeq(r)) = UNION {Range(r[i]) : i \in 1 .. n - 2}
      BY <2>3, FlattenRange
    <3>2. ASSUME NEW i \in 1 .. n - 2  PROVE \E l \in 3 .. n : r[i] = bufs[l]
      <4>1. 2 + i \in 3 .. n  BY <1>0
      <4> QED  BY <2>3, <4>1
    <3>3. ASSUME NEW l \in 3 .. n  PROVE \E i \in 1 .. n - 2 : r[i] = bufs[l]
      <4>1. l - 2 \in 1 .. n - 2 /\ 2 + (l - 2) = l  BY <1>0
      <4> QED  BY <2>3, <4>1
    <3> QED  BY <3>1, <3>2, <3>3
  <2>5. ToWrite' = k  BY <1>2, <2>1, <2>3, PrefixEnds
  <2>6. Conserved(Total(file, k, bufs_, curBuf_), appended,
                  dropped \cup Range(FlattenSeq(r)))
    BY <1>0, <1>3, <2>3, TotalCut
  <2>7. Range(FlattenSeq(r)) \subseteq Range(appended)
    <3> DEFINE x == FlattenSeq(k)
               y == FlattenSeq(r)
               z == FlattenSeq(bufs_) \o curBuf_
    <3>1. x \in Seq(Msg) /\ y \in Seq(Msg) /\ z \in Seq(Msg)
          /\ FlattenSeq(bufs) = x \o y
      BY <1>0, <2>3, TotalType, FlattenConcat
    <3>2. Total(file, bufs, bufs_, curBuf_) = file \o ((x \o y) \o z)
      BY <3>1 DEF Total
    <3> HIDE DEF x, y, z
    <3>3. ConcatClosed(Msg)  BY BufConcat
    <3>4. x \o y \in Seq(Msg)  BY <3>1, <3>3 DEF ConcatClosed
    <3>5. (x \o y) \o z \in Seq(Msg)  BY <3>1, <3>3, <3>4 DEF ConcatClosed
    <3>6. \A p, q \in Seq(Msg) : Range(p \o q) = Range(p) \cup Range(q)
      BY RangeFacts
    <3>7. Range(y) \subseteq Range(x \o y)  BY <3>1, <3>6, Zenon
    <3>8. Range(x \o y) \subseteq Range((x \o y) \o z)  BY <3>1, <3>4, <3>6, Zenon
    <3>9. Range((x \o y) \o z) \subseteq Range(file \o ((x \o y) \o z))
      BY <1>0, <3>5, <3>6, ZenonT(60)
    <3>10. Range(file \o ((x \o y) \o z)) \subseteq Range(appended)
      BY <1>3, <3>2 DEF Conserved
    <3> QED  BY <3>7, <3>8, <3>9, <3>10 DEF y
  <2> QED  BY <1>1, <1>3, <2>1, <2>4, <2>5, <2>6, <2>7 DEF ConservedInv
<1> QED  BY <1>4, <1>5

\* Nothing is left to write when the batch is given up.
LEMMA WrittenConserved ==
  ASSUME SpareInv, ConservedInv, Written \/ Recycle
  PROVE  ConservedInv'
<1>0. bufs \in Seq(Buf) /\ next \in Nat \ {0} /\ Len(bufs) \in Nat
  BY LenProperties DEF SpareInv, PtrType
<1>1. /\ UNCHANGED <<file, bufs_, curBuf_, appended, dropped>>
      /\ pc' \notin {"trim", "write"}
  BY DEF Written, Recycle, front, history
<1>2. ToWrite = <<>>
  <2>1. CASE Written
    <3>1. SubSeq(bufs, next, Len(bufs)) = <<>>
      BY <1>0, <2>1, SubSeqEmpty DEF Written
    <3> QED  BY <2>1, <3>1 DEF Written, ToWrite
  <2>2. CASE Recycle  BY <2>2 DEF Recycle, ToWrite
  <2> QED  BY <2>1, <2>2
<1>3. ToWrite' = <<>>  BY <1>1 DEF ToWrite
<1> QED  BY <1>1, <1>2, <1>3 DEF ConservedInv

\* Every step keeps every message.
LEMMA ConservedStep ==
  ASSUME SpareInv, HistoryType, ConservedInv, [Next]_vars
  PROVE  ConservedInv'
<1>1. ASSUME UNCHANGED <<front, bufs, next, file, history>>,
             pc' = pc \/ {pc, pc'} \cap {"trim", "write"} = {}
      PROVE  ConservedInv'
  BY <1>1 DEF ConservedInv, ToWrite, front, history
<1> USE DEF front, back, history
<1>2. CASE Begin BY <1>1, <1>2 DEF Begin
<1>3. CASE CheckRunning BY <1>1, <1>3 DEF CheckRunning
<1>4. CASE Wait BY <1>1, <1>4 DEF Wait
<1>5. CASE WaitTimeout BY <1>1, <1>5 DEF WaitTimeout
<1>6. CASE Start
  <2>1. pc = "unborn"  BY <1>6 DEF Start, SpareInv, OwnerInv
  <2> QED  BY <1>1, <1>6, <2>1 DEF Start
<1>7. CASE StartReturn BY <1>1, <1>7 DEF StartReturn
<1>8. CASE Stop BY <1>1, <1>8 DEF Stop
<1>9. CASE StopNotify BY <1>1, <1>9 DEF StopNotify, Notified
<1>10. CASE StopJoin BY <1>1, <1>10 DEF StopJoin
<1>11. CASE UNCHANGED vars BY <1>1, <1>11 DEF vars
<1> HIDE DEF front, back, history
<1> QED BY <1>2, <1>3, <1>4, <1>5, <1>6, <1>7, <1>8, <1>9, <1>10, <1>11,
           AppendConserved, SwapConserved, WriteConserved, TrimConserved,
           WrittenConserved
        DEF Next, BackEnd, OwnerReturns

\* From append() to the file, through every swap of buffers between the
\* threads, no message is lost, duplicated or reordered, but those append()
\* cannot copy and those in the buffers threadFunc() erases: for any number
\* of messages, any buffer capacity and any limit of a batch.
THEOREM AsyncLoggingMessagesConserved == Spec => []MessagesConserved
<1>1. Init => ConservedInv
  <2> SUFFICES ASSUME Init PROVE ConservedInv
    OBVIOUS
  <2>1. <<>> \in Seq(Msg) /\ <<>> \in Seq(Seq(Msg))  BY EmptySeq
  <2>2. ToWrite = <<>>  BY DEF Init, ToWrite
  <2>3. FlattenSeq(<<>>) = <<>>  BY <2>1, FlattenAppend
  <2>4. <<>> \o <<>> = <<>>  BY <2>1, ConcatEmptySeq
  <2>5. Total(<<>>, <<>>, <<>>, <<>>) = <<>>  BY <2>3, <2>4 DEF Total
  <2>6. Range(<<>>) = {}  BY <2>1, RangeFacts
  <2>7. DOMAIN <<>> = {}  BY <2>1, EmptySeq, LenProperties
  <2>8. Conserved(<<>>, <<>>, {})  BY <2>6, <2>7 DEF Conserved
  <2> QED  BY <2>2, <2>5, <2>6, <2>8 DEF Init, ConservedInv
<1>2. ConservedInv /\ HistoryType /\ SpareInv /\ [Next]_vars => ConservedInv'
  BY ConservedStep
<1>3. Spec => []HistoryType
  <2>1. Init => HistoryType  BY EmptySeq DEF Init, HistoryType
  <2>2. HistoryType /\ SpareInv /\ [Next]_vars => HistoryType'  BY HistoryStep
  <2> QED  BY <2>1, <2>2, SpareInvariant, PTL DEF Spec
<1>4. SpareInv /\ HistoryType /\ ConservedInv => MessagesConserved
  <2> SUFFICES ASSUME SpareInv, HistoryType, ConservedInv PROVE MessagesConserved
    OBVIOUS
  <2>1. /\ file \in Seq(Msg) /\ ToWrite \in Seq(Seq(Msg))
        /\ bufs_ \in Seq(Seq(Msg)) /\ curBuf_ \in Seq(Msg)
    BY ToWriteType DEF SpareInv, PtrType, HistoryType, Buf
  <2>2. Total(file, ToWrite, bufs_, curBuf_) = file \o Unwritten
    <3>1. Total(file, ToWrite, bufs_, curBuf_) = file \o Left(ToWrite, bufs_, curBuf_)
      BY <2>1, TotalType
    <3>2. Unwritten = Left(ToWrite, bufs_, curBuf_)  BY DEF Unwritten, Left
    <3> QED  BY <3>1, <3>2
  <2> QED  BY <2>2 DEF ConservedInv, MessagesConserved
<1> QED BY <1>1, <1>2, <1>3, <1>4, SpareInvariant, PTL DEF Spec

-----------------------------------------------------------------------------
(* Buffer.  Every call takes a buffer that holds d to one that holds what   *)
(* d becomes.                                                              *)

\* b is a buffer over T, with its indices in order and the bytes kept free in
\* front inside the vector, and its readable bytes are d.
Holds(T, b, d) ==
  /\ b \in [buf : Seq(T), r : Nat, w : Nat]
  /\ b.r <= b.w /\ b.w <= Len(b.buf) /\ kPre <= Len(b.buf)
  /\ d \in Seq(T) /\ Len(d) = b.w - b.r
  /\ \A i \in 1 .. Len(d) : d[i] = b.buf[b.r + i]

\* z is x and then y.
Joined(T, x, y, z) ==
  /\ z \in Seq(T) /\ Len(x) \in Nat /\ Len(y) \in Nat /\ Len(z) = Len(x) + Len(y)
  /\ \A i \in 1 .. Len(x) : z[i] = x[i]
  /\ \A i \in 1 .. Len(y) : z[Len(x) + i] = y[i]

\* The elements of two sequences in a row.
LEMMA ConcatElems ==
  ASSUME NEW T, NEW x \in Seq(T), NEW y \in Seq(T)
  PROVE  Joined(T, x, y, x \o y)
<1> DEFINE z == x \o y
           m == Len(x)
           n == Len(y)
<1>1. m \in Nat /\ n \in Nat  BY LenProperties
<1>2. /\ z \in Seq(T) /\ Len(z) = m + n
      /\ \A i \in 1 .. m + n : z[i] = IF i <= m THEN x[i] ELSE y[i - m]
  BY ConcatProperties
<1> HIDE DEF z, m, n
<1>3. ASSUME NEW i \in 1 .. m  PROVE z[i] = x[i]
  <2>1. i \in 1 .. m + n /\ i <= m  BY <1>1
  <2> QED  BY <1>2, <2>1
<1>4. ASSUME NEW i \in 1 .. n  PROVE z[m + i] = y[i]
  <2>1. m + i \in 1 .. m + n /\ ~(m + i <= m) /\ (m + i) - m = i  BY <1>1
  <2> QED  BY <1>2, <2>1
<1>5. Joined(T, x, y, z)  BY <1>1, <1>2, <1>3, <1>4 DEF Joined, m, n
<1> QED  BY <1>5 DEF z

\* What Holds says of the fields of a buffer.
LEMMA HoldsFields ==
  ASSUME NEW T, NEW b, NEW d, Holds(T, b, d)
  PROVE  /\ b.buf \in Seq(T) /\ Len(b.buf) \in Nat /\ b.r \in Nat /\ b.w \in Nat
         /\ b.r <= b.w /\ b.w <= Len(b.buf) /\ kPre <= Len(b.buf) /\ kPre \in Nat
         /\ d \in Seq(T) /\ Len(d) \in Nat /\ Len(d) = b.w - b.r
         /\ \A i \in 1 .. Len(d) : d[i] = b.buf[b.r + i]
BY LenProperties, BufferAssumption DEF Holds

\* Two fields of a buffer set at once.
LEMMA FieldsSet ==
  ASSUME NEW T, NEW b, NEW d, Holds(T, b, d), NEW u, NEW n
  PROVE  [b EXCEPT !.buf = u, !.w = n] = [buf |-> u, r |-> b.r, w |-> n]
<1>1. b \in [buf : Seq(T), r : Nat, w : Nat]  BY DEF Holds
<1> DEFINE f == [b EXCEPT !.buf = u, !.w = n]
           g == [buf |-> u, r |-> b.r, w |-> n]
           h == [i \in {"buf", "r", "w"} |->
                   IF i = "buf" THEN u ELSE IF i = "w" THEN n ELSE b[i]]
<1>2. f = h  BY <1>1
<1>3. g = h  BY <1>1
<1> QED  BY <1>2, <1>3

\* A record with such fields holds its bytes.
LEMMA MakeHolds ==
  ASSUME NEW T, NEW u \in Seq(T), NEW r \in Nat, NEW w \in Nat, NEW d \in Seq(T),
         r <= w, w <= Len(u), kPre <= Len(u), Len(d) = w - r,
         \A i \in 1 .. Len(d) : d[i] = u[r + i]
  PROVE  Holds(T, [buf |-> u, r |-> r, w |-> w], d)
BY DEF Holds

\* peek() and readableBytes() are about the readable bytes.
LEMMA HoldsPeek ==
  ASSUME NEW T, NEW b, NEW d, Holds(T, b, d)
  PROVE  peek(b) = d /\ readableBytes(b) = Len(d)
<1> DEFINE s == SubSeq(b.buf, b.r + 1, b.w)
<1>1. /\ b.buf \in Seq(T) /\ Len(b.buf) \in Nat /\ b.r \in Nat /\ b.w \in Nat
      /\ b.r <= b.w /\ b.w <= Len(b.buf)
      /\ d \in Seq(T) /\ Len(d) \in Nat /\ Len(d) = b.w - b.r
      /\ \A i \in 1 .. Len(d) : d[i] = b.buf[b.r + i]
  BY HoldsFields
<1>2. \A i \in b.r + 1 .. b.w : b.buf[i] \in T
  <2>1. \A i \in 1 .. Len(b.buf) : b.buf[i] \in T  BY <1>1, ElementOfSeq
  <2>2. \A i \in b.r + 1 .. b.w : i \in 1 .. Len(b.buf)  BY <1>1
  <2> QED  BY <2>1, <2>2
<1>3. /\ s \in Seq(T)
      /\ Len(s) = IF b.r + 1 <= b.w THEN b.w - (b.r + 1) + 1 ELSE 0
      /\ \A i \in 1 .. b.w - (b.r + 1) + 1 : s[i] = b.buf[(b.r + 1) + i - 1]
  <2>1. b.r + 1 \in Int /\ b.w \in Int  BY <1>1
  <2> QED  BY <1>2, <2>1, SubSeqProperties
<1> HIDE DEF s
<1>4. Len(s) = Len(d)  BY <1>1, <1>3
<1>5. ASSUME NEW i \in 1 .. Len(s)  PROVE s[i] = d[i]
  <2>1. /\ i \in 1 .. b.w - (b.r + 1) + 1 /\ (b.r + 1) + i - 1 = b.r + i
        /\ i \in 1 .. Len(d)
    BY <1>1, <1>4
  <2> QED  BY <1>1, <1>3, <2>1
<1>6. s = d  BY <1>1, <1>3, <1>4, <1>5, SeqEqual
<1> QED  BY <1>1, <1>6 DEF s, peek, readableBytes

\* std::copy changes the bytes it copies to, and no other.
LEMMA CopyFacts ==
  ASSUME NEW T, NEW u \in Seq(T), NEW s \in Seq(T), NEW at \in Nat,
         at + Len(s) <= Len(u)
  PROVE  /\ Copy(u, at, s) \in Seq(T) /\ Len(Copy(u, at, s)) = Len(u)
         /\ \A i \in 1 .. Len(s) : Copy(u, at, s)[at + i] = s[i]
         /\ \A i \in 1 .. Len(u) :
               i <= at \/ i > at + Len(s) => Copy(u, at, s)[i] = u[i]
<1> DEFINE c == Copy(u, at, s)
           n == Len(u)
           k == Len(s)
<1>0. /\ n \in Nat /\ k \in Nat /\ DOMAIN u = 1 .. n /\ DOMAIN s = 1 .. k
      /\ \A i \in 1 .. n : u[i] \in T
      /\ \A i \in 1 .. k : s[i] \in T
  BY LenProperties, ElementOfSeq
<1>1. at + k <= n  OBVIOUS
<1> HIDE DEF n, k
<1>2. c = [i \in 1 .. n |-> IF i - at \in 1 .. k THEN s[i - at] ELSE u[i]]
  BY <1>0 DEF Copy
<1> HIDE DEF c
<1>3. \A i \in 1 .. n : c[i] \in T  BY <1>0, <1>2
<1>4. c \in [1 .. n -> T]  BY <1>2, <1>3
<1>5. c \in Seq(T) /\ Len(c) = n  BY <1>0, <1>4
<1>6. ASSUME NEW i \in 1 .. k  PROVE c[at + i] = s[i]
  <2>1. at + i \in 1 .. n /\ (at + i) - at = i  BY <1>0, <1>1
  <2> QED  BY <1>2, <2>1
<1>7. ASSUME NEW i \in 1 .. n, i <= at \/ i > at + k  PROVE c[i] = u[i]
  <2>1. ~(i - at \in 1 .. k)  BY <1>0, <1>7
  <2> QED  BY <1>2, <2>1
<1> QED  BY <1>5, <1>6, <1>7 DEF c, n, k

\* A run of zeros.
LEMMA ZerosType ==
  ASSUME NEW T, Zero \in T, NEW n \in Nat
  PROVE  Zeros(n) \in Seq(T) /\ Len(Zeros(n)) = n
<1>1. Zeros(n) \in [1 .. n -> T]  BY DEF Zeros
<1> QED  BY <1>1

\* A new buffer is empty, with the room it was asked for.
LEMMA NewBufferHolds ==
  ASSUME NEW T, Zero \in T, NEW n \in Nat
  PROVE  Holds(T, NewBuffer(n), <<>>)
<1>1. kPre \in Nat /\ kPre + n \in Nat  BY BufferAssumption
<1>2. Zeros(kPre + n) \in Seq(T) /\ Len(Zeros(kPre + n)) = kPre + n  BY <1>1, ZerosType
<1>3. <<>> \in Seq(T) /\ Len(<<>>) = 0  BY EmptySeq
<1> QED  BY <1>1, <1>2, <1>3 DEF NewBuffer, Holds

\* expand() without growing: the bytes are moved to the front and are the same.
LEMMA moveToFrontHolds ==
  ASSUME NEW T, NEW b, NEW d, Holds(T, b, d), kPre <= b.r
  PROVE  /\ Holds(T, moveToFront(b), d)
         /\ Len(moveToFront(b).buf) = Len(b.buf)
         /\ moveToFront(b).w = kPre + Len(d)
<1> DEFINE u == Copy(b.buf, kPre, d)
           m == [buf |-> u, r |-> kPre, w |-> kPre + Len(d)]
<1>1. /\ b.buf \in Seq(T) /\ Len(b.buf) \in Nat /\ b.r \in Nat /\ b.w \in Nat
      /\ b.r <= b.w /\ b.w <= Len(b.buf) /\ kPre <= Len(b.buf) /\ kPre \in Nat
      /\ d \in Seq(T) /\ Len(d) \in Nat /\ Len(d) = b.w - b.r
  BY HoldsFields
<1>2. moveToFront(b) = m  BY HoldsPeek DEF moveToFront
<1>3. kPre + Len(d) \in Nat /\ kPre + Len(d) <= Len(b.buf)  BY <1>1
<1>4. /\ u \in Seq(T) /\ Len(u) = Len(b.buf)
      /\ \A i \in 1 .. Len(d) : u[kPre + i] = d[i]
  BY <1>1, <1>3, CopyFacts
<1> HIDE DEF u
<1>5. Holds(T, m, d)
  <2>1. kPre <= kPre + Len(d) /\ Len(d) = (kPre + Len(d)) - kPre  BY <1>1
  <2> QED  BY <1>1, <1>3, <1>4, <2>1, MakeHolds
<1> QED  BY <1>2, <1>4, <1>5

Grown(b, n) == [b EXCEPT !.buf = b.buf \o Zeros(n)]

\* expand() by growing: zeros come behind the writable bytes.
LEMMA GrowHolds ==
  ASSUME NEW T, Zero \in T, NEW b, NEW d, Holds(T, b, d), NEW n \in Nat
  PROVE  /\ Holds(T, Grown(b, n), d)
         /\ Len(Grown(b, n).buf) = Len(b.buf) + n /\ Grown(b, n).w = b.w
<1> DEFINE u == b.buf \o Zeros(n)
           z == Zeros(n)
<1>1. /\ b.buf \in Seq(T) /\ Len(b.buf) \in Nat /\ b.r \in Nat /\ b.w \in Nat
      /\ b.r <= b.w /\ b.w <= Len(b.buf) /\ kPre <= Len(b.buf) /\ kPre \in Nat
      /\ d \in Seq(T) /\ Len(d) \in Nat /\ Len(d) = b.w - b.r
      /\ \A i \in 1 .. Len(d) : d[i] = b.buf[b.r + i]
  BY HoldsFields
<1>2. z \in Seq(T) /\ Len(z) = n  BY ZerosType
<1> HIDE DEF z
<1>3. /\ u \in Seq(T) /\ Len(u) = Len(b.buf) + n
      /\ \A i \in 1 .. Len(b.buf) : u[i] = b.buf[i]
  <2>1. /\ b.buf \o z \in Seq(T) /\ Len(b.buf \o z) = Len(b.buf) + Len(z)
        /\ \A i \in 1 .. Len(b.buf) + Len(z) : (b.buf \o z)[i] =
              IF i <= Len(b.buf) THEN b.buf[i] ELSE z[i - Len(b.buf)]
    BY <1>1, <1>2, ConcatProperties
  <2>2. \A i \in 1 .. Len(b.buf) : i \in 1 .. Len(b.buf) + Len(z) /\ i <= Len(b.buf)
    BY <1>1, <1>2
  <2> QED  BY <1>2, <2>1, <2>2 DEF z
<1> HIDE DEF u
<1>4. [b EXCEPT !.buf = u] = [buf |-> u, r |-> b.r, w |-> b.w]  BY DEF Holds
<1>5. \A i \in 1 .. Len(d) : d[i] = u[b.r + i]
  <2>1. \A i \in 1 .. Len(d) : b.r + i \in 1 .. Len(b.buf)  BY <1>1
  <2> QED  BY <1>1, <1>3, <2>1
<1>6. b.w <= Len(u) /\ kPre <= Len(u)  BY <1>1, <1>3
<1>7. Holds(T, [buf |-> u, r |-> b.r, w |-> b.w], d)
  BY <1>1, <1>3, <1>5, <1>6, MakeHolds
<1>8. Grown(b, n) = [b EXCEPT !.buf = u]  BY DEF Grown, u
<1> QED  BY <1>3, <1>4, <1>7, <1>8

\* ensure(): the assertions of expand() and ensure() hold, the readable bytes
\* are the same and there is room for n more.
LEMMA ensureHolds ==
  ASSUME NEW T, Zero \in T, NEW b, NEW d, Holds(T, b, d), NEW n \in Nat
  PROVE  /\ Holds(T, ensure(b, n), d)
         /\ ensure(b, n).w + n <= Len(ensure(b, n).buf)
         /\ ~EnsureFails(b, n)
<1> DEFINE e == ensure(b, n)
           k == b.w + n - Len(b.buf)
<1>1. /\ b.buf \in Seq(T) /\ Len(b.buf) \in Nat /\ b.r \in Nat /\ b.w \in Nat
      /\ b.r <= b.w /\ b.w <= Len(b.buf) /\ kPre <= Len(b.buf) /\ kPre \in Nat
      /\ Len(d) \in Nat /\ Len(d) = b.w - b.r
  BY HoldsFields
<1>2. CASE ~(writableBytes(b) < n)
  <2>1. e = b  BY <1>2 DEF ensure
  <2>2. b.w + n <= Len(b.buf)  BY <1>1, <1>2 DEF writableBytes
  <2>3. ~EnsureFails(b, n)  BY <1>2, <2>1 DEF EnsureFails
  <2> QED  BY <2>1, <2>2, <2>3
<1>3. CASE writableBytes(b) < n /\ MustGrow(b, n)
  <2>1. k \in Nat /\ Len(b.buf) + k = b.w + n  BY <1>1, <1>3 DEF writableBytes
  <2> HIDE DEF k
  <2>2. e = Grown(b, k)  BY <1>3 DEF ensure, expand, k, Grown
  <2>3. Holds(T, e, d) /\ Len(e.buf) = Len(b.buf) + k /\ e.w = b.w  BY <2>1, <2>2, GrowHolds
  <2> HIDE DEF e
  <2>4. e.w + n <= Len(e.buf) /\ ~(writableBytes(e) < n)
    BY <1>1, <2>1, <2>3 DEF writableBytes
  <2>5. ~EnsureFails(b, n)  BY <1>3, <2>4 DEF EnsureFails, e
  <2> QED  BY <2>3, <2>4, <2>5 DEF e
<1>4. CASE writableBytes(b) < n /\ ~MustGrow(b, n)
  <2>1. kPre < b.r  BY <1>1, <1>4 DEF MustGrow, writableBytes, prependableBytes
  <2>2. kPre <= b.r /\ ~(kPre >= b.r)  BY <1>1, <2>1
  <2>3. e = moveToFront(b)  BY <1>4 DEF ensure, expand
  <2>4. Holds(T, e, d) /\ Len(e.buf) = Len(b.buf) /\ e.w = kPre + Len(d)
    BY <2>2, <2>3, moveToFrontHolds
  <2> HIDE DEF e
  <2>5. e.w + n <= Len(e.buf) /\ ~(writableBytes(e) < n)
    BY <1>1, <1>4, <2>4 DEF MustGrow, writableBytes, prependableBytes
  <2>6. ~EnsureFails(b, n)  BY <2>2, <2>5 DEF EnsureFails, e
  <2> QED  BY <2>4, <2>5, <2>6 DEF e
<1> QED  BY <1>2, <1>3, <1>4

\* Bytes copied behind the readable ones, where there is room, become readable.
LEMMA WriteHolds ==
  ASSUME NEW T, NEW b, NEW d, Holds(T, b, d), NEW s \in Seq(T),
         b.w + Len(s) <= Len(b.buf)
  PROVE  Holds(T, [buf |-> Copy(b.buf, b.w, s), r |-> b.r, w |-> b.w + Len(s)], d \o s)
<1> DEFINE v == b.buf
           r == b.r
           w == b.w
           u == Copy(v, w, s)
           e == d \o s
<1>1. /\ v \in Seq(T) /\ Len(v) \in Nat /\ r \in Nat /\ w \in Nat
      /\ r <= w /\ w <= Len(v) /\ kPre <= Len(v) /\ kPre \in Nat
      /\ d \in Seq(T) /\ Len(d) \in Nat /\ Len(d) = w - r
      /\ \A i \in 1 .. Len(d) : d[i] = v[r + i]
  BY HoldsFields
<1>2. Len(s) \in Nat /\ w + Len(s) <= Len(v)  BY LenProperties
<1> HIDE DEF v, r, w
<1>3. /\ u \in Seq(T) /\ Len(u) = Len(v)
      /\ \A i \in 1 .. Len(s) : u[w + i] = s[i]
      /\ \A i \in 1 .. Len(v) : i <= w \/ i > w + Len(s) => u[i] = v[i]
  BY <1>1, <1>2, CopyFacts
<1>0. Joined(T, d, s, e)  BY <1>1, ConcatElems
<1> HIDE DEF u, e
<1>4. /\ e \in Seq(T) /\ Len(e) = Len(d) + Len(s)
      /\ \A i \in 1 .. Len(d) : e[i] = d[i]
      /\ \A i \in 1 .. Len(s) : e[Len(d) + i] = s[i]
  BY <1>0 DEF Joined
<1>5. ASSUME NEW i \in 1 .. Len(e)  PROVE e[i] = u[r + i]
  <2>1. CASE i <= Len(d)
    <3>1. i \in 1 .. Len(d) /\ r + i \in 1 .. Len(v) /\ r + i <= w
      BY <1>1, <1>2, <1>4, <2>1, SMTT(60)
    <3> QED  BY <1>1, <1>3, <1>4, <3>1
  <2>2. CASE ~(i <= Len(d))
    <3> DEFINE j == i - Len(d)
    <3>1. j \in 1 .. Len(s) /\ Len(d) + j = i /\ w + j = r + i
      BY <1>1, <1>2, <1>4, <2>2
    <3> HIDE DEF j
    <3>2. e[Len(d) + j] = s[j] /\ u[w + j] = s[j]  BY <1>3, <1>4, <3>1
    <3> QED  BY <3>1, <3>2
  <2> QED  BY <2>1, <2>2
<1>6. /\ w + Len(s) \in Nat /\ r <= w + Len(s) /\ w + Len(s) <= Len(u)
      /\ kPre <= Len(u) /\ Len(e) = (w + Len(s)) - r
  BY <1>1, <1>2, <1>3, <1>4
<1>7. Holds(T, [buf |-> u, r |-> r, w |-> w + Len(s)], e)
  BY <1>1, <1>3, <1>4, <1>5, <1>6, MakeHolds
<1> QED  BY <1>7 DEF u, e, v, r, w

\* append(): the bytes come behind the readable ones.
LEMMA appendHolds ==
  ASSUME NEW T, Zero \in T, NEW b, NEW d, Holds(T, b, d), NEW s \in Seq(T)
  PROVE  Holds(T, append(b, s), d \o s) /\ ~EnsureFails(b, Len(s))
<1> DEFINE e == ensure(b, Len(s))
<1>1. Len(s) \in Nat  BY LenProperties
<1>2. Holds(T, e, d) /\ e.w + Len(s) <= Len(e.buf) /\ ~EnsureFails(b, Len(s))
  BY <1>1, ensureHolds
<1>3. append(b, s) = [e EXCEPT !.buf = Copy(e.buf, e.w, s), !.w = e.w + Len(s)]
  BY DEF append
<1> HIDE DEF e
<1>4. append(b, s) = [buf |-> Copy(e.buf, e.w, s), r |-> e.r, w |-> e.w + Len(s)]
  BY <1>2, <1>3 DEF Holds
<1> QED  BY <1>2, <1>4, WriteHolds

\* prepend(): the bytes come before the readable ones.
LEMMA prependHolds ==
  ASSUME NEW T, NEW b, NEW d, Holds(T, b, d), NEW s \in Seq(T), Len(s) <= b.r
  PROVE  Holds(T, prepend(b, s), s \o d)
<1> DEFINE v == b.buf
           r == b.r
           w == b.w
           q == r - Len(s)
           u == Copy(v, q, s)
           e == s \o d
<1>1. /\ v \in Seq(T) /\ Len(v) \in Nat /\ r \in Nat /\ w \in Nat
      /\ r <= w /\ w <= Len(v) /\ kPre <= Len(v) /\ kPre \in Nat
      /\ d \in Seq(T) /\ Len(d) \in Nat /\ Len(d) = w - r
      /\ \A i \in 1 .. Len(d) : d[i] = v[r + i]
  BY HoldsFields
<1>2. Len(s) \in Nat /\ Len(s) <= r  BY LenProperties
<1>3. prepend(b, s) = [buf |-> u, r |-> q, w |-> w]
  <2>1. prepend(b, s) = [b EXCEPT !.buf = u, !.r = q]  BY DEF prepend
  <2> HIDE DEF u, q
  <2> QED  BY <2>1 DEF Holds
<1> HIDE DEF v, r, w
<1>4. q \in Nat /\ q + Len(s) = r /\ q + Len(s) <= Len(v)  BY <1>1, <1>2
<1> HIDE DEF q
<1>5. /\ u \in Seq(T) /\ Len(u) = Len(v)
      /\ \A i \in 1 .. Len(s) : u[q + i] = s[i]
      /\ \A i \in 1 .. Len(v) : i <= q \/ i > q + Len(s) => u[i] = v[i]
  BY <1>1, <1>4, CopyFacts
<1>0. Joined(T, s, d, e)  BY <1>1, ConcatElems
<1> HIDE DEF u, e
<1>6. /\ e \in Seq(T) /\ Len(e) = Len(s) + Len(d)
      /\ \A i \in 1 .. Len(s) : e[i] = s[i]
      /\ \A i \in 1 .. Len(d) : e[Len(s) + i] = d[i]
  BY <1>0 DEF Joined
<1>7. ASSUME NEW i \in 1 .. Len(e)  PROVE e[i] = u[q + i]
  <2>1. CASE i <= Len(s)
    <3>1. i \in 1 .. Len(s)  BY <1>1, <1>2, <1>6, <2>1
    <3> QED  BY <1>5, <1>6, <3>1
  <2>2. CASE ~(i <= Len(s))
    <3> DEFINE j == i - Len(s)
    <3>0. /\ i \in Nat /\ i <= Len(s) + Len(d) /\ r \in Nat /\ w \in Nat
          /\ w <= Len(v) /\ Len(d) \in Nat /\ Len(v) \in Nat /\ Len(d) = w - r
      BY <1>1, <1>2, <1>6
    <3>1. /\ j \in 1 .. Len(d) /\ Len(s) + j = i /\ q + i = r + j
          /\ r + j \in 1 .. Len(v) /\ r + j > q + Len(s)
      <4>1. j \in 1 .. Len(d) /\ Len(s) + j = i  BY <1>2, <2>2, <3>0
      <4>2. q + i = r + j  BY <1>2, <1>4, <3>0
      <4> HIDE DEF j
      <4>3. r + j \in 1 .. Len(v)  BY <3>0, <4>1
      <4>4. r + j > q + Len(s)  BY <1>2, <1>4, <3>0, <4>1
      <4> QED  BY <4>1, <4>2, <4>3, <4>4
    <3> HIDE DEF j
    <3>2. e[Len(s) + j] = d[j] /\ u[r + j] = v[r + j]  BY <1>5, <1>6, <3>1
    <3> QED  BY <1>1, <3>1, <3>2
  <2> QED  BY <2>1, <2>2
<1>8. q <= w /\ w <= Len(u) /\ kPre <= Len(u) /\ Len(e) = w - q
  <2>1. q <= w /\ w <= Len(u) /\ kPre <= Len(u)  BY <1>1, <1>2, <1>4, <1>5
  <2>2. /\ Len(e) = Len(s) + Len(d) /\ Len(d) = w - r /\ Len(d) \in Nat
        /\ r \in Nat /\ w \in Nat
    BY <1>1, <1>6
  <2>3. Len(e) = w - q  BY <1>2, <1>4, <2>2
  <2> QED  BY <2>1, <2>3
<1>9. Holds(T, [buf |-> u, r |-> q, w |-> w], e)
  BY <1>1, <1>4, <1>5, <1>6, <1>7, <1>8, MakeHolds
<1> QED  BY <1>3, <1>9 DEF e

\* What is left of a sequence after its first n elements.
LEMMA RestFacts ==
  ASSUME NEW T, NEW s \in Seq(T), NEW n \in Nat, n <= Len(s)
  PROVE  /\ SubSeq(s, n + 1, Len(s)) \in Seq(T) /\ Len(s) \in Nat
         /\ Len(SubSeq(s, n + 1, Len(s))) = Len(s) - n
         /\ \A i \in 1 .. Len(s) - n : SubSeq(s, n + 1, Len(s))[i] = s[n + i]
<1> DEFINE m == Len(s)
           u == SubSeq(s, n + 1, m)
<1>1. m \in Nat /\ n <= m /\ \A i \in 1 .. m : s[i] \in T  BY LenProperties, ElementOfSeq
<1>2. /\ u \in Seq(T) /\ Len(u) = IF n + 1 <= m THEN m - (n + 1) + 1 ELSE 0
      /\ \A i \in 1 .. m - (n + 1) + 1 : u[i] = s[(n + 1) + i - 1]
  <2>1. \A i \in n + 1 .. m : s[i] \in T  BY <1>1
  <2>2. n + 1 \in Int /\ m \in Int  BY <1>1
  <2> QED  BY <2>1, <2>2, SubSeqProperties
<1> HIDE DEF m, u
<1>3. Len(u) = m - n  BY <1>1, <1>2
<1>4. ASSUME NEW i \in 1 .. m - n  PROVE u[i] = s[n + i]
  <2>1. i \in 1 .. m - (n + 1) + 1 /\ (n + 1) + i - 1 = n + i  BY <1>1
  <2> QED  BY <1>2, <2>1
<1> QED  BY <1>1, <1>2, <1>3, <1>4 DEF m, u

\* The first n elements of a sequence.
LEMMA FirstFacts ==
  ASSUME NEW T, NEW s \in Seq(T), NEW n \in Nat, n <= Len(s)
  PROVE  /\ SubSeq(s, 1, n) \in Seq(T) /\ Len(SubSeq(s, 1, n)) = n
         /\ \A i \in 1 .. n : SubSeq(s, 1, n)[i] = s[i]
<1> DEFINE u == SubSeq(s, 1, n)
<1>1. Len(s) \in Nat /\ \A i \in 1 .. Len(s) : s[i] \in T  BY LenProperties, ElementOfSeq
<1>2. /\ u \in Seq(T) /\ Len(u) = IF 1 <= n THEN n - 1 + 1 ELSE 0
      /\ \A i \in 1 .. n - 1 + 1 : u[i] = s[1 + i - 1]
  <2>1. \A i \in 1 .. n : s[i] \in T  BY <1>1
  <2> QED  BY <2>1, SubSeqProperties
<1> HIDE DEF u
<1>3. Len(u) = n  BY <1>2
<1>4. ASSUME NEW i \in 1 .. n  PROVE u[i] = s[i]
  <2>1. i \in 1 .. n - 1 + 1 /\ 1 + i - 1 = i  OBVIOUS
  <2> QED  BY <1>2, <2>1
<1> QED  BY <1>2, <1>3, <1>4 DEF u

\* A sequence is its first n elements and the others, for n = 0 too.
LEMMA CutAt ==
  ASSUME NEW T, NEW s \in Seq(T), NEW n \in Nat, n <= Len(s)
  PROVE  s = SubSeq(s, 1, n) \o SubSeq(s, n + 1, Len(s))
<1>1. CASE n # 0
  <2>1. n \in 1 .. Len(s)  BY <1>1
  <2> QED  BY <2>1, SplitAt
<1>2. CASE n = 0
  <2>1. SubSeq(s, 1, 0) = <<>> /\ SubSeq(s, 1, Len(s)) = s /\ <<>> \o s = s
    BY PrefixEnds, ConcatEmptySeq
  <2>2. n + 1 = 1  BY <1>2
  <2> QED  BY <1>2, <2>1, <2>2
<1> QED  BY <1>1, <1>2

\* retrieve(): the first n bytes are gone; with the last one the indices go
\* back to the front.
LEMMA retrieveHolds ==
  ASSUME NEW T, NEW b, NEW d, Holds(T, b, d), NEW n \in Nat, n <= Len(d)
  PROVE  Holds(T, retrieve(b, n), SubSeq(d, n + 1, Len(d))) /\ ~(n > readableBytes(b))
<1> DEFINE v == b.buf
           r == b.r
           w == b.w
           e == SubSeq(d, n + 1, Len(d))
<1>1. /\ v \in Seq(T) /\ Len(v) \in Nat /\ r \in Nat /\ w \in Nat
      /\ r <= w /\ w <= Len(v) /\ kPre <= Len(v) /\ kPre \in Nat
      /\ d \in Seq(T) /\ Len(d) \in Nat /\ Len(d) = w - r
      /\ \A i \in 1 .. Len(d) : d[i] = v[r + i]
  BY HoldsFields
<1>2. /\ e \in Seq(T) /\ Len(e) = Len(d) - n
      /\ \A i \in 1 .. Len(d) - n : e[i] = d[n + i]
  BY <1>1, RestFacts, SMTT(60)
<1>3. readableBytes(b) = Len(d)  BY HoldsPeek
<1>4. ~(n > readableBytes(b))  BY <1>1, <1>3
<1>5. CASE n < Len(d)
  <2>1. retrieve(b, n) = [buf |-> v, r |-> r + n, w |-> w]
    BY <1>3, <1>5 DEF retrieve, Holds
  <2> HIDE DEF v, r, w, e
  <2>2. ASSUME NEW i \in 1 .. Len(e)  PROVE e[i] = v[(r + n) + i]
    <3>1. /\ i \in 1 .. Len(d) - n /\ n + i \in 1 .. Len(d)
          /\ r + (n + i) = (r + n) + i
      BY <1>1, <1>2
    <3>2. e[i] = d[n + i] /\ d[n + i] = v[r + (n + i)]  BY <1>1, <1>2, <3>1
    <3> QED  BY <3>1, <3>2
  <2>3. r + n \in Nat /\ r + n <= w /\ Len(e) = w - (r + n)  BY <1>1, <1>2, <1>5
  <2>4. Holds(T, [buf |-> v, r |-> r + n, w |-> w], e)
    BY <1>1, <1>2, <2>2, <2>3, MakeHolds
  <2> QED  BY <1>4, <2>1, <2>4 DEF e
<1>6. CASE ~(n < Len(d))
  <2>1. retrieve(b, n) = [buf |-> v, r |-> kPre, w |-> kPre]
    BY <1>3, <1>6 DEF retrieve, retrieveAll, Holds
  <2> HIDE DEF v, r, w, e
  <2>2. Len(e) = 0  BY <1>1, <1>2, <1>6
  <2>3. Len(e) = kPre - kPre /\ kPre <= kPre  BY <1>1, <2>2
  <2>4. \A i \in 1 .. Len(e) : e[i] = v[kPre + i]  BY <2>2
  <2>5. Holds(T, [buf |-> v, r |-> kPre, w |-> kPre], e)
    BY <1>1, <1>2, <2>3, <2>4, MakeHolds
  <2> QED  BY <1>4, <2>1, <2>5 DEF e
<1> QED  BY <1>5, <1>6

\* shrink(): the bytes are the same.
LEMMA shrinkHolds ==
  ASSUME NEW T, Zero \in T, NEW b, NEW d, Holds(T, b, d), NEW n \in Nat
  PROVE  /\ Holds(T, shrink(b, n), d)
         /\ ~EnsureFails(NewBuffer(kInit), readableBytes(b) + n)
<1> DEFINE k == readableBytes(b) + n
           e == ensure(NewBuffer(kInit), k)
<1>1. peek(b) = d /\ readableBytes(b) = Len(d)  BY HoldsPeek
<1>2. d \in Seq(T) /\ Len(d) \in Nat  BY HoldsFields
<1>3. k \in Nat  BY <1>1, <1>2
<1>4. Holds(T, NewBuffer(kInit), <<>>)  BY NewBufferHolds, BufferAssumption
<1> HIDE DEF k
<1>5. Holds(T, e, <<>>) /\ ~EnsureFails(NewBuffer(kInit), k)
  BY <1>3, <1>4, ensureHolds
<1>6. shrink(b, n) = append(e, d)  BY <1>1 DEF shrink, k
<1> HIDE DEF e
<1>7. Holds(T, append(e, d), <<>> \o d)  BY <1>2, <1>5, appendHolds
<1>8. <<>> \o d = d  BY <1>2, ConcatEmptySeq
<1> QED  BY <1>5, <1>6, <1>7, <1>8 DEF k

\* readFd(): what readv() put into the vector and into extrabuf comes behind
\* the readable bytes, in order.
LEMMA readFdHolds ==
  ASSUME NEW T, Zero \in T, NEW b, NEW d, Holds(T, b, d), NEW s \in Seq(T)
  PROVE  Holds(T, readFd(b, s), d \o s) /\ ~ReadFdFails(b, s)
<1> DEFINE v == b.buf
           w == b.w
           room == writableBytes(b)
<1>1. /\ v \in Seq(T) /\ Len(v) \in Nat /\ w \in Nat /\ w <= Len(v)
      /\ d \in Seq(T) /\ room = Len(v) - w
  BY HoldsFields DEF writableBytes
<1>2. Len(s) \in Nat /\ room \in Nat  BY <1>1, LenProperties
<1>3. CASE Len(s) <= room
  <2>1. readFd(b, s) = [buf |-> Copy(v, w, s), r |-> b.r, w |-> w + Len(s)]
    BY <1>3 DEF readFd, Holds
  <2>2. w + Len(s) <= Len(v)  BY <1>1, <1>2, <1>3
  <2>3. Holds(T, readFd(b, s), d \o s)  BY <2>1, <2>2, WriteHolds
  <2>4. ~(Len(s) > room)  BY <1>2, <1>3
  <2> QED  BY <2>3, <2>4 DEF ReadFdFails
<1>4. CASE ~(Len(s) <= room)
  <2> DEFINE x == SubSeq(s, 1, room)
             y == SubSeq(s, room + 1, Len(s))
             c == Copy(v, w, s)
             full == [buf |-> c, r |-> b.r, w |-> Len(v)]
  <2>1. room <= Len(s) /\ Len(s) - room \in Nat  BY <1>2, <1>4
  <2>2. /\ x \in Seq(T) /\ Len(x) = room
        /\ \A i \in 1 .. room : x[i] = s[i]
    BY <1>2, <2>1, FirstFacts
  <2>3. y \in Seq(T) /\ Len(y) = Len(s) - room  BY <1>2, <2>1, RestFacts
  <2>4. s = x \o y  BY <1>2, <2>1, CutAt
  <2>5. readFd(b, s) = append(full, y)
    <3>1. readFd(b, s) = append([b EXCEPT !.buf = c, !.w = Len(v)], y)  BY <1>4 DEF readFd
    <3> HIDE DEF c, y
    <3>2. [b EXCEPT !.buf = c, !.w = Len(v)] = full
      BY FieldsSet
    <3> QED  BY <3>1, <3>2
  <2> HIDE DEF x, y, room
  <2>6. c = Copy(v, w, x)
    <3> DEFINE n == Len(v)
    <3>1. /\ DOMAIN v = 1 .. n /\ DOMAIN s = 1 .. Len(s) /\ DOMAIN x = 1 .. room
          /\ n = w + room
      BY <1>1, <1>2, <2>2, LenProperties
    <3> HIDE DEF v, w, n
    <3>2. ASSUME NEW i \in 1 .. n
          PROVE  (IF i - w \in 1 .. Len(s) THEN s[i - w] ELSE v[i])
                   = (IF i - w \in 1 .. room THEN x[i - w] ELSE v[i])
      <4>1. i - w \in 1 .. Len(s) <=> i - w \in 1 .. room  BY <1>1, <1>2, <2>1, <3>1
      <4>2. i - w \in 1 .. room => x[i - w] = s[i - w]  BY <2>2
      <4> QED  BY <4>1, <4>2
    <3> QED  BY <3>1, <3>2 DEF Copy
  <2>7. Holds(T, full, d \o x)
    <3>1. w + Len(x) <= Len(v) /\ w + Len(x) = Len(v)  BY <1>1, <1>2, <2>2
    <3>2. Holds(T, [buf |-> Copy(v, w, x), r |-> b.r, w |-> w + Len(x)], d \o x)
      BY <2>2, <3>1, WriteHolds
    <3> QED  BY <2>6, <3>1, <3>2
  <2> HIDE DEF c
  <2>8. Holds(T, append(full, y), (d \o x) \o y) /\ ~EnsureFails(full, Len(y))
    <3> HIDE DEF full
    <3> QED  BY <2>3, <2>7, appendHolds
  <2>9. (d \o x) \o y = d \o s
    <3>1. ConcatAssoc(T)  BY BufConcat
    <3>2. (d \o x) \o y = d \o (x \o y)
      BY <1>1, <2>2, <2>3, <3>1, ZenonT(60) DEF ConcatAssoc
    <3> QED  BY <2>4, <3>2
  <2>10. ~EnsureFails([b EXCEPT !.w = Len(b.buf)], Len(s) - room)
    <3> DEFINE t == SubSeq(v, b.r + 1, Len(v))
               g == [b EXCEPT !.w = Len(b.buf)]
    <3>1. g = [buf |-> v, r |-> b.r, w |-> Len(v)]  BY SMTT(60) DEF Holds
    <3>2. /\ b.r \in Nat /\ b.r <= Len(v) /\ kPre <= Len(v)  BY <1>1, HoldsFields
    <3>3. /\ t \in Seq(T) /\ Len(t) = Len(v) - b.r
          /\ \A i \in 1 .. Len(v) - b.r : t[i] = v[b.r + i]
      BY <1>1, <3>2, RestFacts
    <3> HIDE DEF t
    <3>4. Holds(T, [buf |-> v, r |-> b.r, w |-> Len(v)], t)
      <4>1. Len(v) <= Len(v)  BY <1>1
      <4> QED  BY <1>1, <3>2, <3>3, <4>1, MakeHolds
    <3>5. Holds(T, g, t)  BY <3>1, <3>4
    <3> HIDE DEF g
    <3>6. ~EnsureFails(g, Len(s) - room)  BY <2>1, <3>5, ensureHolds
    <3> QED  BY <3>6 DEF g
  <2> QED  BY <2>5, <2>8, <2>9, <2>10 DEF ReadFdFails, room
<1> QED  BY <1>3, <1>4

-----------------------------------------------------------------------------
(* The stream of the requests: where each line of each request lies in it. *)

\* What the bytes of a buffer of the connection can be.
Elem == Text \cup {"CR", "LF", Zero} \cup Byte

\* Where request k + 1 starts in the stream of rs.
StartOf(rs, k) == Len(FlattenSeq([i \in 1 .. k |-> Encode(rs[i])]))

\* Member k + 1 of t comes behind f in e, and before the end of g.
LiesAt(T, t, k, f, g, e) ==
  /\ f \in Seq(T) /\ e \in Seq(T) /\ t[k + 1] \in Seq(T)
  /\ Len(f) \in Nat /\ Len(g) \in Nat /\ Len(t[k + 1]) \in Nat
  /\ Len(g) = Len(f) + Len(t[k + 1]) /\ Len(g) <= Len(e)
  /\ \A j \in 1 .. Len(t[k + 1]) : e[Len(f) + j] = t[k + 1][j]

\* A flattened sequence of sequences, where member k + 1 lies in it.
LEMMA FlattenAt ==
  ASSUME NEW T, NEW t \in Seq(Seq(T)), NEW k \in Nat, k < Len(t)
  PROVE  LiesAt(T, t, k, FlattenSeq(SubSeq(t, 1, k)), FlattenSeq(SubSeq(t, 1, k + 1)),
                FlattenSeq(t))
<1> DEFINE f == FlattenSeq(SubSeq(t, 1, k))
           g == FlattenSeq(SubSeq(t, 1, k + 1))
           e == FlattenSeq(t)
<1> DEFINE D == Seq(T)
           p == SubSeq(t, 1, k)
           q == SubSeq(t, 1, k + 1)
           r == SubSeq(t, (k + 1) + 1, Len(t))
           b == t[k + 1]
           h == FlattenSeq(r)
<1>0. t \in Seq(D)  OBVIOUS
<1> HIDE DEF D
<1>1. Len(t) \in Nat /\ k + 1 \in 1 .. Len(t)
  BY <1>0, LenProperties
<1>2. p \in Seq(D) /\ b \in D /\ q = Append(p, b)  BY <1>0, PrefixStep
<1>3. q \in Seq(D) /\ r \in Seq(D) /\ t = q \o r  BY <1>0, <1>1, SplitAt
<1> HIDE DEF p, q, r, b
<1>4. f \in Seq(T) /\ g = f \o b
  BY <1>2, FlattenAppend DEF D, p, q
<1>5. h \in Seq(T)
  <2>1. <<>> \in Seq(T)  BY EmptySeq
  <2> QED  BY <1>3, <2>1, FlattenAppend DEF D
<1>6. e = g \o h
  <2>1. FlattenSeq(q \o r) = FlattenSeq(q) \o h  BY <1>3, FlattenConcat DEF D
  <2> QED  BY <1>3, <2>1 DEF q
<1> HIDE DEF h, f, g, e
<1>7. b \in Seq(T)  BY <1>2 DEF D
<1>8. Joined(T, f, b, f \o b)  BY <1>4, <1>7, ConcatElems
<1>9. Joined(T, f, b, g)  BY <1>4, <1>8
<1>10. g \in Seq(T)  BY <1>9 DEF Joined
<1>11. Joined(T, g, h, g \o h)  BY <1>5, <1>10, ConcatElems
<1>12. Joined(T, g, h, e)  BY <1>6, <1>11
<1>13. /\ e \in Seq(T) /\ Len(f) \in Nat /\ Len(g) \in Nat /\ Len(b) \in Nat
       /\ Len(h) \in Nat /\ Len(g) = Len(f) + Len(b) /\ Len(e) = Len(g) + Len(h)
  BY <1>9, <1>12 DEF Joined
<1>14. Len(g) <= Len(e)  BY <1>13
<1>15. ASSUME NEW j \in 1 .. Len(b)  PROVE e[Len(f) + j] = b[j]
  <2>1. g[Len(f) + j] = b[j]  BY <1>9 DEF Joined
  <2>2. Len(f) + j \in 1 .. Len(g)  BY <1>13
  <2>3. \A i \in 1 .. Len(g) : e[i] = g[i]  BY <1>12 DEF Joined
  <2>4. e[Len(f) + j] = g[Len(f) + j]  BY <2>2, <2>3
  <2> QED  BY <2>1, <2>4
<1>16. LiesAt(T, t, k, f, g, e)
  BY <1>4, <1>7, <1>13, <1>14, <1>15 DEF LiesAt, b
<1> QED  BY <1>16 DEF f, g, e

\* The lines of a request, encoded.
Lines(req) == [i \in DOMAIN req |-> Line(req[i])]

\* The first n lines have three elements each.
LEMMA LinesFacts ==
  ASSUME NEW req \in Seq(Text)
  PROVE  /\ Lines(req) \in Seq(Seq(Elem)) /\ Len(Lines(req)) = Len(req)
         /\ \A i \in 1 .. Len(req) : Lines(req)[i] = Line(req[i])
         /\ \A i \in 1 .. Len(req) : Line(req[i]) \in Seq(Elem) /\ Len(Line(req[i])) = 3
<1>1. /\ Len(req) \in Nat /\ DOMAIN req = 1 .. Len(req)
      /\ \A i \in 1 .. Len(req) : req[i] \in Text
  BY LenProperties, ElementOfSeq
<1>2. ASSUME NEW i \in 1 .. Len(req)
      PROVE  Line(req[i]) \in Seq(Elem) /\ Len(Line(req[i])) = 3
  <2>1. req[i] \in Elem /\ "CR" \in Elem /\ "LF" \in Elem  BY <1>1 DEF Elem
  <2> QED  BY <2>1 DEF Line
<1> DEFINE D == Seq(Elem)
           u == Lines(req)
<1>3. u = [i \in 1 .. Len(req) |-> Line(req[i])]  BY <1>1 DEF Lines
<1>4. \A i \in 1 .. Len(req) : Line(req[i]) \in D  BY <1>2
<1> HIDE DEF D, u
<1>5. u \in [1 .. Len(req) -> D]  BY <1>3, <1>4
<1>6. u \in Seq(D) /\ Len(u) = Len(req)  BY <1>1, <1>5
<1> QED  BY <1>2, <1>3, <1>6 DEF D, u

\* Where the lines of an encoded request are.
LEMMA LinesAt ==
  ASSUME NEW req \in Seq(Text), NEW e, e = FlattenSeq(Lines(req))
  PROVE  /\ e \in Seq(Elem) /\ Len(e) = 3 * Len(req)
         /\ \A l \in 0 .. Len(req) - 1 :
               /\ e[3 * l + 1] = req[l + 1]
               /\ e[3 * l + 2] = "CR" /\ e[3 * l + 3] = "LF"
<1> DEFINE u == Lines(req)
           n == Len(req)
           D == Seq(Elem)
           f(l) == FlattenSeq(SubSeq(u, 1, l))
           S == {l \in Nat : l <= n => Len(f(l)) = 3 * l}
<1>1. /\ u \in Seq(D) /\ Len(u) = n
      /\ \A i \in 1 .. n : u[i] = Line(req[i])
      /\ \A i \in 1 .. n : Len(Line(req[i])) = 3
  BY LinesFacts
<1>2. n \in Nat  BY LenProperties
<1>3. e = FlattenSeq(u)  OBVIOUS
<1> HIDE DEF u, n
<1>4. ASSUME NEW l \in Nat, l < n
      PROVE  /\ Len(f(l)) \in Nat /\ Len(f(l + 1)) = Len(f(l)) + 3
             /\ e[Len(f(l)) + 1] = req[l + 1]
             /\ e[Len(f(l)) + 2] = "CR" /\ e[Len(f(l)) + 3] = "LF"
  <2> DEFINE x == f(l)
             y == f(l + 1)
  <2>1. l + 1 \in 1 .. n  BY <1>2, <1>4
  <2>2. /\ Len(x) \in Nat /\ Len(y) = Len(x) + Len(u[l + 1])
        /\ \A j \in 1 .. Len(u[l + 1]) : e[Len(x) + j] = u[l + 1][j]
    <3>1. u \in Seq(Seq(Elem)) /\ l < Len(u)  BY <1>1, <1>4
    <3>2. LiesAt(Elem, u, l, x, y, e)  BY <1>3, <3>1, FlattenAt
    <3> HIDE DEF x, y
    <3> QED  BY <3>2 DEF LiesAt
  <2> HIDE DEF f
  <2>3. u[l + 1] = Line(req[l + 1]) /\ Len(u[l + 1]) = 3  BY <1>1, <2>1
  <2>4. 1 \in 1 .. 3 /\ 2 \in 1 .. 3 /\ 3 \in 1 .. 3  OBVIOUS
  <2>5. /\ e[Len(x) + 1] = u[l + 1][1] /\ e[Len(x) + 2] = u[l + 1][2]
        /\ e[Len(x) + 3] = u[l + 1][3]
    BY <2>2, <2>3, <2>4
  <2>6. /\ u[l + 1][1] = req[l + 1] /\ u[l + 1][2] = "CR" /\ u[l + 1][3] = "LF"
    BY <2>3 DEF Line
  <2> QED  BY <2>2, <2>3, <2>5, <2>6
<1>5. 0 \in S
  <2>1. SubSeq(u, 1, 0) = <<>>  BY <1>1, PrefixEnds
  <2>2. FlattenSeq(<<>>) = <<>> /\ Len(<<>>) = 0
    <3>1. <<>> \in Seq(Elem)  BY EmptySeq
    <3> QED  BY <1>1, <3>1, FlattenAppend, EmptySeq DEF D
  <2>3. Len(f(0)) = 0  BY <2>1, <2>2
  <2> HIDE DEF f
  <2> QED  BY <2>3
<1>6. ASSUME NEW l \in S  PROVE l + 1 \in S
  <2>1. l \in Nat /\ l + 1 \in Nat  OBVIOUS
  <2>2. ASSUME l + 1 <= n  PROVE Len(f(l + 1)) = 3 * (l + 1)
    <3>1. l <= n /\ l < n  BY <1>2, <2>1, <2>2
    <3>2. Len(f(l)) = 3 * l /\ Len(f(l + 1)) = Len(f(l)) + 3  BY <1>4, <1>6, <2>1, <3>1
    <3> HIDE DEF f
    <3> QED  BY <2>1, <3>2
  <2> QED  BY <2>1, <2>2
<1>7. S \in SUBSET Nat  OBVIOUS
<1> HIDE DEF S
<1>8. \A l \in Nat : l \in S  BY <1>5, <1>6, <1>7, SetInduction
<1>9. \A l \in Nat : l <= n => Len(f(l)) = 3 * l  BY <1>8 DEF S
<1>10. e \in Seq(Elem)
  <2>1. <<>> \in Seq(Elem)  BY EmptySeq
  <2> QED  BY <1>1, <1>3, <2>1, FlattenAppend DEF D
<1>11. Len(e) = 3 * n
  <2>1. SubSeq(u, 1, n) = u  BY <1>1, PrefixEnds
  <2>2. f(n) = e  BY <1>3, <2>1
  <2>3. n <= n  BY <1>2
  <2>4. Len(f(n)) = 3 * n  BY <1>2, <1>9, <2>3
  <2> QED  BY <2>2, <2>4
<1>12. ASSUME NEW l \in 0 .. n - 1
       PROVE  e[3 * l + 1] = req[l + 1] /\ e[3 * l + 2] = "CR" /\ e[3 * l + 3] = "LF"
  <2>1. l \in Nat /\ l < n /\ l <= n  BY <1>2
  <2>2. Len(f(l)) = 3 * l  BY <1>9, <2>1
  <2>3. /\ e[Len(f(l)) + 1] = req[l + 1]
        /\ e[Len(f(l)) + 2] = "CR" /\ e[Len(f(l)) + 3] = "LF"
    BY <1>4, <2>1
  <2> HIDE DEF f
  <2> QED  BY <2>2, <2>3
<1> QED  BY <1>10, <1>11, <1>12 DEF n

\* e is the lines of req, of three elements each, and an empty line.
Encoded(req, e) ==
  /\ e \in Seq(Elem) /\ Len(e) = 3 * Len(req) + 2
  /\ \A l \in 0 .. Len(req) - 1 :
        e[3 * l + 1] = req[l + 1] /\ e[3 * l + 2] = "CR" /\ e[3 * l + 3] = "LF"
  /\ e[3 * Len(req) + 1] = "CR" /\ e[3 * Len(req) + 2] = "LF"

\* Where the lines of an encoded request and the empty line behind them are.
LEMMA EncodeFacts ==
  ASSUME NEW req \in Seq(Text)
  PROVE  Encoded(req, Encode(req))
<1> DEFINE e == Encode(req)
<1> DEFINE n == Len(req)
           f == FlattenSeq(Lines(req))
           c == <<"CR", "LF">>
<1>1. n \in Nat  BY LenProperties
<1>2. /\ f \in Seq(Elem) /\ Len(f) = 3 * n
      /\ \A l \in 0 .. n - 1 :
            f[3 * l + 1] = req[l + 1] /\ f[3 * l + 2] = "CR" /\ f[3 * l + 3] = "LF"
  BY LinesAt
<1>3. c \in Seq(Elem) /\ Len(c) = 2 /\ c[1] = "CR" /\ c[2] = "LF"
  <2>1. "CR" \in Elem /\ "LF" \in Elem  BY DEF Elem
  <2> QED  BY <2>1
<1>4. e = f \o c  BY DEF Encode, Lines
<1> HIDE DEF n, f, c, e
<1>5. Joined(Elem, f, c, f \o c)  BY <1>2, <1>3, ConcatElems
<1>6. Joined(Elem, f, c, e)  BY <1>4, <1>5
<1>7. /\ e \in Seq(Elem) /\ Len(e) = 3 * n + 2
      /\ \A i \in 1 .. 3 * n : e[i] = f[i]
      /\ \A i \in 1 .. 2 : e[3 * n + i] = c[i]
  BY <1>2, <1>3, <1>6 DEF Joined
<1>8. ASSUME NEW l \in 0 .. n - 1
      PROVE  e[3 * l + 1] = req[l + 1] /\ e[3 * l + 2] = "CR" /\ e[3 * l + 3] = "LF"
  <2>1. 3 * l + 1 \in 1 .. 3 * n /\ 3 * l + 2 \in 1 .. 3 * n /\ 3 * l + 3 \in 1 .. 3 * n
    BY <1>1
  <2> QED  BY <1>2, <1>7, <2>1
<1>9. e[3 * n + 1] = "CR" /\ e[3 * n + 2] = "LF"
  <2>1. 1 \in 1 .. 2 /\ 2 \in 1 .. 2  OBVIOUS
  <2> QED  BY <1>3, <1>7, <2>1
<1>10. Encoded(req, e)  BY <1>7, <1>8, <1>9 DEF Encoded, n
<1> QED  BY <1>10 DEF e

\* The stream of the requests rs.
StreamOf(rs) == FlattenSeq([i \in DOMAIN rs |-> Encode(rs[i])])

\* Request k + 1 in the stream: its lines, of three elements each, and CR LF.
Laid(rs, k, st, s) ==
  /\ st \in Nat /\ Len(rs[k + 1]) \in Nat
  /\ StartOf(rs, k + 1) = st + 3 * Len(rs[k + 1]) + 2 /\ StartOf(rs, k + 1) <= Len(s)
  /\ \A l \in 0 .. Len(rs[k + 1]) - 1 :
        /\ s[st + 3 * l + 1] = rs[k + 1][l + 1] /\ rs[k + 1][l + 1] \in Text
        /\ s[st + 3 * l + 2] = "CR" /\ s[st + 3 * l + 3] = "LF"
  /\ s[st + 3 * Len(rs[k + 1]) + 1] = "CR" /\ s[st + 3 * Len(rs[k + 1]) + 2] = "LF"

\* The encoded requests as a sequence.
LEMMA EncodedFacts ==
  ASSUME NEW rs \in Seq(Seq(Text)), NEW u, u = [i \in DOMAIN rs |-> Encode(rs[i])]
  PROVE  /\ u \in Seq(Seq(Elem)) /\ Len(u) = Len(rs) /\ Len(rs) \in Nat
         /\ DOMAIN rs = 1 .. Len(rs)
         /\ \A i \in 1 .. Len(rs) : u[i] = Encode(rs[i]) /\ rs[i] \in Seq(Text)
         /\ \A k \in 0 .. Len(rs) : StartOf(rs, k) = Len(FlattenSeq(SubSeq(u, 1, k)))
<1> DEFINE D == Seq(Elem)
           n == Len(rs)
<1>1. n \in Nat /\ DOMAIN rs = 1 .. n /\ \A i \in 1 .. n : rs[i] \in Seq(Text)
  BY LenProperties, ElementOfSeq
<1>2. \A i \in 1 .. n : Encode(rs[i]) \in D  BY <1>1, EncodeFacts DEF Encoded
<1> HIDE DEF D
<1>3. u = [i \in 1 .. n |-> Encode(rs[i])]  BY <1>1
<1> HIDE DEF n
<1>4. u \in [1 .. n -> D]  BY <1>2, <1>3
<1>5. u \in Seq(D) /\ Len(u) = n  BY <1>1, <1>4
<1>6. \A i \in 1 .. n : u[i] = Encode(rs[i])  BY <1>3
<1>7. ASSUME NEW k \in 0 .. n
      PROVE  StartOf(rs, k) = Len(FlattenSeq(SubSeq(u, 1, k)))
  <2> DEFINE p == SubSeq(u, 1, k)
             q == [i \in 1 .. k |-> Encode(rs[i])]
  <2>1. k \in Nat /\ k <= Len(u)  BY <1>1, <1>5
  <2>2. p \in Seq(D) /\ Len(p) = k /\ \A i \in 1 .. k : p[i] = u[i]
    BY <1>5, <2>1, FirstFacts
  <2>3. \A i \in 1 .. k : i \in 1 .. n  BY <1>1
  <2>4. q \in [1 .. k -> D]  BY <1>2, <2>3
  <2>5. q \in Seq(D) /\ Len(q) = k  BY <2>1, <2>4
  <2>6. \A i \in 1 .. k : q[i] = p[i]  BY <1>6, <2>2, <2>3
  <2> HIDE DEF p, q
  <2>7. p = q  BY <2>2, <2>5, <2>6, SeqEqual
  <2> QED  BY <2>7 DEF p, q, StartOf
<1> QED  BY <1>1, <1>5, <1>6, <1>7 DEF D, n

\* Where request k + 1 lies in the stream.
LEMMA StreamAt ==
  ASSUME NEW rs \in Seq(Seq(Text)), NEW k \in 0 .. Len(rs) - 1
  PROVE  Laid(rs, k, StartOf(rs, k), StreamOf(rs))
<1> DEFINE u == [i \in DOMAIN rs |-> Encode(rs[i])]
           f == FlattenSeq(SubSeq(u, 1, k))
           g == FlattenSeq(SubSeq(u, 1, k + 1))
           s == StreamOf(rs)
           st == StartOf(rs, k)
           req == rs[k + 1]
           n == Len(req)
           e == u[k + 1]
<1>1. s = FlattenSeq(u)  BY DEF StreamOf
<1>2. /\ u \in Seq(Seq(Elem)) /\ Len(u) = Len(rs) /\ Len(rs) \in Nat
      /\ \A i \in 1 .. Len(rs) : u[i] = Encode(rs[i]) /\ rs[i] \in Seq(Text)
      /\ \A j \in 0 .. Len(rs) : StartOf(rs, j) = Len(FlattenSeq(SubSeq(u, 1, j)))
  BY EncodedFacts, ZenonT(60)
<1> HIDE DEF u
<1>3. /\ k \in Nat /\ k < Len(u) /\ k + 1 \in 1 .. Len(rs) /\ k \in 0 .. Len(rs)
      /\ k + 1 \in 0 .. Len(rs)
  BY <1>2
<1>4. LiesAt(Elem, u, k, f, g, s)  BY <1>1, <1>2, <1>3, FlattenAt
<1>5. st = Len(f) /\ StartOf(rs, k + 1) = Len(g)  BY <1>2, <1>3
<1>6. e = Encode(req) /\ req \in Seq(Text)  BY <1>2, <1>3
<1> HIDE DEF f, g, s, st, req, e
<1>0. Encoded(req, e)  BY <1>6, EncodeFacts
<1>7. /\ Len(e) = 3 * n + 2
      /\ \A l \in 0 .. n - 1 :
            e[3 * l + 1] = req[l + 1] /\ e[3 * l + 2] = "CR" /\ e[3 * l + 3] = "LF"
      /\ e[3 * n + 1] = "CR" /\ e[3 * n + 2] = "LF"
  BY <1>0 DEF Encoded
<1>8. n \in Nat /\ \A i \in 1 .. n : req[i] \in Text  BY <1>6, LenProperties, ElementOfSeq
<1>9. /\ st \in Nat /\ StartOf(rs, k + 1) = st + Len(e) /\ StartOf(rs, k + 1) <= Len(s)
      /\ \A j \in 1 .. Len(e) : s[st + j] = e[j]
  BY <1>4, <1>5 DEF LiesAt, e
<1> HIDE DEF n
<1>10. ASSUME NEW l \in 0 .. n - 1
       PROVE  /\ s[st + 3 * l + 1] = req[l + 1] /\ req[l + 1] \in Text
              /\ s[st + 3 * l + 2] = "CR" /\ s[st + 3 * l + 3] = "LF"
  <2> DEFINE m == 3 * l
  <2>1. /\ m + 1 \in 1 .. Len(e) /\ m + 2 \in 1 .. Len(e) /\ m + 3 \in 1 .. Len(e)
        /\ l + 1 \in 1 .. n /\ m \in Nat
    BY <1>7, <1>8
  <2>2. e[m + 1] = req[l + 1] /\ e[m + 2] = "CR" /\ e[m + 3] = "LF"  BY <1>7
  <2> HIDE DEF m
  <2>3. /\ st + m + 1 = st + (m + 1) /\ st + m + 2 = st + (m + 2)
        /\ st + m + 3 = st + (m + 3)
    BY <1>9, <2>1
  <2>4. /\ s[st + m + 1] = req[l + 1] /\ req[l + 1] \in Text
        /\ s[st + m + 2] = "CR" /\ s[st + m + 3] = "LF"
    BY <1>8, <1>9, <2>1, <2>2, <2>3
  <2> QED  BY <2>4 DEF m
<1>11. s[st + 3 * n + 1] = "CR" /\ s[st + 3 * n + 2] = "LF"
  <2> DEFINE m == 3 * n
  <2>1. m \in Nat /\ m + 1 \in 1 .. Len(e) /\ m + 2 \in 1 .. Len(e)  BY <1>7, <1>8
  <2>2. e[m + 1] = "CR" /\ e[m + 2] = "LF"  BY <1>7
  <2> HIDE DEF m
  <2>3. st + m + 1 = st + (m + 1) /\ st + m + 2 = st + (m + 2)  BY <1>9, <2>1
  <2>4. s[st + m + 1] = "CR" /\ s[st + m + 2] = "LF"  BY <1>9, <2>1, <2>2, <2>3
  <2> QED  BY <2>4 DEF m
<1>12. StartOf(rs, k + 1) = st + 3 * n + 2  BY <1>7, <1>8, <1>9
<1>13. Laid(rs, k, st, s)
  BY <1>8, <1>9, <1>10, <1>11, <1>12 DEF Laid, n, req
<1> QED  BY <1>13 DEF st, s

\* Where the stream starts and ends.
LEMMA StreamEnds ==
  ASSUME NEW rs \in Seq(Seq(Text))
  PROVE  /\ StartOf(rs, 0) = 0 /\ StartOf(rs, Len(rs)) = Len(StreamOf(rs))
         /\ StreamOf(rs) \in Seq(Elem) /\ Len(StreamOf(rs)) \in Nat /\ Len(rs) \in Nat
<1> DEFINE u == [i \in DOMAIN rs |-> Encode(rs[i])]
           n == Len(rs)
<1>1. /\ u \in Seq(Seq(Elem)) /\ Len(u) = n /\ n \in Nat
      /\ \A k \in 0 .. n : StartOf(rs, k) = Len(FlattenSeq(SubSeq(u, 1, k)))
  BY EncodedFacts
<1>2. StreamOf(rs) = FlattenSeq(u)  BY DEF StreamOf
<1> HIDE DEF u
<1>3. SubSeq(u, 1, n) = u /\ SubSeq(u, 1, 0) = <<>>
  <2> DEFINE D == Seq(Elem)
  <2>1. u \in Seq(D)  BY <1>1
  <2> HIDE DEF D
  <2>2. SubSeq(u, 1, Len(u)) = u /\ SubSeq(u, 1, 0) = <<>>  BY <2>1, PrefixEnds
  <2> QED  BY <1>1, <2>2
<1>4. FlattenSeq(<<>>) = <<>> /\ FlattenSeq(u) \in Seq(Elem)
  <2>1. <<>> \in Seq(Elem)  BY EmptySeq
  <2> QED  BY <1>1, <2>1, FlattenAppend
<1> HIDE DEF n
<1>5. 0 \in 0 .. n /\ n \in 0 .. n  BY <1>1
<1>6. StartOf(rs, 0) = Len(FlattenSeq(SubSeq(u, 1, 0))) /\ Len(<<>>) = 0
  BY <1>1, <1>5, EmptySeq
<1>7. StartOf(rs, 0) = 0  BY <1>3, <1>4, <1>6
<1>8. StartOf(rs, n) = Len(StreamOf(rs))  BY <1>1, <1>2, <1>3, <1>5
<1>9. StreamOf(rs) \in Seq(Elem) /\ Len(StreamOf(rs)) \in Nat
  BY <1>2, <1>4, LenProperties
<1> QED  BY <1>1, <1>7, <1>8, <1>9 DEF n

\* A request starts at a natural number.
LEMMA StartNat ==
  ASSUME NEW rs \in Seq(Seq(Text)), NEW i \in 0 .. Len(rs)
  PROVE  StartOf(rs, i) \in Nat
<1>0. Len(rs) \in Nat  BY LenProperties
<1>1. CASE i = Len(rs)  BY <1>1, StreamEnds
<1>2. CASE i # Len(rs)
  <2>1. i \in 0 .. Len(rs) - 1  BY <1>0, <1>2
  <2> QED  BY <2>1, StreamAt DEF Laid
<1> QED  BY <1>1, <1>2

\* A later request starts later.
LEMMA StartGrows ==
  ASSUME NEW rs \in Seq(Seq(Text)), NEW j \in 0 .. Len(rs), NEW k \in j .. Len(rs)
  PROVE  StartOf(rs, j) <= StartOf(rs, k)
<1> DEFINE S == {m \in Nat : j + m <= Len(rs) =>
                   StartOf(rs, j + m) \in Nat /\ StartOf(rs, j) <= StartOf(rs, j + m)}
<1>0. Len(rs) \in Nat /\ j \in Nat /\ k \in Nat /\ k - j \in Nat
  BY LenProperties
<1>1. \A i \in 0 .. Len(rs) : StartOf(rs, i) \in Nat  BY StartNat
<1>2. 0 \in S
  <2>1. j + 0 = j /\ j \in 0 .. Len(rs)  BY <1>0
  <2>2. StartOf(rs, j) \in Nat /\ StartOf(rs, j) <= StartOf(rs, j)  BY <1>1, <2>1
  <2> QED  BY <2>1, <2>2
<1>3. ASSUME NEW m \in S  PROVE m + 1 \in S
  <2>1. m \in Nat /\ m + 1 \in Nat  OBVIOUS
  <2>2. ASSUME j + (m + 1) <= Len(rs)
        PROVE  /\ StartOf(rs, j + (m + 1)) \in Nat
               /\ StartOf(rs, j) <= StartOf(rs, j + (m + 1))
    <3> DEFINE i == j + m
    <3>1. /\ i \in 0 .. Len(rs) - 1 /\ i <= Len(rs) /\ i + 1 \in 0 .. Len(rs)
          /\ j + (m + 1) = i + 1
      BY <1>0, <2>1, <2>2
    <3>2. StartOf(rs, i) \in Nat /\ StartOf(rs, j) <= StartOf(rs, i)  BY <1>3, <3>1
    <3> HIDE DEF i
    <3>3. /\ Len(rs[i + 1]) \in Nat
          /\ StartOf(rs, i + 1) = StartOf(rs, i) + 3 * Len(rs[i + 1]) + 2
      BY <3>1, StreamAt DEF Laid
    <3>4. StartOf(rs, i + 1) \in Nat /\ StartOf(rs, j) \in Nat  BY <1>1, <3>1
    <3>5. StartOf(rs, j) <= StartOf(rs, i + 1)  BY <3>2, <3>3, <3>4
    <3> QED  BY <3>1, <3>4, <3>5
  <2> QED  BY <2>1, <2>2
<1>4. S \in SUBSET Nat  OBVIOUS
<1> HIDE DEF S
<1>5. k - j \in S  BY <1>0, <1>2, <1>3, <1>4, SetInduction
<1>6. j + (k - j) = k /\ k <= Len(rs)  BY <1>0
<1> QED  BY <1>5, <1>6 DEF S

-----------------------------------------------------------------------------
(* The invariant of a connection of the HTTP server.  What was served is   *)
(* right because the parser is always at the start of a line, and its      *)
(* request_ is what the lines before it in the same request ask for; that  *)
(* it is rests on the buffer holding what was received and not parsed.     *)

\* How much of the stream was parsed, and the request that is next.
Parsed == received - Len(data)
Coming == reqs[Len(served) + 1]
At(l) == Parsed = StartOf(reqs, Len(served)) + 3 * l

\* What a request asks for in its first n lines.
AskedTo(req, n) ==
  LET conns == {i \in 2 .. n : req[i] \in DOMAIN ConnHeader}
  IN  [version |-> procReq(req[1]),
       conn |-> IF conns = {} THEN "" ELSE ConnHeader[req[Max(conns)]]]

\* Requests as the peer sends them.
Sendable(rs) ==
  /\ rs \in Seq(Seq(Text))
  /\ \A k \in DOMAIN rs : rs[k] # <<>> /\ \A i \in 2 .. Len(rs[k]) : rs[k][i] \in Header

\* What a request can be, as httpCB_ sees it.
Request == [version : {"Unknown", "HTTP10", "HTTP11"}, conn : {"", "close", "Keep-Alive"}]

HTTPFields ==
  /\ user \in {"http", "calls"} /\ Sendable(reqs)
  /\ hpc \in {"read", "parse", "done", "bad"}
  /\ state_ \in {"ExpReq", "ExpHeader", "Done"} /\ request_ \in Request
  /\ wrShut \in BOOLEAN /\ lost \in BOOLEAN /\ waiting \in BOOLEAN
  /\ responses \in Seq({"400", "close", "keep"}) /\ served \in Seq(Request)

HTTPBuffer == ~failed /\ Holds(Elem, inputBuf, data)

HTTPReceived == received \in 0 .. Len(Stream)

\* What is in the buffer is what was received and not parsed yet.
HTTPData ==
  user = "http" => /\ Len(data) <= received
                   /\ \A i \in 1 .. Len(data) : data[i] = Stream[Parsed + i]

HTTPServed ==
  /\ Len(served) <= Len(reqs)
  /\ \A i \in 1 .. Len(served) : WellFormed(reqs[i]) /\ served[i] = Asked(reqs[i])

\* Where the parser can be: behind the last request,
AllServed == ~lost /\ hpc = "read" /\ Len(served) = Len(reqs) /\ At(0)

\* before a request (between reads, only what has not arrived or is malformed
\* is left there, or what came with the end of the request before it),
BeforeRequest ==
  /\ ~lost /\ Len(served) < Len(reqs) /\ At(0)
  /\ \/ /\ hpc = "read"
        /\ ~waiting => \/ received < StartOf(reqs, Len(served) + 1)
                       \/ ~WellFormed(Coming)
     \/ hpc = "parse" /\ state_ = "ExpReq"
     \/ hpc = "bad" /\ ~WellFormed(Coming)

\* behind some of its lines,
InHeaders ==
  /\ ~lost /\ Len(served) < Len(reqs) /\ hpc = "parse" /\ state_ = "ExpHeader"
  /\ WellFormed(Coming)
  /\ \E l \in 1 .. Len(Coming) : At(l) /\ request_ = AskedTo(Coming, l)

\* behind all of it,
Complete ==
  /\ ~lost /\ Len(served) < Len(reqs) /\ hpc = "done"
  /\ WellFormed(Coming) /\ request_ = Asked(Coming)
  /\ Parsed = StartOf(reqs, Len(served) + 1)

\* or, once a context was dropped, for good behind a line that is no start of
\* a request.
Stuck ==
  /\ lost /\ Len(served) < Len(reqs)
  /\ \E l \in 1 .. Len(Coming) : At(l)
  /\ hpc = "read" \/ (hpc \in {"parse", "bad"} /\ state_ = "ExpReq")

HTTPWhere ==
  user = "http" => AllServed \/ BeforeRequest \/ InHeaders \/ Complete \/ Stuck

\* The inductive invariant of the connection and its buffer.
HTTPInv ==
  /\ HTTPFields /\ HTTPBuffer /\ HTTPReceived /\ HTTPData
  /\ HTTPServed /\ BadOnlyWhenBad /\ HTTPWhere

-----------------------------------------------------------------------------
(* The parser.                                                             *)

\* The least element of a set of integers, once known.
LEMMA MinIs ==
  ASSUME NEW S \in SUBSET Int, NEW x \in S, \A y \in S : x <= y
  PROVE  Min(S) = x
<1>1. Min(S) = CHOOSE z \in S : \A y \in S : z <= y  BY DEF Min
<1> DEFINE m == Min(S)
<1>2. m \in S /\ \A y \in S : m <= y  BY <1>1
<1> HIDE DEF m
<1>3. m <= x /\ x <= m /\ m \in Int /\ x \in Int  BY <1>2
<1>4. m = x  BY <1>3
<1> QED  BY <1>4 DEF m

\* The greatest element of a set of integers, once known.
LEMMA MaxIs ==
  ASSUME NEW S \in SUBSET Int, NEW x \in S, \A y \in S : x >= y
  PROVE  Max(S) = x
<1>1. Max(S) = CHOOSE z \in S : \A y \in S : z >= y  BY DEF Max
<1> DEFINE m == Max(S)
<1>2. m \in S /\ \A y \in S : m >= y  BY <1>1
<1> HIDE DEF m
<1>3. m >= x /\ x >= m /\ m \in Int /\ x \in Int  BY <1>2
<1>4. m = x  BY <1>3
<1> QED  BY <1>4 DEF m

\* findCRLF() when the data starts with a line of text.
LEMMA CRLFLine ==
  ASSUME NEW b, NEW d \in Seq(Elem), peek(b) = d,
         Len(d) >= 1 => d[1] \in Text,
         Len(d) >= 2 => d[2] = "CR",
         Len(d) >= 3 => d[3] = "LF"
  PROVE  \/ findCRLF(b) = -1 /\ Len(d) <= 2
         \/ findCRLF(b) = 1 /\ Len(d) >= 3
<1> DEFINE at == {i \in 1 .. Len(d) - 1 : d[i] = "CR" /\ d[i + 1] = "LF"}
<1>1. findCRLF(b) = IF at = {} THEN -1 ELSE Min(at) - 1  BY DEF findCRLF
<1>2. Len(d) \in Nat  BY LenProperties
<1>3. Len(d) >= 1 => d[1] # "CR"  BY DEF Text, Header
<1>4. 1 \notin at
  <2>1. SUFFICES ASSUME 1 \in at  PROVE FALSE  OBVIOUS
  <2>2. Len(d) >= 1 /\ d[1] = "CR"  BY <1>2, <2>1
  <2> QED  BY <1>3, <2>2
<1>5. CASE Len(d) <= 2
  <2>1. \A i \in at : i = 1  BY <1>2, <1>5
  <2>2. at = {}  BY <1>4, <2>1
  <2> QED  BY <1>1, <1>5, <2>2
<1>6. CASE Len(d) >= 3
  <2>1. 2 + 1 = 3 /\ 2 \in 1 .. Len(d) - 1 /\ Len(d) >= 2  BY <1>2, <1>6
  <2>2. 2 \in at  BY <1>6, <2>1
  <2>3. at \in SUBSET Int  OBVIOUS
  <2>4. \A i \in at : 2 <= i
    <3> TAKE i \in at
    <3>1. i \in Nat /\ i >= 1  BY <1>2
    <3>2. i # 1  BY <1>4
    <3> QED  BY <3>1, <3>2
  <2> HIDE DEF at
  <2>5. Min(at) = 2  BY <2>2, <2>3, <2>4, MinIs
  <2>6. at # {}  BY <2>2
  <2> QED  BY <1>1, <1>6, <2>5, <2>6
<1> QED  BY <1>2, <1>5, <1>6

\* findCRLF() when the data starts with an empty line.
LEMMA CRLFBlank ==
  ASSUME NEW b, NEW d \in Seq(Elem), peek(b) = d,
         Len(d) >= 1 => d[1] = "CR",
         Len(d) >= 2 => d[2] = "LF"
  PROVE  \/ findCRLF(b) = -1 /\ Len(d) <= 1
         \/ findCRLF(b) = 0 /\ Len(d) >= 2
<1> DEFINE at == {i \in 1 .. Len(d) - 1 : d[i] = "CR" /\ d[i + 1] = "LF"}
<1>1. findCRLF(b) = IF at = {} THEN -1 ELSE Min(at) - 1  BY DEF findCRLF
<1>2. Len(d) \in Nat  BY LenProperties
<1>3. CASE Len(d) <= 1
  <2>1. at = {}  BY <1>2, <1>3
  <2> QED  BY <1>1, <1>3, <2>1
<1>4. CASE Len(d) >= 2
  <2>1. 1 + 1 = 2 /\ 1 \in 1 .. Len(d) - 1 /\ Len(d) >= 1  BY <1>2, <1>4
  <2>2. 1 \in at  BY <1>4, <2>1
  <2>3. at \in SUBSET Int /\ \A i \in at : 1 <= i  OBVIOUS
  <2> HIDE DEF at
  <2>4. Min(at) = 1  BY <2>2, <2>3, MinIs
  <2>5. at # {}  BY <2>2
  <2> QED  BY <1>1, <1>4, <2>4, <2>5
<1> QED  BY <1>2, <1>3, <1>4

\* The two records that stand for the code's tables.
LEMMA Tables ==
  /\ DOMAIN Version = {"GET11", "GET10"} /\ DOMAIN ConnHeader = {"close", "keep"}
  /\ ConnHeader["close"] = "close" /\ ConnHeader["keep"] = "Keep-Alive"
  /\ Version["GET11"] = "HTTP11" /\ Version["GET10"] = "HTTP10"
BY DEF Version, ConnHeader

\* procReq() knows the version of a request line, and of nothing else.
LEMMA procReqFacts ==
  ASSUME NEW text
  PROVE  /\ procReq(text) \in {"Unknown", "HTTP10", "HTTP11"}
         /\ procReq(text) # "Unknown" <=> text \in DOMAIN Version
<1>1. CASE text \in DOMAIN Version
  <2>1. procReq(text) = Version[text]  BY <1>1 DEF procReq
  <2>2. Version[text] = "HTTP11" \/ Version[text] = "HTTP10"  BY <1>1, Tables
  <2> QED  BY <1>1, <2>1, <2>2
<1>2. CASE text \notin DOMAIN Version
  <2>1. procReq(text) = "Unknown"  BY <1>2 DEF procReq
  <2> QED  BY <1>2, <2>1
<1> QED  BY <1>1, <1>2

\* What a request asks for, after one line.
LEMMA AskedFirst ==
  ASSUME NEW req
  PROVE  AskedTo(req, 1) = [NoRequest EXCEPT !.version = procReq(req[1])]
<1> DEFINE conns == {i \in 2 .. 1 : req[i] \in DOMAIN ConnHeader}
           v == procReq(req[1])
<1>1. conns = {}  OBVIOUS
<1>2. AskedTo(req, 1) = [version |-> v, conn |-> ""]  BY <1>1 DEF AskedTo
<1> HIDE DEF v
<1>3. [NoRequest EXCEPT !.version = v] = [version |-> v, conn |-> ""]
  <2> DEFINE u == "Unknown"
             x == ""
  <2>1. NoRequest = [version |-> u, conn |-> x]  BY DEF NoRequest
  <2> HIDE DEF u, x
  <2>2. [[version |-> u, conn |-> x] EXCEPT !.version = v] = [version |-> v, conn |-> x]
    OBVIOUS
  <2> QED  BY <2>1, <2>2 DEF x
<1> QED  BY <1>2, <1>3 DEF v

\* The indices of the connection headers among the first n lines.
Conns(req, n) == {i \in 2 .. n : req[i] \in DOMAIN ConnHeader}

\* One more line that is no connection header changes nothing.
LEMMA AskedOther ==
  ASSUME NEW req, NEW l \in Nat, l >= 1, req[l + 1] \notin DOMAIN ConnHeader
  PROVE  AskedTo(req, l + 1) = AskedTo(req, l)
<1>1. Conns(req, l + 1) = Conns(req, l)
  <2>1. ASSUME NEW i, i \in Conns(req, l + 1)  PROVE i \in Conns(req, l)
    <3>1. i \in 2 .. l + 1 /\ req[i] \in DOMAIN ConnHeader  BY <2>1 DEF Conns
    <3>2. i # l + 1  BY <3>1
    <3>3. i \in 2 .. l  BY <3>1, <3>2
    <3> QED  BY <3>1, <3>3 DEF Conns
  <2>2. ASSUME NEW i, i \in Conns(req, l)  PROVE i \in Conns(req, l + 1)
    <3>1. i \in 2 .. l /\ req[i] \in DOMAIN ConnHeader  BY <2>2 DEF Conns
    <3>2. i \in 2 .. l + 1  BY <3>1
    <3> QED  BY <3>1, <3>2 DEF Conns
  <2> QED  BY <2>1, <2>2
<1>2. \A n : AskedTo(req, n) =
        [version |-> procReq(req[1]),
         conn |-> IF Conns(req, n) = {} THEN "" ELSE ConnHeader[req[Max(Conns(req, n))]]]
  BY DEF AskedTo, Conns
<1> QED  BY <1>1, <1>2

\* One more connection header takes the place of those before it.
LEMMA AskedConn ==
  ASSUME NEW req, NEW l \in Nat, l >= 1, req[l + 1] \in DOMAIN ConnHeader
  PROVE  AskedTo(req, l + 1) = [AskedTo(req, l) EXCEPT !.conn = ConnHeader[req[l + 1]]]
<1> DEFINE c == Conns(req, l + 1)
           v == procReq(req[1])
           h == ConnHeader[req[l + 1]]
           x == IF Conns(req, l) = {} THEN "" ELSE ConnHeader[req[Max(Conns(req, l))]]
<1>1. l + 1 \in c  BY DEF Conns
<1>2. c \in SUBSET Int /\ \A i \in c : l + 1 >= i  BY DEF Conns
<1> HIDE DEF c
<1>3. Max(c) = l + 1 /\ c # {}  BY <1>1, <1>2, MaxIs
<1>4. AskedTo(req, l + 1) =
        [version |-> v, conn |-> IF c = {} THEN "" ELSE ConnHeader[req[Max(c)]]]
  BY DEF AskedTo, Conns, c
<1>5. AskedTo(req, l) = [version |-> v, conn |-> x]  BY DEF AskedTo, Conns
<1>6. AskedTo(req, l + 1) = [version |-> v, conn |-> h]  BY <1>3, <1>4
<1> HIDE DEF v, h, x
<1>7. [[version |-> v, conn |-> x] EXCEPT !.conn = h] = [version |-> v, conn |-> h]
  OBVIOUS
<1> QED  BY <1>5, <1>6, <1>7 DEF h

\* All lines of a request.
LEMMA AskedAll == ASSUME NEW req PROVE Asked(req) = AskedTo(req, Len(req))
BY DEF Asked, AskedTo

\* What the invariant says of the lengths.
LEMMA HTTPNumbers ==
  ASSUME HTTPInv
  PROVE  /\ received \in Nat /\ Len(data) \in Nat /\ Len(served) \in Nat
         /\ Len(reqs) \in Nat /\ DOMAIN reqs = 1 .. Len(reqs)
         /\ DOMAIN served = 1 .. Len(served)
         /\ data \in Seq(Elem) /\ peek(inputBuf) = data
         /\ readableBytes(inputBuf) = Len(data)
         /\ Stream = StreamOf(reqs) /\ Stream \in Seq(Elem) /\ Len(Stream) \in Nat
         /\ reqs \in Seq(Seq(Text))
<1>1. reqs \in Seq(Seq(Text))  BY DEF HTTPInv, HTTPFields, Sendable
<1>2. Stream = StreamOf(reqs)  BY DEF Stream, StreamOf
<1>3. Stream \in Seq(Elem) /\ Len(Stream) \in Nat  BY <1>1, <1>2, StreamEnds
<1>4. Len(reqs) \in Nat /\ DOMAIN reqs = 1 .. Len(reqs)  BY <1>1, LenProperties
<1>5. Len(served) \in Nat /\ DOMAIN served = 1 .. Len(served)
  BY LenProperties DEF HTTPInv, HTTPFields
<1>6. Holds(Elem, inputBuf, data)  BY DEF HTTPInv, HTTPBuffer
<1>7. data \in Seq(Elem) /\ Len(data) \in Nat  BY <1>6, HoldsFields
<1>8. peek(inputBuf) = data /\ readableBytes(inputBuf) = Len(data)  BY <1>6, HoldsPeek
<1>9. received \in Nat  BY <1>3 DEF HTTPInv, HTTPReceived
<1> QED  BY <1>1, <1>2, <1>3, <1>4, <1>5, <1>7, <1>8, <1>9

\* Where the next request lies in the stream.
LEMMA ComingLaid ==
  ASSUME HTTPInv, Len(served) < Len(reqs)
  PROVE  /\ Laid(reqs, Len(served), StartOf(reqs, Len(served)), Stream)
         /\ Len(served) + 1 \in 1 .. Len(reqs)
         /\ Len(Coming) \in Nat /\ Len(Coming) >= 1
         /\ \A i \in 2 .. Len(Coming) : Coming[i] \in Header
<1>0. /\ Len(served) \in Nat /\ Len(reqs) \in Nat /\ DOMAIN reqs = 1 .. Len(reqs)
      /\ Stream = StreamOf(reqs) /\ reqs \in Seq(Seq(Text))
  BY HTTPNumbers
<1>1. Len(served) \in 0 .. Len(reqs) - 1 /\ Len(served) + 1 \in 1 .. Len(reqs)
  BY <1>0
<1>2. Laid(reqs, Len(served), StartOf(reqs, Len(served)), Stream)
  BY <1>0, <1>1, StreamAt
<1>3. Coming # <<>> /\ \A i \in 2 .. Len(Coming) : Coming[i] \in Header
  BY <1>0, <1>1 DEF HTTPInv, HTTPFields, Sendable, Coming
<1>4. Coming \in Seq(Text)
  <2> DEFINE D == Seq(Text)
  <2>1. reqs \in Seq(D)  BY <1>0
  <2> HIDE DEF D
  <2>2. Coming \in D  BY <1>1, <2>1, ElementOfSeq DEF Coming
  <2> QED  BY <2>2 DEF D
<1>5. Len(Coming) \in Nat /\ Len(Coming) # 0  BY <1>3, <1>4, LenProperties, EmptySeq
<1> QED  BY <1>1, <1>2, <1>3, <1>5

\* The parser is before line l + 1 of the next request.
LEMMA HeadLine ==
  ASSUME HTTPInv, user = "http", Len(served) < Len(reqs),
         NEW l \in 0 .. Len(Coming) - 1, At(l)
  PROVE  /\ Coming[l + 1] \in Text
         /\ \/ findCRLF(inputBuf) = -1 /\ Len(data) <= 2
            \/ /\ findCRLF(inputBuf) = 1 /\ Len(data) >= 3
               /\ FirstLine = Coming[l + 1]
<1> DEFINE st == StartOf(reqs, Len(served))
           m == 3 * l
           c == Coming[l + 1]
<1>0. /\ Len(data) \in Nat /\ received \in Nat /\ data \in Seq(Elem)
      /\ peek(inputBuf) = data
  BY HTTPNumbers
<1>1. /\ st \in Nat /\ c \in Text /\ Stream[st + m + 1] = c
      /\ Stream[st + m + 2] = "CR" /\ Stream[st + m + 3] = "LF"
  BY ComingLaid DEF Laid, Coming
<1>2. m \in Nat  BY ComingLaid
<1>3. Parsed = st + m  BY DEF At
<1> HIDE DEF st, m, c
<1>4. \A i \in 1 .. Len(data) : data[i] = Stream[Parsed + i]  BY DEF HTTPInv, HTTPData
<1>5. Len(data) >= 1 => data[1] = c
  <2>1. SUFFICES ASSUME Len(data) >= 1  PROVE data[1] = c  OBVIOUS
  <2>2. 1 \in 1 .. Len(data)  BY <1>0, <2>1
  <2> QED  BY <1>1, <1>3, <1>4, <2>2
<1>6. Len(data) >= 2 => data[2] = "CR"
  <2>1. SUFFICES ASSUME Len(data) >= 2  PROVE data[2] = "CR"  OBVIOUS
  <2>2. 2 \in 1 .. Len(data)  BY <1>0, <2>1
  <2> QED  BY <1>1, <1>3, <1>4, <2>2
<1>7. Len(data) >= 3 => data[3] = "LF"
  <2>1. SUFFICES ASSUME Len(data) >= 3  PROVE data[3] = "LF"  OBVIOUS
  <2>2. 3 \in 1 .. Len(data)  BY <1>0, <2>1
  <2> QED  BY <1>1, <1>3, <1>4, <2>2
<1>8. Len(data) >= 1 => data[1] \in Text  BY <1>1, <1>5
<1>9. \/ findCRLF(inputBuf) = -1 /\ Len(data) <= 2
      \/ findCRLF(inputBuf) = 1 /\ Len(data) >= 3
  BY <1>0, <1>6, <1>7, <1>8, CRLFLine
<1>10. findCRLF(inputBuf) = 1 /\ Len(data) >= 3 => FirstLine = c
  <2>1. SUFFICES ASSUME findCRLF(inputBuf) = 1, Len(data) >= 3  PROVE FirstLine = c
    OBVIOUS
  <2>2. FirstLine = data[1]  BY <1>0, <2>1 DEF FirstLine
  <2>3. Len(data) >= 1  BY <1>0, <2>1
  <2> QED  BY <1>5, <2>2, <2>3
<1> QED  BY <1>1, <1>9, <1>10 DEF c

\* The parser is before the empty line of the next request.
LEMMA HeadBlank ==
  ASSUME HTTPInv, user = "http", Len(served) < Len(reqs), At(Len(Coming))
  PROVE  \/ findCRLF(inputBuf) = -1 /\ Len(data) <= 1
         \/ findCRLF(inputBuf) = 0 /\ Len(data) >= 2 /\ FirstLine = ""
<1> DEFINE st == StartOf(reqs, Len(served))
           m == 3 * Len(Coming)
<1>0. /\ Len(data) \in Nat /\ received \in Nat /\ data \in Seq(Elem)
      /\ peek(inputBuf) = data
  BY HTTPNumbers
<1>1. st \in Nat /\ Stream[st + m + 1] = "CR" /\ Stream[st + m + 2] = "LF"
  BY ComingLaid DEF Laid, Coming
<1>2. m \in Nat  BY ComingLaid
<1>3. Parsed = st + m  BY DEF At
<1> HIDE DEF st, m
<1>4. \A i \in 1 .. Len(data) : data[i] = Stream[Parsed + i]  BY DEF HTTPInv, HTTPData
<1>5. Len(data) >= 1 => data[1] = "CR"
  <2>1. SUFFICES ASSUME Len(data) >= 1  PROVE data[1] = "CR"  OBVIOUS
  <2>2. 1 \in 1 .. Len(data)  BY <1>0, <2>1
  <2> QED  BY <1>1, <1>3, <1>4, <2>2
<1>6. Len(data) >= 2 => data[2] = "LF"
  <2>1. SUFFICES ASSUME Len(data) >= 2  PROVE data[2] = "LF"  OBVIOUS
  <2>2. 2 \in 1 .. Len(data)  BY <1>0, <2>1
  <2> QED  BY <1>1, <1>3, <1>4, <2>2
<1>7. \/ findCRLF(inputBuf) = -1 /\ Len(data) <= 1
      \/ findCRLF(inputBuf) = 0 /\ Len(data) >= 2
  BY <1>0, <1>5, <1>6, CRLFBlank
<1>8. findCRLF(inputBuf) = 0 => FirstLine = ""  BY DEF FirstLine
<1> QED  BY <1>7, <1>8

\* Retrieving from the buffer: what is behind it in the stream is left.
LEMMA RetrieveStep ==
  ASSUME HTTPInv, user = "http", NEW n \in Nat, Retrieve(n),
         UNCHANGED <<user, reqs, received>>
  PROVE  /\ HTTPBuffer' /\ HTTPReceived' /\ HTTPData'
         /\ Parsed' = Parsed + n /\ Parsed \in Nat /\ Parsed' <= received'
<1> DEFINE d == SubSeq(data, n + 1, Len(data))
<1>0. /\ Len(data) \in Nat /\ received \in Nat /\ data \in Seq(Elem)
  BY HTTPNumbers
<1>1. n <= Len(data)  BY DEF Retrieve
<1>2. Holds(Elem, retrieve(inputBuf, n), d) /\ ~(n > readableBytes(inputBuf))
  BY <1>1, retrieveHolds DEF HTTPInv, HTTPBuffer
<1>3. inputBuf' = retrieve(inputBuf, n) /\ data' = d /\ failed' = failed
  BY <1>2 DEF Retrieve, Asserts, Becomes
<1>4. HTTPBuffer'  BY <1>2, <1>3 DEF HTTPInv, HTTPBuffer
<1>5. Len(d) = Len(data) - n /\ \A i \in 1 .. Len(data) - n : d[i] = data[n + i]
  BY <1>0, <1>1, RestFacts
<1> HIDE DEF d
<1>6. received' = received /\ Stream' = Stream  BY DEF Stream
<1>7. HTTPReceived'  BY <1>6 DEF HTTPInv, HTTPReceived
<1>8. /\ Len(data) <= received
      /\ \A i \in 1 .. Len(data) : data[i] = Stream[Parsed + i]
  BY DEF HTTPInv, HTTPData
<1>9. /\ Parsed' = Parsed + n /\ Parsed \in Nat /\ Parsed' <= received'
      /\ Len(data') <= received'
  BY <1>0, <1>1, <1>3, <1>5, <1>6, <1>8 DEF Parsed
<1>10. ASSUME NEW i \in 1 .. Len(data')  PROVE data'[i] = Stream'[Parsed' + i]
  <2>1. i \in 1 .. Len(data) - n /\ n + i \in 1 .. Len(data)
    BY <1>0, <1>1, <1>3, <1>5
  <2>2. data'[i] = data[n + i]  BY <1>3, <1>5, <2>1
  <2>3. data[n + i] = Stream[Parsed + (n + i)]  BY <1>8, <2>1
  <2>4. Parsed + (n + i) = Parsed' + i  BY <1>9, <2>1
  <2> QED  BY <1>6, <2>2, <2>3, <2>4
<1>11. HTTPData'  BY <1>9, <1>10 DEF HTTPData
<1> QED  BY <1>4, <1>7, <1>9, <1>11

\* A read of n elements puts them behind those in the buffer.
LEMMA ReadStep ==
  ASSUME HTTPInv, user = "http", NEW n \in 1 .. Len(Stream), OnMsg(n)
  PROVE  /\ HTTPBuffer' /\ HTTPReceived' /\ HTTPData' /\ Parsed' = Parsed
<1> DEFINE s == SubSeq(Stream, received + 1, received + n)
           d == data \o s
<1>0. /\ Len(data) \in Nat /\ received \in Nat /\ data \in Seq(Elem)
      /\ Stream \in Seq(Elem) /\ Len(Stream) \in Nat
  BY HTTPNumbers
<1>1. /\ n \in Nat /\ received + n <= Len(Stream) /\ received' = received + n
      /\ Stream' = Stream /\ user' = user
  BY <1>0 DEF OnMsg, Stream
<1>2. s \in Seq(Elem) /\ Len(s) = n /\ \A i \in 1 .. n : s[i] = Stream[received + i]
  <2>1. \A i \in received + 1 .. received + n : Stream[i] \in Elem
    <3>1. \A i \in 1 .. Len(Stream) : Stream[i] \in Elem  BY <1>0, ElementOfSeq
    <3>2. \A i \in received + 1 .. received + n : i \in 1 .. Len(Stream)  BY <1>0, <1>1
    <3> QED  BY <3>1, <3>2
  <2>2. received + 1 \in Int /\ received + n \in Int  BY <1>0, <1>1
  <2>3. /\ s \in Seq(Elem)
        /\ Len(s) = IF received + 1 <= received + n
                    THEN (received + n) - (received + 1) + 1 ELSE 0
        /\ \A i \in 1 .. (received + n) - (received + 1) + 1 :
              s[i] = Stream[(received + 1) + i - 1]
    BY <2>1, <2>2, SubSeqProperties
  <2> HIDE DEF s
  <2>4. Len(s) = n  BY <1>0, <1>1, <2>3
  <2>5. ASSUME NEW i \in 1 .. n  PROVE s[i] = Stream[received + i]
    <3>1. /\ i \in 1 .. (received + n) - (received + 1) + 1
          /\ (received + 1) + i - 1 = received + i
      BY <1>0, <1>1
    <3> QED  BY <2>3, <3>1
  <2> QED  BY <2>3, <2>4, <2>5
<1>3. ReadFd(s)  BY DEF OnMsg
<1> HIDE DEF s
<1>4. Zero \in Elem  BY DEF Elem
<1>5. Holds(Elem, readFd(inputBuf, s), d) /\ ~ReadFdFails(inputBuf, s)
  BY <1>2, <1>4, readFdHolds DEF HTTPInv, HTTPBuffer
<1>6. inputBuf' = readFd(inputBuf, s) /\ data' = d /\ failed' = failed
  BY <1>3, <1>5 DEF ReadFd, Asserts, Becomes
<1>7. HTTPBuffer'  BY <1>5, <1>6 DEF HTTPInv, HTTPBuffer
<1>8. Joined(Elem, data, s, d)  BY <1>0, <1>2, ConcatElems
<1> HIDE DEF d
<1>9. /\ Len(d) = Len(data) + n
      /\ \A i \in 1 .. Len(data) : d[i] = data[i]
      /\ \A i \in 1 .. n : d[Len(data) + i] = s[i]
  BY <1>2, <1>8 DEF Joined
<1>10. HTTPReceived'  BY <1>0, <1>1 DEF HTTPReceived
<1>11. /\ Len(data) <= received
       /\ \A i \in 1 .. Len(data) : data[i] = Stream[Parsed + i]
  BY DEF HTTPInv, HTTPData
<1>12. Parsed' = Parsed /\ Parsed \in Nat /\ Len(data') <= received'
       /\ Parsed + Len(data) = received
  BY <1>0, <1>1, <1>6, <1>9, <1>11 DEF Parsed
<1>13. ASSUME NEW i \in 1 .. Len(data')  PROVE data'[i] = Stream'[Parsed' + i]
  <2>0. i \in 1 .. Len(data) + n  BY <1>6, <1>9
  <2>1. CASE i <= Len(data)
    <3>1. i \in 1 .. Len(data)  BY <1>0, <1>1, <2>0, <2>1
    <3> QED  BY <1>1, <1>6, <1>9, <1>11, <1>12, <3>1
  <2>2. CASE ~(i <= Len(data))
    <3> DEFINE j == i - Len(data)
    <3>1. j \in 1 .. n /\ Len(data) + j = i /\ received + j = Parsed + i
      BY <1>0, <1>1, <1>12, <2>0, <2>2
    <3> HIDE DEF j
    <3>2. d[Len(data) + j] = s[j] /\ s[j] = Stream[received + j]  BY <1>2, <1>9, <3>1
    <3> QED  BY <1>1, <1>6, <1>12, <3>1, <3>2
  <2> QED  BY <2>1, <2>2
<1>14. HTTPData'  BY <1>12, <1>13 DEF HTTPData
<1> QED  BY <1>7, <1>10, <1>12, <1>14

\* A step that serves nothing keeps what was served right.
LEMMA ServedStep ==
  ASSUME HTTPInv, UNCHANGED <<reqs, served>>
  PROVE  HTTPServed'
BY DEF HTTPInv, HTTPServed, WellFormed, Asked, procReq

\* A step that answers nothing keeps the reason of each 400.
LEMMA BadStep ==
  ASSUME HTTPInv, UNCHANGED <<reqs, responses>>, lost => lost'
  PROVE  BadOnlyWhenBad'
BY DEF HTTPInv, BadOnlyWhenBad, WellFormed

\* handleRead() and onMsg() keep the invariant.
LEMMA OnMsgInv ==
  ASSUME HTTPInv, user = "http", NEW n \in 1 .. Len(Stream), OnMsg(n)
  PROVE  HTTPInv'
<1>1. HTTPBuffer' /\ HTTPReceived' /\ HTTPData' /\ Parsed' = Parsed  BY ReadStep
<1>2. /\ hpc = "read" /\ hpc' = "parse" /\ state_' = "ExpReq" /\ request_' = NoRequest
      /\ received + n <= Len(Stream)
      /\ UNCHANGED <<user, reqs, wrShut, responses, served, lost, waiting>>
  BY DEF OnMsg
<1>3. HTTPFields'
  <2>1. NoRequest \in Request  BY DEF NoRequest, Request
  <2> QED  BY <1>2, <2>1 DEF HTTPInv, HTTPFields
<1>4. HTTPServed' /\ BadOnlyWhenBad'  BY <1>2, ServedStep, BadStep
<1>5. ~AllServed
  <2>1. SUFFICES ASSUME AllServed  PROVE FALSE  OBVIOUS
  <2>2. /\ Len(data) \in Nat /\ received \in Nat /\ Len(Stream) \in Nat
        /\ reqs \in Seq(Seq(Text)) /\ Stream = StreamOf(reqs)
    BY HTTPNumbers
  <2>3. StartOf(reqs, Len(reqs)) = Len(Stream)  BY <2>2, StreamEnds
  <2>4. received - Len(data) = StartOf(reqs, Len(reqs)) + 3 * 0
    BY <2>1 DEF AllServed, At, Parsed
  <2> QED  BY <1>2, <2>2, <2>3, <2>4
<1>6. BeforeRequest \/ Stuck
  BY <1>2, <1>5 DEF HTTPInv, HTTPWhere, InHeaders, Complete
<1>7. Len(served') = Len(served) /\ Len(reqs') = Len(reqs) /\ Coming' = Coming
  BY <1>2 DEF Coming
<1>8. \A l : At(l) => At(l)'  BY <1>1, <1>2 DEF At
<1>9. CASE BeforeRequest
  <2>1. BeforeRequest'  BY <1>2, <1>7, <1>8, <1>9 DEF BeforeRequest
  <2> QED  BY <1>1, <1>3, <1>4, <2>1 DEF HTTPInv, HTTPWhere
<1>10. CASE Stuck
  <2>1. Stuck'  BY <1>2, <1>7, <1>8, <1>10 DEF Stuck
  <2> QED  BY <1>1, <1>3, <1>4, <2>1 DEF HTTPInv, HTTPWhere
<1> QED  BY <1>6, <1>9, <1>10

\* A step that leaves the buffer and the stream alone.
LEMMA SameData ==
  ASSUME HTTPInv, UNCHANGED <<user, buffer, reqs, received>>
  PROVE  /\ HTTPBuffer' /\ HTTPReceived' /\ HTTPData' /\ Parsed' = Parsed
         /\ UNCHANGED <<inputBuf, data, failed>>
<1>1. UNCHANGED <<inputBuf, data, failed>>  BY DEF buffer
<1>2. Stream' = Stream /\ Parsed' = Parsed  BY <1>1 DEF Stream, Parsed
<1>3. HTTPBuffer'  BY <1>1 DEF HTTPInv, HTTPBuffer
<1>4. HTTPReceived' /\ HTTPData'  BY <1>1, <1>2 DEF HTTPInv, HTTPReceived, HTTPData
<1> QED  BY <1>1, <1>2, <1>3, <1>4

\* parse() without a whole line keeps the invariant.
LEMMA ParseMoreInv ==
  ASSUME HTTPInv, user = "http", ParseMore
  PROVE  HTTPInv'
<1>1. /\ hpc = "parse" /\ findCRLF(inputBuf) = -1 /\ hpc' = "read"
      /\ lost' = (lost \/ state_ = "ExpHeader")
      /\ UNCHANGED <<user, buffer, reqs, received, wrShut, responses, served, waiting>>
      /\ UNCHANGED <<state_, request_>>
  BY DEF ParseMore, context
<1>2. /\ HTTPBuffer' /\ HTTPReceived' /\ HTTPData' /\ Parsed' = Parsed
  BY <1>1, SameData
<1>3. HTTPFields'  BY <1>1 DEF HTTPInv, HTTPFields
<1>4. HTTPServed' /\ BadOnlyWhenBad'  BY <1>1, ServedStep, BadStep
<1>5. Len(served') = Len(served) /\ Len(reqs') = Len(reqs) /\ Coming' = Coming
  BY <1>1 DEF Coming
<1>6. \A l : At(l) => At(l)'  BY <1>1, <1>2 DEF At
<1>7. BeforeRequest \/ InHeaders \/ Stuck
  BY <1>1 DEF HTTPInv, HTTPWhere, AllServed, Complete
<1>8. CASE BeforeRequest
  <2> DEFINE st == StartOf(reqs, Len(served))
             nx == StartOf(reqs, Len(served) + 1)
             m == Len(Coming)
  <2>1. ~lost' /\ Len(served) < Len(reqs) /\ At(0)
    BY <1>1, <1>8 DEF BeforeRequest
  <2>2. m \in Nat /\ m >= 1 /\ st \in Nat /\ nx = st + 3 * m + 2
    BY <2>1, ComingLaid DEF Laid, Coming
  <2>3. Len(data) <= 2
    <3>1. 0 \in 0 .. m - 1  BY <2>2
    <3> QED  BY <1>1, <2>1, <3>1, HeadLine
  <2>4. received - Len(data) = st + 3 * 0  BY <2>1 DEF At, Parsed
  <2>5. received \in Nat /\ Len(data) \in Nat  BY HTTPNumbers
  <2> HIDE DEF st, nx, m
  <2>6. received < nx  BY <2>2, <2>3, <2>4, <2>5
  <2>7. BeforeRequest'  BY <1>1, <1>5, <1>6, <2>1, <2>6 DEF BeforeRequest, nx
  <2> QED  BY <1>2, <1>3, <1>4, <2>7 DEF HTTPInv, HTTPWhere
<1>9. CASE InHeaders
  <2>1. Stuck'  BY <1>1, <1>5, <1>6, <1>9 DEF InHeaders, Stuck
  <2> QED  BY <1>2, <1>3, <1>4, <2>1 DEF HTTPInv, HTTPWhere
<1>10. CASE Stuck
  <2>1. Stuck'  BY <1>1, <1>5, <1>6, <1>10 DEF Stuck
  <2> QED  BY <1>2, <1>3, <1>4, <2>1 DEF HTTPInv, HTTPWhere
<1> QED  BY <1>7, <1>8, <1>9, <1>10

\* A header is no request line, and neither is an empty one.
LEMMA HeaderIsNoRequest ==
  ASSUME NEW text, text \in Header \/ text = ""
  PROVE  procReq(text) = "Unknown"
<1>1. text \notin DOMAIN Version  BY Tables DEF Header
<1> QED  BY <1>1 DEF procReq

\* Once a context was dropped no line at hand is a request line.
LEMMA StuckRejects ==
  ASSUME HTTPInv, user = "http", Stuck, findCRLF(inputBuf) >= 0
  PROVE  procReq(FirstLine) = "Unknown"
<1>1. Len(served) < Len(reqs)  BY DEF Stuck
<1>2. PICK l \in 1 .. Len(Coming) : At(l)  BY DEF Stuck
<1>3. Len(Coming) \in Nat /\ \A i \in 2 .. Len(Coming) : Coming[i] \in Header
  BY <1>1, ComingLaid
<1>4. CASE l = Len(Coming)
  <2>1. At(Len(Coming))  BY <1>2, <1>4
  <2>2. findCRLF(inputBuf) # -1  OBVIOUS
  <2>3. FirstLine = ""  BY <1>1, <2>1, <2>2, HeadBlank
  <2> QED  BY <2>3, HeaderIsNoRequest
<1>5. CASE l # Len(Coming)
  <2>1. l \in 0 .. Len(Coming) - 1 /\ l + 1 \in 2 .. Len(Coming)  BY <1>3, <1>5
  <2>2. findCRLF(inputBuf) # -1  OBVIOUS
  <2>3. FirstLine = Coming[l + 1]  BY <1>1, <1>2, <2>1, <2>2, HeadLine
  <2> QED  BY <1>3, <2>1, <2>3, HeaderIsNoRequest
<1> QED  BY <1>4, <1>5

\* parse() of a request line keeps the invariant.
LEMMA ParseReqInv ==
  ASSUME HTTPInv, user = "http", ParseReq
  PROVE  HTTPInv'
<1>1. /\ hpc = "parse" /\ state_ = "ExpReq" /\ findCRLF(inputBuf) >= 0
      /\ UNCHANGED <<user, reqs, received, wrShut, responses, served, lost, waiting>>
  BY DEF ParseReq
<1>2. HTTPServed' /\ BadOnlyWhenBad'  BY <1>1, ServedStep, BadStep
<1>3. Len(served') = Len(served) /\ Len(reqs') = Len(reqs) /\ Coming' = Coming
  BY <1>1 DEF Coming
<1>4. BeforeRequest \/ Stuck
  BY <1>1 DEF HTTPInv, HTTPWhere, AllServed, InHeaders, Complete
<1>5. CASE procReq(FirstLine) = "Unknown"
  <2>1. hpc' = "bad" /\ UNCHANGED <<buffer, context>>  BY <1>5 DEF ParseReq
  <2>2. UNCHANGED <<state_, request_>>  BY <2>1 DEF context
  <2>3. HTTPBuffer' /\ HTTPReceived' /\ HTTPData' /\ Parsed' = Parsed
    BY <1>1, <2>1, SameData
  <2>4. HTTPFields'  BY <1>1, <2>1, <2>2 DEF HTTPInv, HTTPFields
  <2>5. \A l : At(l) => At(l)'  BY <1>1, <2>3 DEF At
  <2>6. CASE BeforeRequest
    <3>1. Len(served) < Len(reqs) /\ At(0)  BY <2>6 DEF BeforeRequest
    <3>2. 0 \in 0 .. Len(Coming) - 1  BY <3>1, ComingLaid
    <3>3. FirstLine = Coming[0 + 1]
      <4>1. findCRLF(inputBuf) # -1  BY <1>1
      <4> QED  BY <3>1, <3>2, <4>1, HeadLine
    <3>4. ~WellFormed(Coming)  BY <1>5, <3>3, procReqFacts DEF WellFormed
    <3>5. BeforeRequest'
      BY <1>1, <1>3, <2>1, <2>5, <2>6, <3>4 DEF BeforeRequest, WellFormed
    <3> QED  BY <1>2, <2>3, <2>4, <3>5 DEF HTTPInv, HTTPWhere
  <2>7. CASE Stuck
    <3>1. Stuck'  BY <1>1, <1>3, <2>1, <2>2, <2>5, <2>7 DEF Stuck
    <3> QED  BY <1>2, <2>3, <2>4, <3>1 DEF HTTPInv, HTTPWhere
  <2> QED  BY <1>4, <2>6, <2>7
<1>6. CASE procReq(FirstLine) # "Unknown"
  <2>0. BeforeRequest  BY <1>1, <1>4, <1>6, StuckRejects
  <2>1. ~lost /\ Len(served) < Len(reqs) /\ At(0)  BY <2>0 DEF BeforeRequest
  <2>2. Len(Coming) \in Nat /\ Len(Coming) >= 1 /\ 0 \in 0 .. Len(Coming) - 1
    BY <2>1, ComingLaid
  <2>3. FirstLine = Coming[1] /\ findCRLF(inputBuf) = 1
    <3>1. findCRLF(inputBuf) # -1  BY <1>1
    <3>2. FirstLine = Coming[0 + 1] /\ findCRLF(inputBuf) = 1
      BY <2>1, <2>2, <3>1, HeadLine
    <3> QED  BY <3>2
  <2>4. WellFormed(Coming)  BY <1>6, <2>3, procReqFacts DEF WellFormed
  <2>5. /\ request_' = [NoRequest EXCEPT !.version = procReq(FirstLine)]
        /\ state_' = "ExpHeader" /\ hpc' = hpc /\ RetrieveLine
    BY <1>6 DEF ParseReq
  <2>6. request_' = AskedTo(Coming, 1)  BY <2>3, <2>5, AskedFirst
  <2>7. Retrieve(3)
    <3>1. findCRLF(inputBuf) + 2 = 3  BY <2>3
    <3> QED  BY <2>5, <3>1 DEF RetrieveLine
  <2>8. HTTPBuffer' /\ HTTPReceived' /\ HTTPData' /\ Parsed' = Parsed + 3
    BY <1>1, <2>7, RetrieveStep
  <2>9. request_' \in Request
    <3>1. procReq(FirstLine) \in {"Unknown", "HTTP10", "HTTP11"}  BY procReqFacts
    <3>2. NoRequest \in Request  BY DEF NoRequest, Request
    <3> QED  BY <2>5, <3>1, <3>2 DEF Request
  <2>10. HTTPFields'  BY <1>1, <2>5, <2>9 DEF HTTPInv, HTTPFields
  <2>11. At(1)'
    <3> DEFINE st == StartOf(reqs, Len(served))
    <3>1. st \in Nat  BY <2>1, ComingLaid DEF Laid
    <3>2. Parsed = st + 3 * 0  BY <2>1 DEF At
    <3>3. StartOf(reqs, Len(served))' = st  BY <1>1
    <3> HIDE DEF st
    <3>4. Parsed + 3 = st + 3 * 1  BY <3>1, <3>2
    <3> QED  BY <2>8, <3>3, <3>4 DEF At
  <2>12. 1 \in 1 .. Len(Coming)  BY <2>2
  <2>13. WellFormed(Coming)' /\ AskedTo(Coming, 1)' = AskedTo(Coming, 1)
    BY <1>3, <2>4 DEF WellFormed, AskedTo, procReq
  <2>14. InHeaders'
    BY <1>1, <1>3, <2>1, <2>5, <2>6, <2>11, <2>12, <2>13 DEF InHeaders
  <2> QED  BY <1>2, <2>8, <2>10, <2>14 DEF HTTPInv, HTTPWhere
<1> QED  BY <1>5, <1>6

\* parse() of a header, or of the line behind the headers, keeps the invariant.
LEMMA ParseHeaderInv ==
  ASSUME HTTPInv, user = "http", ParseHeader
  PROVE  HTTPInv'
<1> DEFINE st == StartOf(reqs, Len(served))
           m == Len(Coming)
<1>1. /\ hpc = "parse" /\ state_ = "ExpHeader" /\ findCRLF(inputBuf) >= 0
      /\ RetrieveLine
      /\ UNCHANGED <<user, reqs, received, wrShut, responses, served, lost, waiting>>
  BY DEF ParseHeader
<1>2. HTTPServed' /\ BadOnlyWhenBad'  BY <1>1, ServedStep, BadStep
<1>3. /\ Len(served') = Len(served) /\ Len(reqs') = Len(reqs) /\ Coming' = Coming
      /\ StartOf(reqs, Len(served))' = st
      /\ StartOf(reqs, Len(served) + 1)' = StartOf(reqs, Len(served) + 1)
  BY <1>1 DEF Coming
<1>4. InHeaders
  BY <1>1 DEF HTTPInv, HTTPWhere, AllServed, BeforeRequest, Complete, Stuck
<1>5. ~lost /\ Len(served) < Len(reqs) /\ WellFormed(Coming)  BY <1>4 DEF InHeaders
<1>6. PICK l \in 1 .. Len(Coming) : At(l) /\ request_ = AskedTo(Coming, l)
  BY <1>4 DEF InHeaders
<1>7. /\ m \in Nat /\ m >= 1 /\ \A i \in 2 .. m : Coming[i] \in Header
      /\ st \in Nat /\ StartOf(reqs, Len(served) + 1) = st + 3 * m + 2
  BY <1>5, ComingLaid DEF Laid, Coming
<1>8. Parsed = st + 3 * l /\ l \in Nat  BY <1>6 DEF At
<1>9. WellFormed(Coming)'  BY <1>3, <1>5 DEF WellFormed
<1>10. CASE l # m
  <2>1. l \in 0 .. m - 1 /\ l + 1 \in 2 .. m /\ l + 1 \in 1 .. m /\ l >= 1
    BY <1>6, <1>7, <1>10
  <2>2. findCRLF(inputBuf) = 1 /\ FirstLine = Coming[l + 1]
    <3>1. findCRLF(inputBuf) # -1  BY <1>1
    <3> QED  BY <1>5, <1>6, <2>1, <3>1, HeadLine
  <2>3. FirstLine \in Header  BY <1>7, <2>1, <2>2
  <2>4. /\ request_' = IF FirstLine = "other" THEN request_
                       ELSE [request_ EXCEPT !.conn = ConnHeader[FirstLine]]
        /\ UNCHANGED <<state_, hpc>>
    BY <2>3 DEF ParseHeader
  <2>5. request_' = AskedTo(Coming, l + 1) /\ request_' \in Request
    <3>0. request_ \in Request  BY DEF HTTPInv, HTTPFields
    <3>1. CASE FirstLine = "other"
      <4>1. Coming[l + 1] \notin DOMAIN ConnHeader  BY <2>2, <3>1, Tables
      <4>2. AskedTo(Coming, l + 1) = AskedTo(Coming, l)
        BY <1>8, <2>1, <4>1, AskedOther
      <4> QED  BY <1>6, <2>4, <3>0, <3>1, <4>2
    <3>2. CASE FirstLine # "other"
      <4>1. FirstLine \in DOMAIN ConnHeader  BY <2>3, <3>2, Tables DEF Header
      <4>2. AskedTo(Coming, l + 1)
              = [AskedTo(Coming, l) EXCEPT !.conn = ConnHeader[Coming[l + 1]]]
        BY <1>8, <2>1, <2>2, <4>1, AskedConn
      <4>3. ConnHeader[FirstLine] \in {"", "close", "Keep-Alive"}  BY <4>1, Tables
      <4>4. request_' = [request_ EXCEPT !.conn = ConnHeader[FirstLine]]
        BY <2>4, <3>2
      <4>5. request_' \in Request  BY <3>0, <4>3, <4>4 DEF Request
      <4> QED  BY <1>6, <2>2, <4>2, <4>4, <4>5
    <3> QED  BY <3>1, <3>2
  <2>6. Retrieve(3)
    <3>1. findCRLF(inputBuf) + 2 = 3  BY <2>2
    <3> QED  BY <1>1, <3>1 DEF RetrieveLine
  <2>7. HTTPBuffer' /\ HTTPReceived' /\ HTTPData' /\ Parsed' = Parsed + 3
    BY <1>1, <2>6, RetrieveStep
  <2>8. HTTPFields'  BY <1>1, <2>4, <2>5 DEF HTTPInv, HTTPFields
  <2>9. At(l + 1)'
    <3> HIDE DEF st
    <3>1. Parsed + 3 = st + 3 * (l + 1)  BY <1>7, <1>8
    <3> QED  BY <1>3, <2>7, <3>1 DEF At
  <2>10. AskedTo(Coming, l + 1)' = AskedTo(Coming, l + 1)
    BY <1>3 DEF AskedTo, procReq
  <2>11. InHeaders'
    BY <1>1, <1>3, <1>5, <1>9, <2>1, <2>4, <2>5, <2>9, <2>10 DEF InHeaders
  <2> QED  BY <1>2, <2>7, <2>8, <2>11 DEF HTTPInv, HTTPWhere
<1>11. CASE l = m
  <2>1. findCRLF(inputBuf) = 0 /\ FirstLine = ""
    <3>1. findCRLF(inputBuf) # -1 /\ At(Len(Coming))  BY <1>1, <1>6, <1>11
    <3> QED  BY <1>5, <3>1, HeadBlank
  <2>2. FirstLine \notin Header  BY <2>1 DEF Header
  <2>3. state_' = "Done" /\ hpc' = "done" /\ request_' = request_
    BY <2>2 DEF ParseHeader
  <2>4. Retrieve(2)
    <3>0. findCRLF(inputBuf) = 0  BY <2>1
    <3>1. findCRLF(inputBuf) + 2 = 2  BY <3>0
    <3> QED  BY <1>1, <3>1 DEF RetrieveLine
  <2>5. HTTPBuffer' /\ HTTPReceived' /\ HTTPData' /\ Parsed' = Parsed + 2
    BY <1>1, <2>4, RetrieveStep
  <2>6. HTTPFields'  BY <1>1, <2>3 DEF HTTPInv, HTTPFields
  <2>7. Parsed' = StartOf(reqs, Len(served) + 1)
    <3> HIDE DEF st, m
    <3> QED  BY <1>7, <1>8, <1>11, <2>5
  <2>8. request_' = Asked(Coming)  BY <1>6, <1>11, <2>3, AskedAll
  <2>9. Asked(Coming)' = Asked(Coming)  BY <1>3 DEF Asked, procReq
  <2>10. Complete'
    BY <1>1, <1>3, <1>5, <1>9, <2>3, <2>7, <2>8, <2>9 DEF Complete
  <2> QED  BY <1>2, <2>5, <2>6, <2>10 DEF HTTPInv, HTTPWhere
<1> QED  BY <1>10, <1>11

\* What send() adds to the responses.
LEMMA SendFacts ==
  ASSUME HTTPInv, NEW resp \in {"400", "close", "keep"}, send(resp)
  PROVE  /\ responses' \in Seq({"400", "close", "keep"})
         /\ "400" \in Range(responses') => "400" \in Range(responses) \/ resp = "400"
<1> DEFINE R == {"400", "close", "keep"}
<1>1. responses \in Seq(R)  BY DEF HTTPInv, HTTPFields
<1>2. resp \in R  OBVIOUS
<1>3. responses' = IF wrShut THEN responses ELSE Append(responses, resp)  BY DEF send
<1> HIDE DEF R
<1>4. /\ Append(responses, resp) \in Seq(R)
      /\ Range(Append(responses, resp)) = Range(responses) \cup {resp}
  BY <1>1, <1>2, AppendFacts
<1>5. CASE wrShut  BY <1>1, <1>3, <1>5 DEF R
<1>6. CASE ~wrShut  BY <1>3, <1>4, <1>6 DEF R
<1> QED  BY <1>5, <1>6

\* onMsg() answering what it could not parse keeps the invariant.
LEMMA BadRequestInv ==
  ASSUME HTTPInv, user = "http", BadRequest
  PROVE  HTTPInv'
<1>1. /\ hpc = "bad" /\ hpc' = "read" /\ send("400") /\ wrShut' = TRUE
      /\ UNCHANGED <<user, buffer, reqs, received, served, lost, waiting>>
      /\ UNCHANGED <<state_, request_>>
  BY DEF BadRequest, context
<1>2. HTTPBuffer' /\ HTTPReceived' /\ HTTPData' /\ Parsed' = Parsed  BY <1>1, SameData
<1>3. responses' \in Seq({"400", "close", "keep"})  BY <1>1, SendFacts
<1>4. HTTPFields'  BY <1>1, <1>3 DEF HTTPInv, HTTPFields
<1>5. HTTPServed'  BY <1>1, ServedStep
<1>6. Len(served') = Len(served) /\ Len(reqs') = Len(reqs) /\ Coming' = Coming
  BY <1>1 DEF Coming
<1>7. \A l : At(l) => At(l)'  BY <1>1, <1>2 DEF At
<1>8. BeforeRequest \/ Stuck
  BY <1>1 DEF HTTPInv, HTTPWhere, AllServed, InHeaders, Complete
<1>9. CASE BeforeRequest
  <2>1. ~WellFormed(Coming) /\ Len(served) < Len(reqs)  BY <1>1, <1>9 DEF BeforeRequest
  <2>2. Len(served) + 1 \in DOMAIN reqs  BY <2>1, ComingLaid, HTTPNumbers
  <2>3. BadOnlyWhenBad'  BY <1>1, <2>1, <2>2 DEF BadOnlyWhenBad, Coming, WellFormed
  <2>4. BeforeRequest'
    BY <1>1, <1>6, <1>7, <1>9, <2>1 DEF BeforeRequest, WellFormed
  <2> QED  BY <1>2, <1>4, <1>5, <2>3, <2>4 DEF HTTPInv, HTTPWhere
<1>10. CASE Stuck
  <2>1. BadOnlyWhenBad'  BY <1>1, <1>10 DEF BadOnlyWhenBad, Stuck
  <2>2. Stuck'  BY <1>1, <1>6, <1>7, <1>10 DEF Stuck
  <2> QED  BY <1>2, <1>4, <1>5, <2>1, <2>2 DEF HTTPInv, HTTPWhere
<1> QED  BY <1>8, <1>9, <1>10

\* onReq() keeps the invariant.
LEMMA OnReqInv ==
  ASSUME HTTPInv, user = "http", OnReq
  PROVE  HTTPInv'
<1> DEFINE k == Len(served)
<1>1. /\ hpc = "done" /\ hpc' = "read" /\ served' = Append(served, request_)
      /\ waiting' = (waiting \/ readableBytes(inputBuf) > 0)
      /\ UNCHANGED <<user, buffer, reqs, received, lost>>
      /\ UNCHANGED <<state_, request_>>
  BY DEF OnReq, context
<1>2. PICK close \in {WantsClose(request_), TRUE, FALSE} :
        /\ send(IF close THEN "close" ELSE "keep")
        /\ wrShut' = (wrShut \/ close)
  BY DEF OnReq
<1>3. /\ HTTPBuffer' /\ HTTPReceived' /\ HTTPData' /\ Parsed' = Parsed
      /\ UNCHANGED <<inputBuf, data, failed>>
  BY <1>1, SameData
<1>4. Complete
  BY <1>1 DEF HTTPInv, HTTPWhere, AllServed, BeforeRequest, InHeaders, Stuck
<1>5. /\ ~lost /\ k < Len(reqs) /\ WellFormed(Coming) /\ request_ = Asked(Coming)
      /\ Parsed = StartOf(reqs, k + 1)
  BY <1>4 DEF Complete
<1>6. /\ k \in Nat /\ Len(reqs) \in Nat /\ received \in Nat /\ Len(data) \in Nat
      /\ readableBytes(inputBuf) = Len(data) /\ Stream = StreamOf(reqs)
      /\ reqs \in Seq(Seq(Text))
  BY HTTPNumbers
<1>7. request_ \in Request /\ served \in Seq(Request)  BY DEF HTTPInv, HTTPFields
<1>8. /\ served' \in Seq(Request) /\ Len(served') = k + 1
      /\ \A i \in 1 .. k : served'[i] = served[i]
      /\ served'[k + 1] = request_
  BY <1>1, <1>7, AppendProperties
<1>9. /\ responses' \in Seq({"400", "close", "keep"})
      /\ "400" \in Range(responses') => "400" \in Range(responses)
  <2> DEFINE resp == IF close THEN "close" ELSE "keep"
  <2>1. resp \in {"400", "close", "keep"} /\ resp # "400"  OBVIOUS
  <2>2. send(resp)  BY <1>2
  <2> HIDE DEF resp
  <2> QED  BY <2>1, <2>2, SendFacts
<1>10. wrShut' \in BOOLEAN  BY <1>2
<1>11. HTTPFields'
  BY <1>1, <1>8, <1>9, <1>10 DEF HTTPInv, HTTPFields
<1>12. BadOnlyWhenBad'
  <2>1. SUFFICES ASSUME "400" \in Range(responses)'
                 PROVE  (lost \/ \E i \in DOMAIN reqs : ~WellFormed(reqs[i]))'
    BY DEF BadOnlyWhenBad
  <2>2. "400" \in Range(responses)  BY <1>9, <2>1
  <2>3. lost \/ \E i \in DOMAIN reqs : ~WellFormed(reqs[i])
    BY <2>2 DEF HTTPInv, BadOnlyWhenBad
  <2> QED  BY <1>1, <2>3 DEF WellFormed
<1> HIDE DEF k
<1>13. HTTPServed'
  <2>1. k + 1 <= Len(reqs)  BY <1>5, <1>6
  <2>2. \A i \in 1 .. k : WellFormed(reqs[i]) /\ served[i] = Asked(reqs[i])
    BY DEF HTTPInv, HTTPServed, k
  <2>3. WellFormed(reqs[k + 1]) /\ request_ = Asked(reqs[k + 1])
    BY <1>5 DEF Coming, k
  <2>4. ASSUME NEW i \in 1 .. k + 1
        PROVE  WellFormed(reqs[i]) /\ served'[i] = Asked(reqs[i])
    <3>1. CASE i \in 1 .. k  BY <1>8, <2>2, <3>1
    <3>2. CASE i = k + 1  BY <1>8, <2>3, <3>2
    <3> QED  BY <1>6, <3>1, <3>2
  <2> QED  BY <1>1, <1>8, <2>1, <2>4, ZenonT(60)
    DEF HTTPServed, WellFormed, Asked, procReq
<1>14. At(0)'
  <2>1. Parsed' = StartOf(reqs, k + 1)  BY <1>3, <1>5
  <2>2. StartOf(reqs, k + 1) \in Nat
    <3>1. Parsed = received - Len(data) /\ Len(data) <= received
      BY DEF Parsed, HTTPInv, HTTPData
    <3> QED  BY <1>5, <1>6, <3>1
  <2>3. StartOf(reqs, k + 1) = StartOf(reqs, k + 1) + 3 * 0  BY <2>2
  <2> QED  BY <1>1, <1>8, <2>1, <2>3 DEF At
<1>15. CASE k + 1 = Len(reqs)
  <2>1. AllServed'  BY <1>1, <1>5, <1>8, <1>14, <1>15 DEF AllServed
  <2> QED  BY <1>3, <1>11, <1>12, <1>13, <2>1 DEF HTTPInv, HTTPWhere
<1>16. CASE k + 1 # Len(reqs)
  <2>1. k + 1 \in 0 .. Len(reqs) - 1 /\ k + 1 < Len(reqs)  BY <1>5, <1>6, <1>16
  <2> DEFINE x == StartOf(reqs, k + 1)
             y == StartOf(reqs, (k + 1) + 1)
             m == Len(reqs[(k + 1) + 1])
  <2>2. x \in Nat /\ m \in Nat /\ y = x + 3 * m + 2
    <3>1. Laid(reqs, k + 1, StartOf(reqs, k + 1), StreamOf(reqs))  BY <1>6, <2>1, StreamAt
    <3> QED  BY <3>1 DEF Laid
  <2>3. received - Len(data) = x  BY <1>5 DEF Parsed
  <2> HIDE DEF x, y, m
  <2>4. ~waiting' => received < y
    <3>1. SUFFICES ASSUME ~waiting'  PROVE received < y  OBVIOUS
    <3>2. ~(readableBytes(inputBuf) > 0)  BY <1>1, <3>1
    <3>3. ~(Len(data) > 0)  BY <1>6, <3>2
    <3> QED  BY <1>6, <2>2, <2>3, <3>3
  <2>5. StartOf(reqs, Len(served) + 1)' = y /\ Len(served)' < Len(reqs)'
    BY <1>1, <1>8, <2>1 DEF y
  <2>6. BeforeRequest'
    BY <1>1, <1>5, <1>14, <2>4, <2>5 DEF BeforeRequest
  <2> QED  BY <1>3, <1>11, <1>12, <1>13, <2>6 DEF HTTPInv, HTTPWhere
<1> QED  BY <1>15, <1>16

\* A call of a user of the buffer keeps its readable bytes what they should be.
LEMMA CallsHold ==
  ASSUME HTTPInv, BufferNext
  PROVE  HTTPBuffer'
<1>0. Zero \in Elem /\ Byte \subseteq Elem  BY DEF Elem
<1>1. Holds(Elem, inputBuf, data) /\ ~failed  BY DEF HTTPInv, HTTPBuffer
<1>2. ASSUME NEW s \in Chunk  PROVE s \in Seq(Elem)
  <2>1. PICK n \in 1 .. MaxData : s \in [1 .. n -> Byte]  BY DEF Chunk
  <2>2. n \in Nat /\ s \in [1 .. n -> Elem]  BY <1>0, <2>1, BufferAssumption
  <2> QED  BY <2>2
<1>3. ASSUME NEW s \in Chunk, AppendBytes(s)  PROVE HTTPBuffer'
  <2>1. Holds(Elem, append(inputBuf, s), data \o s) /\ ~EnsureFails(inputBuf, Len(s))
    BY <1>0, <1>1, <1>2, appendHolds
  <2>2. inputBuf' = append(inputBuf, s) /\ data' = data \o s /\ failed' = failed
    BY <1>3, <2>1 DEF AppendBytes, Asserts, Becomes
  <2> QED  BY <1>1, <2>1, <2>2 DEF HTTPBuffer
<1>4. ASSUME NEW s \in Chunk, Prepend(s)  PROVE HTTPBuffer'
  <2>1. Len(s) <= inputBuf.r  BY <1>4 DEF Prepend, prependableBytes
  <2>2. Holds(Elem, prepend(inputBuf, s), s \o data)
    BY <1>1, <1>2, <2>1, prependHolds
  <2>3. inputBuf' = prepend(inputBuf, s) /\ data' = s \o data /\ failed' = failed
    BY <1>4 DEF Prepend, Becomes
  <2> QED  BY <1>1, <2>2, <2>3 DEF HTTPBuffer
<1>5. ASSUME NEW s \in Chunk, ReadFd(s)  PROVE HTTPBuffer'
  <2>1. Holds(Elem, readFd(inputBuf, s), data \o s) /\ ~ReadFdFails(inputBuf, s)
    BY <1>0, <1>1, <1>2, readFdHolds
  <2>2. inputBuf' = readFd(inputBuf, s) /\ data' = data \o s /\ failed' = failed
    BY <1>5, <2>1 DEF ReadFd, Asserts, Becomes
  <2> QED  BY <1>1, <2>1, <2>2 DEF HTTPBuffer
<1>6. ASSUME NEW n \in 0 .. MaxData, Retrieve(n)  PROVE HTTPBuffer'
  <2> DEFINE d == SubSeq(data, n + 1, Len(data))
  <2>1. n \in Nat /\ n <= Len(data)  BY <1>6, BufferAssumption DEF Retrieve
  <2>2. Holds(Elem, retrieve(inputBuf, n), d) /\ ~(n > readableBytes(inputBuf))
    BY <1>1, <2>1, retrieveHolds
  <2>3. inputBuf' = retrieve(inputBuf, n) /\ data' = d /\ failed' = failed
    BY <1>6, <2>2 DEF Retrieve, Asserts, Becomes
  <2> QED  BY <1>1, <2>2, <2>3 DEF HTTPBuffer
<1>7. ASSUME NEW n \in 0 .. MaxData, Shrink(n)  PROVE HTTPBuffer'
  <2>1. n \in Nat  BY BufferAssumption
  <2>2. /\ Holds(Elem, shrink(inputBuf, n), data)
        /\ ~EnsureFails(NewBuffer(kInit), readableBytes(inputBuf) + n)
    BY <1>0, <1>1, <2>1, shrinkHolds
  <2>3. inputBuf' = shrink(inputBuf, n) /\ data' = data /\ failed' = failed
    BY <1>7, <2>2 DEF Shrink, Asserts, Becomes
  <2> QED  BY <1>1, <2>2, <2>3 DEF HTTPBuffer
<1> QED  BY <1>3, <1>4, <1>5, <1>6, <1>7 DEF BufferNext

\* The calls on the buffer alone keep the invariant.
LEMMA CallsInv ==
  ASSUME HTTPInv, user = "calls", BufferNext, UNCHANGED <<user, http>>
  PROVE  HTTPInv'
<1>1. HTTPBuffer'  BY CallsHold
<1>2. UNCHANGED <<user, reqs, received, hpc, state_, request_, wrShut, responses, served,
                  lost, waiting>>
  BY DEF http, context
<1>3. HTTPFields'  BY <1>2 DEF HTTPInv, HTTPFields
<1>4. HTTPServed' /\ BadOnlyWhenBad'  BY <1>2, ServedStep, BadStep
<1>5. Stream' = Stream  BY <1>2 DEF Stream
<1>6. HTTPReceived'  BY <1>2, <1>5 DEF HTTPInv, HTTPReceived
<1>7. user' # "http"  BY <1>2
<1>8. HTTPData' /\ HTTPWhere'  BY <1>7 DEF HTTPData, HTTPWhere
<1> QED  BY <1>1, <1>3, <1>4, <1>6, <1>8 DEF HTTPInv

\* Nothing happens.
LEMMA HTTPStutter == ASSUME HTTPInv, UNCHANGED httpVars PROVE HTTPInv'
<1>1. UNCHANGED <<user, buffer, reqs, received, hpc, state_, request_, wrShut, responses,
                  served, lost, waiting>>
  BY DEF httpVars, http, context
<1>2. HTTPBuffer' /\ HTTPReceived' /\ HTTPData' /\ Parsed' = Parsed  BY <1>1, SameData
<1>3. HTTPFields'  BY <1>1 DEF HTTPInv, HTTPFields
<1>4. HTTPServed' /\ BadOnlyWhenBad'  BY <1>1, ServedStep, BadStep
<1>5. Coming' = Coming /\ (\A l : At(l) => At(l)')  BY <1>1, <1>2 DEF Coming, At
<1>6. HTTPWhere'
  <2>1. SUFFICES ASSUME user = "http"
                 PROVE  (AllServed \/ BeforeRequest \/ InHeaders \/ Complete \/ Stuck)'
    BY <1>1 DEF HTTPWhere
  <2>2. CASE AllServed  BY <1>1, <1>5, <2>2 DEF AllServed
  <2>3. CASE BeforeRequest  BY <1>1, <1>5, <2>3 DEF BeforeRequest, WellFormed
  <2>4. CASE InHeaders
    BY <1>1, <1>5, <2>4 DEF InHeaders, WellFormed, AskedTo, procReq
  <2>5. CASE Complete
    BY <1>1, <1>2, <1>5, <2>5 DEF Complete, WellFormed, Asked, procReq
  <2>6. CASE Stuck  BY <1>1, <1>5, <2>6 DEF Stuck
  <2> QED  BY <2>1, <2>2, <2>3, <2>4, <2>5, <2>6 DEF HTTPInv, HTTPWhere
<1> QED  BY <1>2, <1>3, <1>4, <1>6 DEF HTTPInv

\* A new connection with an empty buffer satisfies the invariant.
LEMMA HTTPInitInv == HTTPInit => HTTPInv
<1> SUFFICES ASSUME HTTPInit PROVE HTTPInv  OBVIOUS
<1>1. /\ user \in {"http", "calls"} /\ BufferInit
      /\ received = 0 /\ hpc = "read" /\ state_ = "ExpReq" /\ request_ = NoRequest
      /\ wrShut = FALSE /\ responses = <<>> /\ served = <<>>
      /\ lost = FALSE /\ waiting = FALSE
  BY DEF HTTPInit
<1>2. Sendable(reqs)
  <2>1. CASE user = "http"
    <3>1. reqs \in Requests  BY <2>1 DEF HTTPInit
    <3> QED  BY <3>1, RequestsAssumption DEF Sendable
  <2>2. CASE user # "http"
    <3>1. reqs = <<>>  BY <2>2 DEF HTTPInit
    <3>2. <<>> \in Seq(Seq(Text)) /\ DOMAIN <<>> = {}  BY EmptySeq
    <3> QED  BY <3>1, <3>2 DEF Sendable
  <2> QED  BY <2>1, <2>2
<1>3. /\ reqs \in Seq(Seq(Text)) /\ Stream = StreamOf(reqs)
  BY <1>2 DEF Sendable, Stream, StreamOf
<1>4. /\ Len(Stream) \in Nat /\ Len(reqs) \in Nat /\ StartOf(reqs, 0) = 0
  BY <1>3, StreamEnds
<1>5. inputBuf = NewBuffer(kInit) /\ data = <<>> /\ failed = FALSE
  BY <1>1 DEF BufferInit
<1>6. HTTPBuffer
  <2>1. Zero \in Elem  BY DEF Elem
  <2>2. Holds(Elem, NewBuffer(kInit), <<>>)  BY <2>1, NewBufferHolds, BufferAssumption
  <2> QED  BY <1>5, <2>2 DEF HTTPBuffer
<1>7. HTTPFields
  <2>1. NoRequest \in Request  BY DEF NoRequest, Request
  <2>2. responses \in Seq({"400", "close", "keep"}) /\ served \in Seq(Request)
    BY <1>1, EmptySeq
  <2>3. wrShut \in BOOLEAN /\ lost \in BOOLEAN /\ waiting \in BOOLEAN  BY <1>1
  <2> QED  BY <1>1, <1>2, <2>1, <2>2, <2>3 DEF HTTPFields
<1>8. Len(data) = 0 /\ Len(served) = 0  BY <1>1, <1>5
<1>9. HTTPReceived  BY <1>1, <1>4 DEF HTTPReceived
<1>10. HTTPData  BY <1>1, <1>8 DEF HTTPData
<1>11. HTTPServed  BY <1>4, <1>8 DEF HTTPServed
<1>12. BadOnlyWhenBad
  <2>1. Range(<<>>) = {}  BY EmptySeq DEF Range
  <2> QED  BY <1>1, <2>1 DEF BadOnlyWhenBad
<1>13. At(0)  BY <1>1, <1>4, <1>8 DEF At, Parsed
<1>14. AllServed \/ BeforeRequest
  <2>1. CASE Len(reqs) = 0
    <3>1. AllServed  BY <1>1, <1>8, <1>13, <2>1 DEF AllServed
    <3> QED  BY <3>1
  <2>2. CASE Len(reqs) # 0
    <3> DEFINE m == Len(reqs[0 + 1])
    <3>0. 0 \in 0 .. Len(reqs) - 1 /\ 0 < Len(reqs)  BY <1>4, <2>2
    <3>1. Laid(reqs, 0, StartOf(reqs, 0), StreamOf(reqs))  BY <1>3, <3>0, StreamAt
    <3>2. m \in Nat /\ StartOf(reqs, 0 + 1) = StartOf(reqs, 0) + 3 * m + 2
      BY <3>1 DEF Laid
    <3> HIDE DEF m
    <3>3. received < StartOf(reqs, 0 + 1)  BY <1>1, <1>4, <3>2
    <3>4. BeforeRequest  BY <1>1, <1>8, <1>13, <3>0, <3>3 DEF BeforeRequest
    <3> QED  BY <3>4
  <2> QED  BY <2>1, <2>2
<1> QED  BY <1>6, <1>7, <1>9, <1>10, <1>11, <1>12, <1>14 DEF HTTPInv, HTTPWhere

\* Every step keeps the invariant.
LEMMA HTTPNextInv == HTTPInv /\ [HTTPNext]_httpVars => HTTPInv'
<1> SUFFICES ASSUME HTTPInv, [HTTPNext]_httpVars PROVE HTTPInv'  OBVIOUS
<1>1. CASE UNCHANGED httpVars  BY <1>1, HTTPStutter
<1>2. CASE HTTPNext /\ user = "http" /\ HTTPStep
  <2>1. ASSUME NEW n \in 1 .. Len(Stream), OnMsg(n)  PROVE HTTPInv'
    BY <1>2, <2>1, OnMsgInv
  <2>2. CASE ParseMore  BY <1>2, <2>2, ParseMoreInv
  <2>3. CASE ParseReq  BY <1>2, <2>3, ParseReqInv
  <2>4. CASE ParseHeader  BY <1>2, <2>4, ParseHeaderInv
  <2>5. CASE BadRequest  BY <1>2, <2>5, BadRequestInv
  <2>6. CASE OnReq  BY <1>2, <2>6, OnReqInv
  <2> QED  BY <1>2, <2>1, <2>2, <2>3, <2>4, <2>5, <2>6 DEF HTTPStep
<1>3. CASE HTTPNext /\ user = "calls" /\ BufferNext /\ UNCHANGED http
  <2>1. user' = user  BY <1>3 DEF HTTPNext
  <2> QED  BY <1>3, <2>1, CallsInv
<1> QED  BY <1>1, <1>2, <1>3 DEF HTTPNext

\* The connection and its buffer always satisfy the invariant.
LEMMA HTTPInvariant == HTTPSpec => []HTTPInv
BY HTTPInitInv, HTTPNextInv, PTL DEF HTTPSpec

\* net/Buffer, for any sizes of the vector, of extrabuf and of what is read:
\* after any calls, in any order, and under the parser's, the readable bytes are
\* those put in and not taken out, and no assertion of the class fails.
THEOREM HTTPBufferCorrect == HTTPSpec => []BufferCorrect
<1>1. HTTPInv => BufferCorrect
  <2> SUFFICES ASSUME HTTPInv PROVE BufferCorrect  OBVIOUS
  <2>1. Holds(Elem, inputBuf, data) /\ ~failed  BY DEF HTTPInv, HTTPBuffer
  <2>2. peek(inputBuf) = data  BY <2>1, HoldsPeek
  <2>3. /\ inputBuf.buf \in Seq(Elem) /\ inputBuf.r \in Nat
        /\ inputBuf.r <= inputBuf.w /\ inputBuf.w <= Len(inputBuf.buf)
    BY <2>1, HoldsFields
  <2>4. request_.version \in {"Unknown", "HTTP10", "HTTP11"}
    BY DEF HTTPInv, HTTPFields, Request
  <2>5. HTTPTypeOK
    BY <2>3, <2>4 DEF HTTPTypeOK, HTTPInv, HTTPFields, HTTPReceived, Elem
  <2> QED  BY <2>1, <2>2, <2>5 DEF BufferCorrect, HoldsItsData, BufferAsserts
<1> QED  BY <1>1, HTTPInvariant, PTL

\* HTTPContext::parse(), for any number of requests with any number of headers,
\* cut into reads anywhere: httpCB_ gets the requests the peer sent, in order,
\* each with its own version and its own last Connection header.  A body would
\* be a request of its own (RequestsAssumption), here and below.
THEOREM HTTPServesWhatWasAsked == HTTPSpec => []ServesWhatWasAsked
<1>1. HTTPInv => ServesWhatWasAsked
  <2> SUFFICES ASSUME HTTPInv PROVE ServesWhatWasAsked  OBVIOUS
  <2>1. DOMAIN served = 1 .. Len(served)  BY HTTPNumbers
  <2> QED  BY <2>1 DEF HTTPInv, HTTPServed, ServesWhatWasAsked
<1> QED  BY <1>1, HTTPInvariant, PTL

\* HTTPServer::onMsg() answers 400 only to a malformed request, or when the
\* context that held its request line was dropped between two reads.
THEOREM HTTPBadOnlyWhenBad == HTTPSpec => []BadOnlyWhenBad
<1>1. HTTPInv => BadOnlyWhenBad  BY DEF HTTPInv
<1> QED  BY <1>1, HTTPInvariant, PTL

\* HTTPServer::onMsg(): when it waits for the next read, every request that has
\* arrived whole, with none malformed up to it, was served, unless a context was
\* dropped or a read brought more than the request it completed.
THEOREM HTTPServedInTime == HTTPSpec => []ServedInTime
<1>1. HTTPInv => ServedInTime
  <2> SUFFICES ASSUME HTTPInv, user = "http", hpc = "read", ~lost, ~waiting,
                      NEW k \in DOMAIN reqs, Arrived(k),
                      \A i \in 1 .. k : WellFormed(reqs[i])
               PROVE  Len(served) >= k
    BY DEF ServedInTime
  <2>1. /\ Len(served) \in Nat /\ Len(reqs) \in Nat /\ DOMAIN reqs = 1 .. Len(reqs)
        /\ received \in Nat /\ reqs \in Seq(Seq(Text))
    BY HTTPNumbers
  <2>2. AllServed \/ BeforeRequest
    BY DEF HTTPInv, HTTPWhere, InHeaders, Complete, Stuck
  <2>3. k \in 1 .. Len(reqs) /\ k \in Nat  BY <2>1
  <2>4. CASE AllServed  BY <2>1, <2>3, <2>4 DEF AllServed
  <2>5. CASE BeforeRequest
    <3> DEFINE j == Len(served) + 1
    <3>1. SUFFICES ASSUME ~(Len(served) >= k)  PROVE FALSE  OBVIOUS
    <3>2. j \in 0 .. Len(reqs) /\ j \in 1 .. k /\ k \in j .. Len(reqs)
      BY <2>1, <2>3, <3>1
    <3>3. received < StartOf(reqs, j) \/ ~WellFormed(Coming)
      BY <2>5 DEF BeforeRequest
    <3>4. WellFormed(Coming)  BY <3>2 DEF Coming
    <3> HIDE DEF j
    <3>5. StartOf(reqs, j) <= StartOf(reqs, k)  BY <2>1, <3>2, StartGrows
    <3>6. StartOf(reqs, k) <= received  BY DEF Arrived, StartOf
    <3>7. StartOf(reqs, j) \in Nat /\ StartOf(reqs, k) \in Nat
      BY <2>1, <3>2, StartNat
    <3> QED  BY <2>1, <3>3, <3>4, <3>5, <3>6, <3>7
  <2> QED  BY <2>2, <2>4, <2>5
<1> QED  BY <1>1, HTTPInvariant, PTL
=============================================================================
