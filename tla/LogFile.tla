------------------------------ MODULE LogFile -------------------------------
(***************************************************************************)
(* logging/LogFile, the file AsyncLogging's back end appends to, composed  *)
(* with it.  The file is rolled by size and by period and flushed now and  *)
(* then; all of it happens in calls of append() and flush().               *)
(*                                                                         *)
(* The clock is what LogFile asks of it at an append: whether it is later  *)
(* than the last roll, and whether it is in another period than the file.  *)
(* Either may be so or not at each append: time() may be set back, and     *)
(* append_unlocked() and filename() read it separately.  So may it be      *)
(* flushInter_ seconds after the last flush.  Sizes are in messages.       *)
(***************************************************************************)
EXTENDS AsyncLogging

CONSTANTS rollsz_, checkEveryN_

ASSUME LogFileAssumption == rollsz_ \in Nat /\ checkEveryN_ \in Nat \ {0}

VARIABLES
  open,                  \* the LogFile exists
  cnt_, written_,
  unflushed,             \* the stdio buffer of the file is not empty
  crowded,               \* history: now > lastRoll_ was false at the last append
  late                   \* history: appends in a row to a file whose period was
                         \* over and that could have been rolled

logFile == <<open, cnt_, written_, unflushed, crowded, late>>

LogFileTypeOK ==
  /\ {open, crowded, unflushed} \subseteq BOOLEAN
  /\ cnt_ \in 0 .. checkEveryN_ - 1
  /\ written_ \in Nat /\ late \in Nat

\* The LogFile is made by the back end.
LogFileInit ==
  /\ Init
  /\ open = FALSE
  /\ cnt_ = 0 /\ written_ = 0 /\ unflushed = FALSE
  /\ crowded = FALSE /\ late = 0

\* A new AppendFile; the old one is flushed as it is closed.
NewFile ==
  /\ written_' = 0 /\ unflushed' = FALSE
  /\ crowded' = FALSE /\ late' = 0

Construct == open' = TRUE /\ cnt_' = 0 /\ NewFile

flush == unflushed' = FALSE /\ UNCHANGED <<open, cnt_, written_, crowded, late>>

\* The file after n messages more and no roll.  The clock, at: at.later says
\* that now > lastRoll_, at.period that now is not in startOfPeriod_'s period.
Stays(n, at, c) ==
  /\ cnt_' = c
  /\ written_' = written_ + n
  /\ unflushed' = (unflushed \/ n > 0)
  /\ crowded' = ~at.later
  /\ late' = IF at.period /\ at.later THEN late + 1 ELSE 0

\* Two rolls in one second would open the same file: the second is refused,
\* as is every roll until a clock that was set back has caught up.
roll(n, at, c) == IF at.later THEN cnt_' = c /\ NewFile ELSE Stays(n, at, c)

\* Mutant: the period is not looked at.
append_unlocked_NoPeriod(n, at) ==
  IF written_ + n > rollsz_ THEN roll(n, at, cnt_)
  ELSE Stays(n, at, (cnt_ + 1) % checkEveryN_)

\* Mutant: a file that is too large is rolled at the next check only.
append_unlocked_LateRoll(n, at) ==
  IF cnt_ + 1 < checkEveryN_ THEN Stays(n, at, cnt_ + 1) ELSE roll(n, at, 0)

append_unlocked(n, at) ==
  IF written_ + n > rollsz_ THEN roll(n, at, cnt_)
  ELSE IF cnt_ + 1 < checkEveryN_ THEN Stays(n, at, cnt_ + 1)
  ELSE IF at.period THEN roll(n, at, 0)
  ELSE \/ Stays(n, at, 0)
       \/ /\ unflushed' = FALSE /\ cnt_' = 0 /\ written_' = written_ + n
          /\ crowded' = ~at.later /\ late' = 0

\* append() at any time.
appendToFile(n) ==
  /\ \E l, p \in BOOLEAN : append_unlocked(n, [later |-> l, period |-> p])
  /\ open' = open

-----------------------------------------------------------------------------
(* threadFunc() with its file.                                             *)

\* Mutant: the batch is written and not flushed.
RecycleAndFlush_NoFlush == Recycle /\ UNCHANGED logFile

RecycleAndFlush == Recycle /\ flush
WriteToFile == Write /\ appendToFile(Len(bufs[next]))

\* The notice that messages were dropped is a line of the file.
TrimToFile == Trim /\ IF Len(bufs) > MaxBufs THEN appendToFile(1) ELSE UNCHANGED logFile

BeginWithFile == Begin /\ Construct
CheckAndFlush == CheckRunning /\ IF running_ THEN UNCHANGED logFile ELSE flush

PipelineBackEnd ==
  \/ BeginWithFile \/ CheckAndFlush \/ TrimToFile \/ WriteToFile \/ RecycleAndFlush
  \/ (Swap \/ Wait \/ Written) /\ UNCHANGED logFile

PipelineNext ==
  \/ PipelineBackEnd
  \/ /\ \/ \E m \in Msg : AppendMsg(m)
        \/ WaitTimeout \/ Start \/ Stop \/ OwnerReturns
     /\ UNCHANGED logFile

pipelineVars == <<vars, logFile>>

PipelineSpec == LogFileInit /\ [][PipelineNext]_pipelineVars

\* The back end and a started call of start() or stop() keep going, and the
\* timed wait ends.
PipelineFairSpec ==
  /\ PipelineSpec
  /\ WF_pipelineVars(PipelineBackEnd)
  /\ WF_pipelineVars(OwnerReturns /\ UNCHANGED logFile)
  /\ WF_pipelineVars(WaitTimeout /\ UNCHANGED logFile)

-----------------------------------------------------------------------------
\* LogFile::append_unlocked(): "roll the file if the file is larger than the
\* roll size" (docs/logging.md): a file is larger only while its last append
\* came within the second in which it was opened, or at a time set back before.
RolledWhenFull == written_ > rollsz_ => crowded

\* "... or it reaches the next period": the period is looked at on every
\* checkEveryN_-th append, and fewer than that go, one after the other, to the
\* file of a period that is over while the clock allows a roll.
RolledEachPeriod == open => late < checkEveryN_

\* LogFile::append_unlocked(): a file is rolled for either reason.
RolledInTime == TypeOK /\ LogFileTypeOK /\ RolledWhenFull /\ RolledEachPeriod

\* threadFunc() and LogFile::flush(): whenever the back end waits, or has
\* ended, all it has written is in the file and not in a stdio buffer.
FlushedWhenIdle == pc \in {"lock", "wait", "woken", "done"} => ~unflushed
=============================================================================
