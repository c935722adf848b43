---------------------------- MODULE AsyncLogging ----------------------------
(***************************************************************************)
(* logging/AsyncLogging: threads that append() messages to the current     *)
(* buffer, the back-end thread that swaps the filled buffers out and       *)
(* writes them, and the owner that calls start() and stop().               *)
(*                                                                         *)
(* A buffer is the sequence of the messages copied into it, a BufPtr is a  *)
(* buffer or Null.  A critical section of mutex_ is one action.  The file  *)
(* is what was handed to LogFile::append.                                  *)
(***************************************************************************)
EXTENDS Integers, SequencesExt

CONSTANTS Msg,       \* messages, one element per call of append()
          Huge,      \* those longer than an empty buffer
          Cap,       \* messages that fit into a buffer
          MaxBufs,   \* longest batch that is written in full, 25 in the code
          Null       \* the null BufPtr

ASSUME LoggingAssumption ==
  /\ Huge \subseteq Msg
  /\ Cap \in Nat \ {0}
  /\ MaxBufs \in Nat /\ MaxBufs >= 2
  /\ Null \notin Seq(Msg)

KeptBufs == 2        \* what is left of a batch that is too long

VARIABLES
  running_,
  curBuf_, nxtBuf_,    \* front-end buffers, under mutex_
  bufs_,               \* filled buffers, under mutex_
  buf1, buf2, bufs,    \* threadFunc()'s spare buffers and batch
  next,                \* index in bufs of the next buffer to write
  pc,                  \* where threadFunc() is
  opc,                 \* where the owner is
  file,                \* messages written, in order
  appended,            \* history: messages passed to append(), in order
  dropped,             \* history: too long, or in an erased buffer
  beforeStop           \* history: appended before stop() began

front == <<curBuf_, nxtBuf_, bufs_>>
back == <<buf1, buf2, bufs, next>>
history == <<appended, dropped, beforeStop>>
vars == <<running_, front, back, pc, opc, file, history>>

TypeOK ==
  /\ running_ \in BOOLEAN
  /\ {curBuf_, nxtBuf_, buf1, buf2} \subseteq Seq(Msg) \cup {Null}
  /\ bufs_ \in Seq(Seq(Msg)) /\ bufs \in Seq(Seq(Msg))
  /\ next \in Nat \ {0}
  /\ pc \in {"unborn", "begin", "check", "lock", "wait", "woken", "trim", "write",
             "recycle", "done"}
  /\ opc \in {"new", "starting", "started", "notify", "join", "stopped"}
  /\ file \in Seq(Msg) /\ appended \in Seq(Msg)
  /\ dropped \subseteq Msg /\ beforeStop \subseteq Msg

Init ==
  /\ running_ = FALSE
  /\ curBuf_ = <<>> /\ nxtBuf_ = <<>> /\ bufs_ = <<>>
  /\ buf1 = <<>> /\ buf2 = <<>> /\ bufs = <<>> /\ next = 1
  /\ pc = "unborn" /\ opc = "new"
  /\ file = <<>> /\ appended = <<>>
  /\ dropped = {} /\ beforeStop = {}

-----------------------------------------------------------------------------
(* append(), on any thread and at any time in the object's life.           *)

\* cond_.notify(): only the back end waits on cond_.
Notified == IF pc = "wait" THEN "woken" ELSE pc

\* FixedBuffer::append drops what does not fit.
Copied(buf, m) == IF m \in Huge THEN buf ELSE Append(buf, m)

AppendMsg(m) ==
  /\ m \notin Range(appended)
  /\ IF m \notin Huge /\ Len(curBuf_) < Cap
     THEN /\ curBuf_' = Append(curBuf_, m)
          /\ UNCHANGED <<nxtBuf_, bufs_, pc>>
     ELSE /\ bufs_' = Append(bufs_, curBuf_)
          /\ curBuf_' = Copied(IF nxtBuf_ # Null THEN nxtBuf_ ELSE <<>>, m)
          /\ nxtBuf_' = Null
          /\ pc' = Notified
  /\ appended' = Append(appended, m)
  /\ dropped' = dropped \cup ({m} \cap Huge)
  /\ beforeStop' = IF running_ THEN beforeStop \cup {m} ELSE beforeStop
  /\ UNCHANGED <<running_, back, opc, file>>

-----------------------------------------------------------------------------
(* threadFunc().                                                           *)

\* The latch start() waits for is counted down.
Begin ==
  /\ pc = "begin"
  /\ pc' = "check"
  /\ UNCHANGED <<running_, front, back, opc, file, history>>

CheckRunning ==
  /\ pc = "check"
  /\ pc' = IF running_ THEN "lock" ELSE "done"
  /\ UNCHANGED <<running_, front, back, opc, file, history>>

Swapped ==
  /\ bufs' = Append(bufs_, curBuf_)
  /\ bufs_' = <<>>
  /\ curBuf_' = buf1 /\ buf1' = Null
  /\ IF nxtBuf_ = Null THEN nxtBuf_' = buf2 /\ buf2' = Null
                       ELSE UNCHANGED <<nxtBuf_, buf2>>

\* Mutant: only a filled buffer is a reason to swap.
Swap_OnlyFilled ==
  /\ pc \in {"lock", "woken"}
  /\ bufs_ # <<>>
  /\ pc' = "trim"
  /\ Swapped
  /\ UNCHANGED <<running_, next, opc, file, history>>

\* The critical section, without a wait when a buffer is full already.
Swap ==
  /\ \/ pc = "lock" /\ bufs_ # <<>>
     \/ pc = "woken"
  /\ pc' = "trim"
  /\ Swapped
  /\ UNCHANGED <<running_, next, opc, file, history>>

\* Mutant: the wait is not guarded by a test of bufs_.
Wait_Always ==
  /\ pc = "lock"
  /\ pc' = "wait"
  /\ UNCHANGED <<running_, front, back, opc, file, history>>

Wait ==
  /\ pc = "lock"
  /\ bufs_ = <<>>
  /\ pc' = "wait"
  /\ UNCHANGED <<running_, front, back, opc, file, history>>

\* flushInter_ seconds pass (or the wait returns spuriously).
WaitTimeout ==
  /\ pc = "wait"
  /\ pc' = "woken"
  /\ UNCHANGED <<running_, front, back, opc, file, history>>

\* A batch that is too long loses all but its first two buffers.
Trim ==
  /\ pc = "trim"
  /\ pc' = "write"
  /\ next' = 1
  /\ IF Len(bufs) > MaxBufs
     THEN /\ bufs' = SubSeq(bufs, 1, KeptBufs)
          /\ dropped' = dropped \cup
               UNION {Range(bufs[i]) : i \in (KeptBufs + 1) .. Len(bufs)}
     ELSE UNCHANGED <<bufs, dropped>>
  /\ UNCHANGED <<running_, front, buf1, buf2, opc, file, appended, beforeStop>>

Write ==
  /\ pc = "write"
  /\ next <= Len(bufs)
  /\ file' = file \o bufs[next]
  /\ next' = next + 1
  /\ UNCHANGED <<running_, front, buf1, buf2, bufs, pc, opc, history>>

\* Mutant: one buffer too few is kept for the spares.
Written_KeepOne ==
  /\ pc = "write"
  /\ next > Len(bufs)
  /\ pc' = "recycle"
  /\ bufs' = SubSeq(bufs, 1, 1)
  /\ UNCHANGED <<running_, front, buf1, buf2, next, opc, file, history>>

Written ==
  /\ pc = "write"
  /\ next > Len(bufs)
  /\ pc' = "recycle"
  /\ bufs' = IF Len(bufs) > 2 THEN SubSeq(bufs, 1, 2) ELSE bufs
  /\ UNCHANGED <<running_, front, buf1, buf2, next, opc, file, history>>

\* Mutant: the buffer is not reset.
Spare_NoReset(buf) == buf

\* A written buffer is reset and kept as a spare.
Spare(buf) == <<>>

\* buf1 is null here and takes the last written buffer; buf2 takes the one
\* before it if it was handed over in the critical section.
Recycle ==
  /\ pc = "recycle"
  /\ pc' = "check"
  /\ buf1' = Spare(Last(bufs))
  /\ buf2' = IF buf2 = Null THEN Spare(bufs[Len(bufs) - 1]) ELSE buf2
  /\ bufs' = <<>>
  /\ UNCHANGED <<running_, front, next, opc, file, history>>

-----------------------------------------------------------------------------
(* start() and stop() on the owner.                                        *)

Start ==
  /\ opc = "new"
  /\ opc' = "starting"
  /\ running_' = TRUE
  /\ pc' = "begin"
  /\ UNCHANGED <<front, back, file, history>>

StartReturn ==
  /\ opc = "starting"
  /\ pc # "begin"
  /\ opc' = "started"
  /\ UNCHANGED <<running_, front, back, pc, file, history>>

Stop ==
  /\ opc = "started"
  /\ opc' = "notify"
  /\ running_' = FALSE
  /\ UNCHANGED <<front, back, pc, file, history>>

\* notify() without mutex_: it may come before the back end waits.
StopNotify ==
  /\ opc = "notify"
  /\ opc' = "join"
  /\ pc' = Notified
  /\ UNCHANGED <<running_, front, back, file, history>>

StopJoin ==
  /\ opc = "join"
  /\ pc = "done"
  /\ opc' = "stopped"
  /\ UNCHANGED <<running_, front, back, pc, file, history>>

-----------------------------------------------------------------------------
BackEnd == Begin \/ CheckRunning \/ Swap \/ Wait \/ Trim \/ Write \/ Written
           \/ Recycle
OwnerReturns == StartReturn \/ StopNotify \/ StopJoin

Next ==
  \/ \E m \in Msg : AppendMsg(m)
  \/ BackEnd \/ WaitTimeout
  \/ Start \/ Stop \/ OwnerReturns

Spec == Init /\ [][Next]_vars

-----------------------------------------------------------------------------
\* The part of the batch that is still to be written.
ToWrite == IF pc = "trim" THEN bufs
           ELSE IF pc = "write" THEN SubSeq(bufs, next, Len(bufs)) ELSE <<>>

\* What was appended and has not been written yet, oldest first.
Unwritten == FlattenSeq(ToWrite \o bufs_ \o <<curBuf_>>)

\* out has what was appended, without what was dropped and in the same order.
Conserved(out, app, drop) ==
  /\ Range(out) = Range(app) \ drop
  /\ \A i, j \in DOMAIN out, k, l \in DOMAIN app :
        out[i] = app[k] /\ out[j] = app[l] => (i < j <=> k < l)

\* Through every swap of buffers between append() and threadFunc() no message
\* is lost, duplicated or reordered, except one that fits no buffer and those
\* in the buffers cut from a batch that was too long.
MessagesConserved == Conserved(file \o Unwritten, appended, dropped)

\* The assertions of threadFunc(), and the pointers append() and threadFunc()
\* dereference without a test: the spare buffers are there and empty at the
\* top of the loop, a batch is never empty, and there is always a written
\* buffer left to refill a spare from.
SparesSuffice ==
  /\ curBuf_ # Null
  /\ pc = "begin" => running_
  /\ pc \in {"lock", "wait", "woken"} => buf1 = <<>> /\ buf2 = <<>> /\ bufs = <<>>
  /\ pc \in {"trim", "write", "recycle"} => bufs # <<>> /\ buf1 = Null
  /\ pc = "recycle" /\ buf2 = Null => Len(bufs) >= 2

\* append() notifies under mutex_ and threadFunc() tests bufs_ before it
\* waits: the back end never sleeps on a filled buffer.
NoSleepOnFullBuffer == pc = "wait" => bufs_ = <<>>

\* docs/logging.md: a filled buffer is "pushed into the buffer list waiting
\* to be flushed to disk".  After stop() whatever was appended before it is
\* in the file.
StopWritesEverything ==
  opc = "stopped" => beforeStop \subseteq Range(file) \cup dropped

\* Every message appended before stop() is written or dropped, unless stop()
\* comes first.
EveryMessageWritten ==
  \A m \in Msg : m \in Range(appended) /\ running_
                   ~> m \in Range(file) \cup dropped \/ ~running_
=============================================================================
