------------------------------- MODULE Buffer -------------------------------
(***************************************************************************)
(* net/Buffer: bytes between two indices into a vector that is grown, or   *)
(* whose readable bytes are moved to the front, when room is needed.       *)
(*                                                                         *)
(* A buffer is a record of the vector and the two indices (0-based, as in  *)
(* the code).  Stale bytes outside of the indices are kept: what a wrong   *)
(* index would expose is there to be seen.  The actions are the calls of a *)
(* user of one buffer, with data as the queue of bytes it should be.       *)
(***************************************************************************)
EXTENDS Integers, SequencesExt

CONSTANTS kPre, kInit,
          ExtraSz,   \* readFd(): the size of extrabuf
          Zero,      \* what resize() fills the vector with
          Byte, MaxData   \* bound: bytes the user of the calls below keeps

ASSUME BufferAssumption ==
  /\ kPre \in Nat /\ kInit \in Nat /\ ExtraSz \in Nat /\ MaxData \in Nat

VARIABLES inputBuf, data, failed

buffer == <<inputBuf, data, failed>>

Zeros(n) == [i \in 1 .. n |-> Zero]

NewBuffer(initSz) == [buf |-> Zeros(kPre + initSz), r |-> kPre, w |-> kPre]

readableBytes(b) == b.w - b.r
writableBytes(b) == Len(b.buf) - b.w
prependableBytes(b) == b.r
peek(b) == SubSeq(b.buf, b.r + 1, b.w)

\* std::copy(s, s+len, begin()+at).
Copy(buf, at, s) ==
  [i \in DOMAIN buf |-> IF i - at \in DOMAIN s THEN s[i - at] ELSE buf[i]]

-----------------------------------------------------------------------------
\* Mutant: room is counted without the bytes that stay prependable.
MustGrow_NoPre(b, len) == writableBytes(b) + prependableBytes(b) < len

MustGrow(b, len) == writableBytes(b) + prependableBytes(b) < len + kPre

\* Mutant: the indices move, the bytes do not.
moveToFront_NoCopy(b) == [b EXCEPT !.r = kPre, !.w = kPre + readableBytes(b)]

moveToFront(b) ==
  [buf |-> Copy(b.buf, kPre, peek(b)), r |-> kPre, w |-> kPre + readableBytes(b)]

expand(b, len) ==
  IF MustGrow(b, len)
  THEN [b EXCEPT !.buf = @ \o Zeros(b.w + len - Len(@))]
  ELSE moveToFront(b)

ensure(b, len) == IF writableBytes(b) < len THEN expand(b, len) ELSE b

\* The assertions of expand() and of ensure().
EnsureFails(b, len) ==
  \/ writableBytes(b) < len /\ ~MustGrow(b, len) /\ kPre >= b.r
  \/ writableBytes(ensure(b, len)) < len

append(b, s) ==
  LET e == ensure(b, Len(s))
  IN  [e EXCEPT !.buf = Copy(@, e.w, s), !.w = @ + Len(s)]

prepend(b, s) == [b EXCEPT !.buf = Copy(@, b.r - Len(s), s), !.r = @ - Len(s)]

retrieveAll(b) == [b EXCEPT !.r = kPre, !.w = kPre]

retrieve(b, len) ==
  IF len < readableBytes(b) THEN [b EXCEPT !.r = @ + len] ELSE retrieveAll(b)

\* A new buffer with room for reserve more takes the place of the old one.
shrink(b, reserve) ==
  append(ensure(NewBuffer(kInit), readableBytes(b) + reserve), peek(b))

\* readv() fills the room of the vector first, extrabuf takes the rest.  When
\* it fails nothing changes: readFd() returns before the indices move.
readFd(b, s) ==
  LET room == writableBytes(b)
      full == [b EXCEPT !.buf = Copy(@, b.w, s), !.w = Len(b.buf)]
  IN  IF Len(s) <= room
      THEN [b EXCEPT !.buf = Copy(@, b.w, s), !.w = @ + Len(s)]
      ELSE append(full, SubSeq(s, room + 1, Len(s)))

ReadFdFails(b, s) ==
  LET room == writableBytes(b)
  IN  Len(s) > room /\ EnsureFails([b EXCEPT !.w = Len(b.buf)], Len(s) - room)

\* What one readv() can take: extrabuf is left out of a large read.
ReadLimit(b) == IF writableBytes(b) < ExtraSz THEN writableBytes(b) + ExtraSz
                ELSE writableBytes(b)

\* The number of bytes before the first CR LF, or -1.
findCRLF(b) ==
  LET s == peek(b)
      at == {i \in 1 .. Len(s) - 1 : s[i] = "CR" /\ s[i + 1] = "LF"}
  IN  IF at = {} THEN -1 ELSE Min(at) - 1

-----------------------------------------------------------------------------
(* Calls on a buffer.                                                      *)

Becomes(b, d) == inputBuf' = b /\ data' = d /\ failed' = failed
Asserts(fails, b, d) ==
  IF fails THEN failed' = TRUE /\ UNCHANGED <<inputBuf, data>> ELSE Becomes(b, d)

BufferInit == inputBuf = NewBuffer(kInit) /\ data = <<>> /\ failed = FALSE

AppendBytes(s) == Asserts(EnsureFails(inputBuf, Len(s)), append(inputBuf, s), data \o s)

\* The caller knows of the kPre bytes, and that earlier data was retrieved.
Prepend(s) == /\ Len(s) <= prependableBytes(inputBuf)
              /\ Becomes(prepend(inputBuf, s), s \o data)

Retrieve(n) == /\ n <= Len(data)
               /\ Asserts(n > readableBytes(inputBuf), retrieve(inputBuf, n),
                          SubSeq(data, n + 1, Len(data)))

Shrink(reserve) ==
  Asserts(EnsureFails(NewBuffer(kInit), readableBytes(inputBuf) + reserve),
          shrink(inputBuf, reserve), data)

ReadFd(s) == /\ Len(s) <= ReadLimit(inputBuf)
             /\ Asserts(ReadFdFails(inputBuf, s), readFd(inputBuf, s), data \o s)

Chunk == UNION {[1 .. n -> Byte] : n \in 1 .. MaxData}

BufferNext ==
  /\ ~failed
  /\ \/ \E s \in Chunk : /\ Len(data) + Len(s) <= MaxData
                         /\ AppendBytes(s) \/ Prepend(s) \/ ReadFd(s)
     \/ \E n \in 0 .. MaxData : Retrieve(n) \/ Shrink(n)
=============================================================================
