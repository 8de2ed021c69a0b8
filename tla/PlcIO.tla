------------------------------- MODULE PlcIO -------------------------------
(***************************************************************************)
(* The bytes between nanoMODBUS and the PLC: read_fd_linux and             *)
(* write_fd_linux of platform.h, one turn of their loops at a time, while  *)
(* the PLC sends, stays silent or closes.                                  *)
(*                                                                         *)
(* The k-th byte the PLC sends is <<0, k>>, byte j of the k-th frame       *)
(* written to it is <<k, j>>, and <<0, 0>> is any other byte of memory.    *)
(***************************************************************************)
EXTENDS Integers, Sequences

CONSTANTS Counts,             \* the counts nanoMODBUS asks for
          UINT16_MAX,         \* the largest of the counters
          MaxSent, MaxFrames, \* bounds: bytes from the PLC, frames to it
          ShortWrites         \* write may take a part of what it is given

ASSUME PlcIOAssumption ==
  UINT16_MAX \in Nat /\ Counts \subseteq 0 .. UINT16_MAX /\ MaxSent \in Nat /\ MaxFrames \in Nat /\ ShortWrites \in BOOLEAN

VARIABLES peer,               \* "up", or "closed" by the PLC
          open,               \* fd has not been closed
          nsent, rx,          \* the bytes the PLC has sent: how many, and those in the socket
          call,               \* the call in progress
          buf, total,         \* its buffer and counter
          got, failed,        \* the bytes read calls have reported; a call has failed
          nframes, tx, wrote  \* frames tried, bytes the PLC got, bytes reported as written

plcEnd == <<peer, nsent>>
caller == <<got, failed, wrote>>
ioVars == <<plcEnd, open, rx, call, buf, total, caller, nframes, tx>>

NoCall == [op |-> "none", count |-> 0, timed |-> TRUE]
Byte(k, n) == [j \in 1 .. n |-> <<k, j>>]

IOInit ==
  /\ peer = "up" /\ open = 1 /\ nsent = 0 /\ rx = <<>>
  /\ call = NoCall /\ buf = <<>> /\ total = 0
  /\ got = <<>> /\ failed = 0 /\ wrote = <<>>
  /\ nframes = 0 /\ tx = <<>>

PlcSends ==
  /\ peer = "up" /\ nsent < MaxSent
  /\ nsent' = nsent + 1 /\ rx' = Append(rx, <<0, nsent + 1>>)
  /\ UNCHANGED <<peer, open, call, buf, total, caller, nframes, tx>>

PlcCloses ==
  /\ peer = "up" /\ peer' = "closed"
  /\ UNCHANGED <<nsent, open, rx, call, buf, total, caller, nframes, tx>>

-----------------------------------------------------------------------------
\* nanoMODBUS calls read_fd_linux or write_fd_linux; timeout_ms < 0 is no limit.
Call(op, count, timed) ==
  /\ call = NoCall /\ open = 1
  /\ op = "write" => nframes < MaxFrames
  /\ call' = [op |-> op, count |-> count, timed |-> timed]
  /\ nframes' = IF op = "write" THEN nframes + 1 ELSE nframes
  /\ buf' = IF op = "write" THEN Byte(nframes', count) ELSE [i \in 1 .. count |-> <<0, 0>>]
  /\ total' = 0
  /\ UNCHANGED <<plcEnd, open, rx, caller, tx>>

\* The loop is not over.
In(op) == call.op = op /\ total # call.count

\* It counts from one.
CountedFromOne(n) == total' = (total + n + (IF total = 0 THEN 1 ELSE 0)) % (UINT16_MAX + 1)

\* uint16_t total
Counted(n) == total' = (total + n) % (UINT16_MAX + 1)

\* The call returns r: what its caller makes of it.
Return(r) ==
  /\ call' = NoCall
  /\ got' = IF call.op = "read" /\ r > 0 THEN got \o SubSeq(buf, 1, r) ELSE got
  /\ wrote' = IF call.op = "write" /\ r = call.count THEN wrote \o buf ELSE wrote
  /\ failed' = IF r < 0 THEN 1 ELSE failed
  /\ UNCHANGED <<plcEnd, rx, buf, total, nframes, tx>>

\* As write_fd_linux, it reports nothing.
ReadTimeoutZero ==
  In("read") /\ call.timed /\ rx = <<>> /\ peer = "up" /\ Return(0) /\ UNCHANGED open

\* select returns 0: the bytes read so far are reported.
ReadTimeout ==
  In("read") /\ call.timed /\ rx = <<>> /\ peer = "up" /\ Return(total) /\ UNCHANGED open

\* read(fd, buf + total, 1) gives a byte.
ReadByte ==
  /\ In("read") /\ rx # <<>>
  /\ buf' = [buf EXCEPT ![total + 1] = Head(rx)] /\ Counted(1) /\ rx' = Tail(rx)
  /\ UNCHANGED <<plcEnd, open, call, caller, nframes, tx>>

\* read gives 0: disconnect closes fd.
ReadEnd == In("read") /\ rx = <<>> /\ peer = "closed" /\ Return(-1) /\ open' = 0

\* The time is also looked at when the frame has gone out.
WriteTimeoutAfter == call.op = "write" /\ call.timed /\ Return(0) /\ UNCHANGED open

\* select returns 0.
WriteTimeout == In("write") /\ call.timed /\ Return(0) /\ UNCHANGED open

\* What write takes of the count bytes it is given.
Taken == IF ShortWrites THEN 1 .. call.count ELSE {call.count}

\* write(fd, buf + total, count), also of bytes that lie behind the frame.
WriteBytes ==
  /\ In("write")
  /\ \E w \in Taken :
       /\ tx' = tx \o [i \in 1 .. w |-> IF total + i \in DOMAIN buf THEN buf[total + i] ELSE <<0, 0>>]
       /\ Counted(w)
  /\ UNCHANGED <<plcEnd, open, rx, call, buf, caller, nframes>>

\* select, read or write fails on a connection that is gone; fd stays open.
IoFails == (In("read") \/ In("write")) /\ peer = "closed" /\ Return(-1) /\ UNCHANGED open

\* One turn too many.
LoopEndsLate == call # NoCall /\ total > call.count /\ Return(total) /\ UNCHANGED open

LoopEnds == call # NoCall /\ total = call.count /\ Return(total) /\ UNCHANGED open

Turn == ReadTimeout \/ ReadByte \/ ReadEnd \/ WriteTimeout \/ WriteBytes \/ IoFails \/ LoopEnds

IONext ==
  \/ PlcSends \/ PlcCloses \/ Turn
  \/ \E op \in {"read", "write"}, count \in Counts, timed \in BOOLEAN : Call(op, count, timed)

IOSpec == IOInit /\ [][IONext]_ioVars

\* The thread goes on, and select returns when its time is over.
IOFairSpec == IOSpec /\ WF_ioVars(Turn)

-----------------------------------------------------------------------------
\* The calls' counters and buffers are those of their arguments.
IOTypeOK ==
  /\ peer \in {"up", "closed"} /\ open \in 0 .. 1 /\ nsent \in 0 .. MaxSent
  /\ call \in [op : {"none", "read", "write"}, count : Counts \cup {0}, timed : BOOLEAN]
  /\ Len(buf) \in Counts \cup {0} /\ total \in 0 .. Len(buf)
  /\ failed \in 0 .. 1 /\ nframes \in 0 .. MaxFrames

\* However the PLC's bytes are spread over read calls and whichever calls run
\* into their timeout, the calls report every byte once and in order, as long
\* as none fails: a timeout in the middle of a frame loses nothing.
StreamKept ==
  failed = 0 => got \o (IF call.op = "read" THEN SubSeq(buf, 1, total) ELSE <<>>) \o rx = Byte(0, nsent)

\* Between calls the PLC has got just the frames reported as written: after a
\* timeout or a failure nothing of the frame has gone out, so that trying it
\* again sends it once.
FramesWhole == call = NoCall => tx = wrote

\* A call with a time limit ends, whatever the PLC does.
CallEnds == call.op # "none" /\ call.timed ~> call = NoCall
=============================================================================
