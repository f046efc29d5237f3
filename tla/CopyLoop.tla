---- MODULE CopyLoop ----
(***************************************************************************)
(* The file copies of io_uring/:                                           *)
(*   03  reads a block, writes it, reads the next;                         *)
(*   04  submits both as a linked pair, which the kernel cuts when the     *)
(*       read is short or fails;                                           *)
(*   05, 06  write one of two buffers while the other is read into (06     *)
(*       with registered buffers, which changes how the kernel finds them  *)
(*       and nothing else).                                                *)
(*                                                                         *)
(* Byte k of the source is the number k.  A transfer takes what is in its  *)
(* buffer, or puts data there, when the kernel completes it, so a buffer   *)
(* used for two things at once shows in the destination.  Any transfer may *)
(* fail or be short; the source keeps its size.                            *)
(***************************************************************************)
EXTENDS Integers, Sequences

CONSTANTS CopySamples,   \* the programs
          BlockSize,     \* BUF_SIZE
          MaxFileSize    \* bound: the size of the source
Pipelined == {"pipeline_copy", "fixed_buffers"}
ASSUME CopyAssumption == /\ CopySamples \subseteq {"file_copy", "linked_copy"} \cup Pipelined
                         /\ BlockSize \in Nat \ {0} /\ MaxFileSize \in Nat

VARIABLES
  copier, file_size,      \* the program, and the size of its source
  turn,                   \* the next step
  read_off, write_off,    \* where the next read and the next write go
  cur, bytes_read,        \* the buffer being read into; what the last read gave
  to_reap,                \* completions this round still waits for
  bufs, dst,              \* the two buffers; the destination
  transfers, completed,   \* operations under way; completions not yet reaped
  short_read, short_write,\* history: a transfer that was not the end of the
                          \* file did less than it was asked for
  copy_exit               \* "none", or the exit code

position == <<read_off, write_off, cur, bytes_read, to_reap>>
kernel == <<bufs, dst, transfers, completed, short_read, short_write>>
cvars == <<copier, file_size, turn, position, kernel, copy_exit>>

CopyStart ==
  /\ read_off = 0 /\ write_off = 0 /\ cur = 0 /\ bytes_read = 0 /\ to_reap = 0
  /\ bufs = [b \in 0 .. 1 |-> [k \in 1 .. BlockSize |-> 0]] /\ dst = << >>
  /\ transfers = {} /\ completed = << >>
  /\ short_read = FALSE /\ short_write = FALSE
CopyInit ==
  /\ copier \in CopySamples /\ file_size \in 0 .. MaxFileSize
  /\ turn = "open" /\ copy_exit = "none" /\ CopyStart

----
Min2(a, b) == IF a < b THEN a ELSE b
Chunk(off) == Min2(file_size - off, BlockSize)
ReadDone == read_off >= file_size

\* Mutant: the pipeline goes on with the buffer it is writing from.
SameBuffer == cur
\* cur ^= 1
OtherBuffer == 1 - cur

ReadOp(b, len, off) == [op |-> "read", buf |-> b, len |-> len, off |-> off, linked |-> FALSE]
WriteOp(b, len, off) == [op |-> "write", buf |-> b, len |-> len, off |-> off, linked |-> FALSE]

CopyAt(t) == copy_exit = "none" /\ turn = t
Proceed(t) == turn' = t /\ UNCHANGED <<copier, file_size, copy_exit>>
CopyEnds(code) == copy_exit' = code /\ UNCHANGED <<copier, file_size, turn>>
Submit(ops) ==
  /\ transfers' = transfers \cup ops
  /\ UNCHANGED <<bufs, dst, completed, short_read, short_write>>

\* The completion ring.wait returns, once there is one.
Arrived == IF completed = << >> THEN {} ELSE {Head(completed)}

\* ring.wait and ring.seen; a negative result is thrown.
Reap(c) ==
  /\ c \in Arrived
  /\ completed' = Tail(completed)
  /\ UNCHANGED <<bufs, dst, transfers, short_read, short_write>>
ReapFails == /\ copy_exit = "none" /\ turn # "open"
             /\ \E c \in Arrived : c.res < 0 /\ Reap(c)
             /\ CopyEnds("1") /\ UNCHANGED position

\* Both files are opened, fstat, the ring, and 06's registration.
OpenFiles ==
  /\ CopyAt("open") /\ UNCHANGED <<position, kernel>>
  /\ \/ CopyEnds("1")
     \/ Proceed(IF copier \in Pipelined THEN "first" ELSE "read")

\* 03: a whole block is asked for, and the file ends where a read gives nothing.
ReadBlock ==
  /\ CopyAt("read") /\ copier = "file_copy"
  /\ Submit({ReadOp(0, BlockSize, read_off)})
  /\ Proceed("got") /\ UNCHANGED position
WriteBlock ==
  /\ CopyAt("got") /\ copier = "file_copy"
  /\ \E c \in Arrived :
       /\ c.res >= 0
       /\ completed' = Tail(completed)
       /\ bytes_read' = c.res
       /\ IF c.res = 0 THEN CopyEnds("0") /\ transfers' = transfers
          ELSE transfers' = transfers \cup {WriteOp(0, c.res, read_off)} /\ Proceed("put")
  /\ UNCHANGED <<read_off, write_off, cur, to_reap, bufs, dst, short_read, short_write>>
BlockWritten ==
  /\ CopyAt("put") /\ copier = "file_copy"
  /\ \E c \in Arrived : c.res >= 0 /\ Reap(c)
  /\ read_off' = read_off + bytes_read
  /\ Proceed("read") /\ UNCHANGED <<write_off, cur, bytes_read, to_reap>>

\* 04: one submit for the pair; both are asked for exactly a chunk.
SubmitPair ==
  /\ CopyAt("read") /\ copier = "linked_copy"
  /\ IF ReadDone THEN CopyEnds("0") /\ UNCHANGED <<kernel, to_reap>>
     ELSE /\ Submit({ReadOp(0, Chunk(read_off), read_off),
                     [WriteOp(0, Chunk(read_off), read_off) EXCEPT !.linked = TRUE]})
          /\ to_reap' = 2 /\ Proceed("pair")
  /\ UNCHANGED <<read_off, write_off, cur, bytes_read>>
ReapPair ==
  /\ CopyAt("pair")
  /\ \E c \in Arrived : c.res >= 0 /\ Reap(c)
  /\ to_reap' = to_reap - 1
  /\ IF to_reap = 1 THEN read_off' = read_off + Chunk(read_off) /\ Proceed("read")
     ELSE read_off' = read_off /\ Proceed("pair")
  /\ UNCHANGED <<write_off, cur, bytes_read>>

\* 05, 06: the first read, alone.
FirstRead ==
  /\ CopyAt("first")
  /\ Submit({ReadOp(cur, Chunk(0), 0)})
  /\ read_off' = Chunk(0) /\ to_reap' = 1
  /\ Proceed("reap") /\ UNCHANGED <<write_off, cur, bytes_read>>

\* One read and, but for the first round, one write complete in any order;
\* the tag says which is which.
ReapRound ==
  /\ CopyAt("reap") /\ to_reap > 0
  /\ \E c \in Arrived :
       /\ c.res >= 0 /\ Reap(c)
       /\ bytes_read' = IF c.op = "read" THEN c.res ELSE bytes_read
  /\ to_reap' = to_reap - 1
  /\ Proceed("reap") /\ UNCHANGED <<read_off, write_off, cur>>

\* Write what was read, read the next chunk (if any) into the other buffer.
NextRound ==
  /\ CopyAt("reap") /\ to_reap = 0
  /\ IF bytes_read = 0
     THEN CopyEnds("0") /\ UNCHANGED <<position, kernel>>
     ELSE /\ cur' = OtherBuffer
          /\ Submit({WriteOp(cur, bytes_read, write_off)}
                    \cup {ReadOp(OtherBuffer, Chunk(off), off) : off \in {read_off} \cap 0 .. file_size - 1})
          /\ read_off' = IF ReadDone THEN read_off ELSE read_off + Chunk(read_off)
          /\ write_off' = write_off + bytes_read
          /\ bytes_read' = 0
          /\ to_reap' = IF ReadDone THEN 1 ELSE 2
          /\ Proceed(IF ReadDone THEN "drain" ELSE "reap")
\* No more reads: the last write.
DrainLast ==
  /\ CopyAt("drain")
  /\ \E c \in Arrived : c.res >= 0 /\ Reap(c)
  /\ CopyEnds("0") /\ UNCHANGED position

----
\* pread and pwrite.
Overwrite(f, off, bytes) ==
  [k \in 1 .. (IF off + Len(bytes) > Len(f) THEN off + Len(bytes) ELSE Len(f)) |->
     IF k > off /\ k <= off + Len(bytes) THEN bytes[k - off]
     ELSE IF k <= Len(f) THEN f[k] ELSE 0]
SourceBytes(off, n) == [k \in 1 .. n |-> off + k]
Linked == {o \in transfers : o.linked}

\* A linked write is started by a complete read, and cancelled by any other.
CompleteRead(o) ==
  LET left == IF file_size > o.off THEN Min2(o.len, file_size - o.off) ELSE 0
  IN  \E res \in {-1} \cup (IF left = 0 THEN {0} ELSE 1 .. left) :
        /\ bufs' = [bufs EXCEPT ![o.buf] =
                      IF res > 0 THEN Overwrite(@, 0, SourceBytes(o.off, res)) ELSE @]
        /\ short_read' = (short_read \/ (res >= 0 /\ res < left))
        /\ IF res = o.len
           THEN /\ transfers' = (transfers \ ({o} \cup Linked))
                                \cup {[w EXCEPT !.linked = FALSE] : w \in Linked}
                /\ completed' = Append(completed, [op |-> "read", res |-> res])
           ELSE /\ transfers' = transfers \ ({o} \cup Linked)
                /\ completed' = Append(completed, [op |-> "read", res |-> res])
                                \o (IF Linked = {} THEN << >> ELSE <<[op |-> "write", res |-> -1]>>)
        /\ UNCHANGED <<dst, short_write>>
CompleteWrite(o) ==
  /\ ~o.linked
  /\ \E res \in {-1} \cup 1 .. o.len :
       /\ dst' = IF res > 0 THEN Overwrite(dst, o.off, SubSeq(bufs[o.buf], 1, res)) ELSE dst
       /\ short_write' = (short_write \/ (res >= 0 /\ res < o.len))
       /\ completed' = Append(completed, [op |-> "write", res |-> res])
  /\ transfers' = transfers \ {o}
  /\ UNCHANGED <<bufs, short_read>>
CompleteTransfer ==
  /\ copy_exit = "none"
  /\ \E o \in transfers : IF o.op = "read" THEN CompleteRead(o) ELSE CompleteWrite(o)
  /\ UNCHANGED <<copier, file_size, turn, position, copy_exit>>

CopyRun == \/ OpenFiles \/ ReapFails \/ ReadBlock \/ WriteBlock \/ BlockWritten
           \/ SubmitPair \/ ReapPair \/ FirstRead \/ ReapRound \/ NextRound \/ DrainLast
CopyNext == CopyRun \/ CompleteTransfer
CopySpec == CopyInit /\ [][CopyNext]_cvars /\ WF_cvars(CopyRun) /\ WF_cvars(CompleteTransfer)
CopyEnded == copy_exit # "none"

----
CopyTypeOK ==
  /\ copier \in {"file_copy", "linked_copy"} \cup Pipelined /\ file_size \in 0 .. MaxFileSize
  /\ turn \in {"open", "read", "got", "put", "pair", "first", "reap", "drain"}
  /\ {read_off, write_off} \subseteq 0 .. MaxFileSize
  /\ cur \in 0 .. 1 /\ bytes_read \in 0 .. BlockSize /\ to_reap \in 0 .. 2
  /\ \A b \in 0 .. 1 : bufs[b] \in [1 .. BlockSize -> 0 .. MaxFileSize]
  /\ copy_exit \in {"none", "0", "1"}

\* A copy that reports success is one: the destination is the source and no
\* transfer is left under way on the buffers that now go.  What the programs do
\* not look at are short writes and, where the next read does not depend on the
\* last (05, 06), short reads; 03 goes on after a short read where it ended, and
\* in 04 the kernel cuts the pair, which is an error.
CopiedOrTold ==
  /\ CopyTypeOK
  /\ copy_exit = "0" =>
       /\ transfers = {} /\ completed = << >>
       /\ \/ dst = SourceBytes(0, file_size)
          \/ short_write
          \/ short_read /\ copier \in Pipelined
====
