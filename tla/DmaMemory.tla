---- MODULE DmaMemory ----
(***************************************************************************)
(* The memory a sample shares with its device: where compute_vring_layout, *)
(* the three compute_dma_layout and the two layouts with a control queue   *)
(* put the virtqueues, the packet buffers and the control command in one   *)
(* mapping.                                                                *)
(*                                                                         *)
(* size_t has the values 0 .. SizeMax.  The sizes come from the command    *)
(* line as they are written there, so every sum can be too large; most are *)
(* checked, and a few the code adds as they are (Wrapped).                 *)
(***************************************************************************)
EXTENDS Integers, Sequences

CONSTANTS SizeMax,        \* largest size_t
          PageSize,       \* _SC_PAGESIZE
          QueueSizes, Alignments, BufferCounts, BufferSizes, ExtraSizes
                          \* bounds: what may be asked for

\* Queue sizes have 16 bits.
PowersOfTwo == {2 ^ k : k \in 0 .. 15}

\* A page divides the 2^w values of size_t.  The largest virtqueue without its used ring's
\* alignment is a small part of them (26 * 2^16 bytes of 2^64), and a page too.
ASSUME SizeAssumption ==
  /\ SizeMax \in Nat /\ SizeMax >= 255
  /\ PageSize \in Nat \ {0} /\ 4 * PageSize <= SizeMax /\ (SizeMax + 1) % PageSize = 0
  /\ \A q \in QueueSizes : q \in Nat /\ 26 * q + 12 <= SizeMax \div 2
\* main has checked the alignment: a power of two that size_t holds.
ASSUME AlignAssumption ==
  \A align \in Alignments : align \in 4 .. SizeMax /\ (SizeMax + 1) % align = 0
ASSUME BufferAssumption == BufferCounts \cup BufferSizes \cup ExtraSizes \subseteq 0 .. SizeMax

VARIABLES request, layout
mvars == <<request, layout>>

\* Commands carry 1, 6 or 14 bytes: with header and ack, much less than a page.
CommandSizes == {n \in ExtraSizes : n > 0 /\ n + 3 <= PageSize}

\* kind: "vring" (15 to 20), "rx" (21, 22), "packet" (23, 24), "tx_buffers"
\* (25, 26), "control" (27 to 30); extra_size is the packet or the command data.
Requests ==
  [kind : {"vring", "rx"}, rx : QueueSizes, tx : QueueSizes, align : Alignments,
   buffers : BufferCounts, buffer_size : BufferSizes, tx_buffers : {0}, extra_size : {0}]
  \cup
  [kind : {"packet"}, rx : QueueSizes, tx : {2}, align : Alignments,
   buffers : BufferCounts, buffer_size : BufferSizes, tx_buffers : {0}, extra_size : ExtraSizes]
  \cup
  [kind : {"control"}, rx : QueueSizes, tx : {2}, align : Alignments,
   buffers : BufferCounts, buffer_size : BufferSizes, tx_buffers : {0}, extra_size : CommandSizes]
  \cup
  [kind : {"tx_buffers"}, rx : {2}, tx : QueueSizes, align : Alignments,
   buffers : BufferCounts, buffer_size : BufferSizes, tx_buffers : BufferCounts, extra_size : {0}]

NoLayout == [starts |-> << >>, sizes |-> << >>, total |-> 0, result |-> "none"]
MemoryInit == request \in Requests /\ layout = NoLayout

----
\* An exception, as a value that spreads.
Thrown == SizeMax + 1
Wrapped(n) == n % (SizeMax + 1)

\* align_up: the addition is checked, and the mask rounds down.
AlignUp(value, align) ==
  IF value = Thrown \/ value > SizeMax - (align - 1) THEN Thrown
  ELSE ((value + align - 1) \div align) * align
RoundUpToPage(size) == AlignUp(size, PageSize)

CheckedAdd(a, b) == IF a = Thrown \/ b = Thrown \/ a > SizeMax - b THEN Thrown ELSE a + b

\* Mutant: the product is not checked.
MulWraps(a, b) == Wrapped(a * b)

CheckedMul(a, b) == IF a # 0 /\ b > SizeMax \div a THEN Thrown ELSE a * b

\* compute_vring_layout: descriptors, available ring, aligned used ring.
UsedOffset(q, align) == AlignUp(16 * q + 2 * (3 + q), align)
VringSize(q, align) ==
  IF UsedOffset(q, align) = Thrown THEN Thrown
  ELSE Wrapped(UsedOffset(q, align) + 2 * 3 + 8 * q)

CtrlHdr == 2
CtrlAck == 1

\* Bound: the control queue has the smallest size that is accepted.
CtrlQueueSize == 4

\* What one after the other lies in the mapping.  "vring" has one queue.
AreaSizes(r) ==
  LET queue(n) == VringSize(n, r.align)
      rx_buffers == CheckedMul(r.buffers, r.buffer_size)
      pair == <<queue(r.rx), queue(r.tx)>>
  IN  CASE r.kind = "vring"      -> <<queue(r.rx)>>
        [] r.kind = "rx"         -> pair \o <<rx_buffers>>
        [] r.kind = "packet"     -> pair \o <<rx_buffers, r.extra_size>>
        [] r.kind = "tx_buffers" -> pair \o <<rx_buffers, CheckedMul(r.tx_buffers, r.buffer_size)>>
        [] r.kind = "control"    -> pair \o <<queue(CtrlQueueSize), rx_buffers,
                                              CtrlHdr + r.extra_size + CtrlAck>>

\* The end of area k that starts at start; in the command area only the last
\* byte is added with a check.
AreaEnd(r, k, start) ==
  IF start = Thrown THEN Thrown
  ELSE IF r.kind = "control" /\ k = 5
  THEN CheckedAdd(Wrapped(start + CtrlHdr + r.extra_size), CtrlAck)
  ELSE CheckedAdd(start, AreaSizes(r)[k])

\* Every area begins on the page after the one before; the last start is the
\* size of the mapping.
Starts(r) ==
  LET start[k \in 1 .. Len(AreaSizes(r)) + 1] ==
        IF k = 1 THEN 0 ELSE RoundUpToPage(AreaEnd(r, k - 1, start[k - 1]))
  IN  start

\* What is checked before anything is laid out.
Acceptable(r) ==
  /\ r.rx \in PowersOfTwo
  /\ r.kind # "vring" =>
       r.tx \in PowersOfTwo /\ r.buffers \in 1 .. r.rx /\ r.buffer_size > 0
  /\ r.kind = "tx_buffers" => r.tx_buffers \in 1 .. r.tx
  /\ r.kind \in {"packet", "control"} => r.extra_size > 0

ComputeLayout ==
  /\ layout = NoLayout
  /\ LET sizes == AreaSizes(request)
         starts == Starts(request)
     IN  layout' = IF Acceptable(request) /\ starts[Len(sizes) + 1] # Thrown
                   THEN [starts |-> [k \in DOMAIN sizes |-> starts[k]], sizes |-> sizes,
                         total |-> starts[Len(sizes) + 1], result |-> "laid_out"]
                   ELSE [NoLayout EXCEPT !.result = "thrown"]
  /\ UNCHANGED request
MemorySpec == MemoryInit /\ [][ComputeLayout]_mvars
MemoryEnded == layout # NoLayout

----
MemoryTypeOK == request \in Requests /\ layout.total \in 0 .. SizeMax

\* The same memory in numbers without a largest one.
Up(n, align) == IF n % align = 0 THEN n ELSE n - (n % align) + align
ExactQueue(q, align) == Up(18 * q + 6, align) + 8 * q + 6
ExactSizes(r) ==
  LET pair == <<ExactQueue(r.rx, r.align), ExactQueue(r.tx, r.align), r.buffers * r.buffer_size>>
  IN  CASE r.kind = "vring"      -> <<pair[1]>>
        [] r.kind = "rx"         -> pair
        [] r.kind = "packet"     -> Append(pair, r.extra_size)
        [] r.kind = "tx_buffers" -> Append(pair, r.tx_buffers * r.buffer_size)
        [] r.kind = "control"    -> <<pair[1], pair[2], ExactQueue(CtrlQueueSize, r.align),
                                      pair[3], r.extra_size + 3>>
ExactTotal(r) ==
  LET sum[k \in 0 .. Len(ExactSizes(r))] ==
        IF k = 0 THEN 0 ELSE sum[k - 1] + Up(ExactSizes(r)[k], PageSize)
  IN  sum[Len(ExactSizes(r))]

\* A layout is refused exactly when it does not fit size_t; otherwise all areas lie in
\* the mapping, none over another, each on a page of its own, and every used ring
\* where its alignment, up to a page, puts it.
AreasApart ==
  MemoryEnded =>
    /\ layout.result = "laid_out" <=> Acceptable(request) /\ ExactTotal(request) <= SizeMax
    /\ layout.result = "laid_out" =>
         /\ layout.sizes = ExactSizes(request) /\ layout.total = ExactTotal(request)
         /\ \A k \in DOMAIN layout.sizes :
              /\ layout.starts[k] % PageSize = 0
              /\ layout.starts[k] + layout.sizes[k] <= layout.total
              /\ \A j \in DOMAIN layout.sizes :
                   j < k => layout.starts[j] + layout.sizes[j] <= layout.starts[k]
MemoryLaidOut == MemoryTypeOK /\ AreasApart
====
