---- MODULE FdQueue ----
(***************************************************************************)
(* FdQueue of io_uring/19_multithread_echo.cpp: the lock-free queue        *)
(* through which the accept thread (the only producer) hands descriptors   *)
(* to one worker thread (the only consumer).  Every access to a shared     *)
(* location is a step of its own, so the two threads interleave between    *)
(* any two of them.                                                        *)
(*                                                                         *)
(* C++ lets an atomic load return any value of the location's modification *)
(* order that is not older than one this thread has already seen.  vhead   *)
(* and vtail are the newest values of head (tail) the producer (consumer)  *)
(* has seen; a load may move them forward by any number of stores, or not  *)
(* at all.  A thread's loads of the index it alone stores are exact.  The  *)
(* release store / acquire load pair makes the slot contents written       *)
(* before a store visible to the thread that has seen the store.           *)
(***************************************************************************)
EXTENDS FdHandover

VARIABLES data,       \* the slots (plain ints, written by one thread at a time)
          head,       \* atomic: next slot to pop, stored by the consumer
          tail,       \* atomic: next slot to fill, stored by the producer
          vhead,      \* newest head the producer has seen
          vtail,      \* newest tail the consumer has seen
          ppc, t, pfd,    \* producer: where it is in push, its locals t and fd
          cpc, h, cfd,    \* consumer: where it is in pop, its locals h and fd
          got         \* fd of the last pop that returned true

qvars == <<data, head, tail, vhead, vtail, ppc, t, pfd, cpc, h, cfd, got>>

producer == <<vhead, ppc, t, pfd>>
consumer == <<vtail, cpc, h, cfd, got>>

Slots == 0 .. CAPACITY - 1

\* The slot k places after i, and how many places j is after i.
Slot(i, k) == (i + k) % CAPACITY
Dist(i, j) == (j - i + CAPACITY) % CAPACITY

QueueInit == /\ data = [i \in Slots |-> 0]
        /\ head = 0 /\ tail = 0
        /\ vhead = 0 /\ vtail = 0
        /\ ppc = "idle" /\ t = 0 /\ pfd = 0
        /\ cpc = "idle" /\ h = 0 /\ cfd = 0
        /\ got = 0

----
\* push(fd): tail is the producer's own index, a relaxed load is exact.
PushLoadTail(fd) ==
  /\ ppc = "idle"
  /\ pfd' = fd
  /\ t' = tail
  /\ ppc' = "check"
  /\ UNCHANGED <<data, head, tail, vhead, consumer>>

\* Mutant: the full test is dropped.
PushNeverFull(seen) == FALSE

\* next == head.load(acquire): the queue looks full.
PushFull(seen) == Slot(t, 1) = seen

PushLoadHead ==
  /\ ppc = "check"
  /\ \E k \in 0 .. Dist(vhead, head) : vhead' = Slot(vhead, k)
  /\ ppc' = IF PushFull(vhead') THEN "idle" ELSE "write"
  /\ UNCHANGED <<data, head, tail, t, pfd, consumer>>

PushWrite ==
  /\ ppc = "write"
  /\ data' = [data EXCEPT ![t] = pfd]
  /\ ppc' = "store"
  /\ UNCHANGED <<head, tail, vhead, t, pfd, consumer>>

PushStoreTail ==
  /\ ppc = "store"
  /\ tail' = Slot(t, 1)
  /\ ppc' = "idle"
  /\ UNCHANGED <<data, head, vhead, t, pfd, consumer>>

----
\* pop(fd): head is the consumer's own index.
PopLoadHead ==
  /\ cpc = "idle"
  /\ h' = head
  /\ cpc' = "check"
  /\ UNCHANGED <<data, head, tail, producer, vtail, cfd, got>>

\* Mutant: the empty test looks one slot too far.
PopEmptyOffByOne(seen) == Slot(h, 1) = seen

\* h == tail.load(acquire): the queue looks empty.
PopEmpty(seen) == h = seen

PopLoadTail ==
  /\ cpc = "check"
  /\ \E k \in 0 .. Dist(vtail, tail) : vtail' = Slot(vtail, k)
  /\ cpc' = IF PopEmpty(vtail') THEN "idle" ELSE "read"
  /\ UNCHANGED <<data, head, tail, producer, h, cfd, got>>

PopRead ==
  /\ cpc = "read"
  /\ cfd' = data[h]
  /\ cpc' = "store"
  /\ UNCHANGED <<data, head, tail, producer, vtail, h, got>>

PopStoreHead ==
  /\ cpc = "store"
  /\ head' = Slot(h, 1)
  /\ got' = cfd
  /\ cpc' = "idle"
  /\ UNCHANGED <<data, tail, producer, vtail, h, cfd>>

Push == \/ \E fd \in Fds : PushLoadTail(fd)
        \/ PushLoadHead
        \/ PushWrite
        \/ PushStoreTail

Pop == PopLoadHead \/ PopLoadTail \/ PopRead \/ PopStoreHead

QueueNext == Push \/ Pop

QueueSpec == QueueInit /\ [][QueueNext]_qvars

----
QueueTypeOK ==
  /\ data \in [Slots -> Fds \cup {0}]
  /\ head \in Slots /\ tail \in Slots
  /\ vhead \in Slots /\ vtail \in Slots
  /\ t \in Slots /\ h \in Slots
  /\ pfd \in Fds \cup {0} /\ cfd \in Fds \cup {0} /\ got \in Fds \cup {0}
  /\ ppc \in {"idle", "check", "write", "store"}
  /\ cpc \in {"idle", "check", "read", "store"}

\* The slots hold plain ints: the producer never writes one (data[t] = fd)
\* while the consumer may be reading it (fd = data[h]), so the program has
\* no data race on them however stale the indices the threads compare are.
NoSlotRace == ~(ppc = "write" /\ cpc = "read" /\ t = h)

\* Where the threads stand, going round the array from the oldest head the
\* producer may still believe in: vhead, head, vtail, tail.
IndexOrder == /\ Dist(vhead, head) <= Dist(vhead, vtail)
              /\ Dist(vhead, vtail) <= Dist(vhead, tail)

\* What the locals of push and pop say of the shared state until the call
\* returns.
PushLocals == /\ ppc # "idle" => t = tail
              /\ ppc \in {"write", "store"} => Slot(tail, 1) # vhead
              /\ ppc # "idle" => pfd \in Fds
              /\ ppc = "store" => data[tail] = pfd
PopLocals == /\ cpc # "idle" => h = head
             /\ cpc \in {"read", "store"} => head # vtail
             /\ cpc = "store" => cfd = data[head]

QueueInv == QueueTypeOK /\ IndexOrder /\ PushLocals /\ PopLocals

----
\* The n slots from slot a on, and the descriptors between head and tail,
\* oldest first.
Segment(d, a, n) == [i \in 1 .. n |-> d[Slot(a, i - 1)]]
Contents == Segment(data, head, Dist(head, tail))

Channel == INSTANCE FdChannel WITH Room <- CAPACITY - 1, q <- Contents

\* The queue is a FIFO channel of CAPACITY - 1 places: whatever the
\* interleaving of push and pop and however late the stores become visible,
\* every descriptor pushed is popped at most once, in order, unchanged.
ImplementsChannel == Channel!Spec
====
