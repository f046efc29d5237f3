---- MODULE MultithreadEchoProofs ----
(***************************************************************************)
(* Proofs about io_uring/19_multithread_echo.cpp, for any number of        *)
(* workers, descriptors, queue places and ring entries.  First the program *)
(* (MultithreadEcho): no wakeup is lost between the accept thread and a    *)
(* worker, and a descriptor has one holder.  Then the queue between its    *)
(* threads (FdQueue): its inductive invariant, the absence of data races   *)
(* on the slots, and the implementation of the FIFO channel.               *)
(***************************************************************************)
EXTENDS MultithreadEcho, FdQueue, FiniteSetTheorems, TLAPS

\* The round-robin counter always designates a worker.
LEMMA TargetIsWorker == ASSUME NEW n \in Nat PROVE n % NumWorkers \in Workers
  BY NumWorkersAssumption DEF Workers

\* Every worker starts with its poll queued and an empty descriptor queue.
LEMMA InitWakeupInv == Init => WakeupInv
<1> SUFFICES ASSUME Init PROVE WakeupInv
  OBVIOUS
<1>1. TypeOK
  <2>1. NEW_CONN_TAG \in Ops /\ afd \in Ops /\ << >> \in Seq(Fds)
    BY DEF Init, Ops, NEW_CONN_TAG
  <2>2. {NEW_CONN_TAG} \in SUBSET Ops /\ {} \in SUBSET Ops
    BY <2>1
  <2> QED
    BY <2>1, <2>2 DEF Init, TypeOK
<1>2. BatchConsumed /\ PollOnItsWay /\ NoLostWakeup
  BY DEF Init, BatchConsumed, PollOnItsWay, NoLostWakeup, PollPending
<1> QED
  BY <1>1, <1>2 DEF WakeupInv

\* get_sqe queues the operation or ends the process.
LEMMA GetSqeType ==
  ASSUME TypeOK, NEW w \in Workers, NEW op \in Ops, GetSqe(w, op)
  PROVE  /\ up' \in BOOLEAN
         /\ sq' \in [Workers -> SUBSET Ops]
         /\ up' => sq' = [sq EXCEPT ![w] = @ \cup {op}]
<1>1. CASE Cardinality(sq[w]) < SqDepth
  <2>1. sq' = [sq EXCEPT ![w] = @ \cup {op}] /\ up' = up
    BY <1>1 DEF GetSqe
  <2>2. up' \in BOOLEAN
    BY <2>1, Zenon DEF TypeOK
  <2>3. sq' \in [Workers -> SUBSET Ops]
    BY <2>1 DEF TypeOK
  <2> QED
    BY <2>1, <2>2, <2>3
<1>2. CASE ~(Cardinality(sq[w]) < SqDepth)
  BY <1>2 DEF GetSqe, TypeOK
<1> QED
  BY <1>1, <1>2

\* Every action keeps every variable in its type.
LEMMA NextTypeOK == TypeOK /\ [Next]_vars => TypeOK'
<1> SUFFICES ASSUME TypeOK, [Next]_vars PROVE TypeOK'
  OBVIOUS
<1> USE DEF TypeOK, rings, acceptor
<1>1. ASSUME NEW fd \in Fds, Accept(fd) PROVE TypeOK'
  BY <1>1 DEF Accept, Ops
<1>2. ASSUME PushFd PROVE TypeOK'
  <2>1. target \in Workers /\ apc = "push"
    BY <1>2, TargetIsWorker DEF target, PushFd
  <2>2. afd \in Fds /\ queue[target] \in Seq(Fds)
    BY <2>1
  <2>3. Append(queue[target], afd) \in Seq(Fds)
    BY <2>2
  <2>4. queue' \in [Workers -> Seq(Fds)]
    BY <1>2, <2>1, <2>2, <2>3 DEF PushFd
  <2> QED
    BY <1>2, <2>2, <2>4 DEF PushFd
<1>3. ASSUME WakeWorker PROVE TypeOK'
  <2>1. (next_worker + 1) % CounterWrap \in Nat
    BY CounterAssumption
  <2> QED
    BY <1>3, <2>1 DEF WakeWorker
<1>4. ASSUME NEW w \in Workers, Submit(w) PROVE TypeOK'
  BY <1>4 DEF Submit
<1>5. ASSUME NEW w \in Workers, Wait(w) PROVE TypeOK'
  BY <1>5 DEF Wait
<1>6. ASSUME NEW w \in Workers, EndBatch(w) PROVE TypeOK'
  BY <1>6 DEF EndBatch
<1>7. ASSUME NEW w \in Workers, NewConnCqe(w) PROVE TypeOK'
  BY <1>7 DEF NewConnCqe
<1>8. ASSUME NEW w \in Workers, ReadEventfd(w) PROVE TypeOK'
  BY <1>8 DEF ReadEventfd
<1>9. ASSUME NEW w \in Workers, DrainOne(w) PROVE TypeOK'
  <2>1. Head(queue[w]) \in Fds /\ Tail(queue[w]) \in Seq(Fds)
    BY <1>9 DEF DrainOne
  <2>2. queue' \in [Workers -> Seq(Fds)] /\ co' \in [Fds -> {"none", "recv", "send"}]
    BY <1>9, <2>1 DEF DrainOne
  <2>3. up' \in BOOLEAN /\ sq' \in [Workers -> SUBSET Ops]
    BY <1>9, <2>1, GetSqeType DEF DrainOne, Ops
  <2> QED
    BY <1>9, <2>2, <2>3 DEF DrainOne, TypeOK
<1>10. ASSUME NEW w \in Workers, DrainEnd(w) PROVE TypeOK'
  BY <1>10, ZenonT(40) DEF DrainEnd, GetSqe, Ops
<1>11. ASSUME NEW w \in Workers, NEW fd \in Fds, ResumeContinue(w, fd) PROVE TypeOK'
  <2>1. up' \in BOOLEAN /\ sq' \in [Workers -> SUBSET Ops]
    BY <1>11, GetSqeType DEF ResumeContinue, Ops
  <2>2. co' \in [Fds -> {"none", "recv", "send"}] /\ batch' \in [Workers -> SUBSET Ops]
    BY <1>11 DEF ResumeContinue
  <2> QED
    BY <1>11, <2>1, <2>2 DEF ResumeContinue
<1>12. ASSUME NEW w \in Workers, NEW fd \in Fds, ResumeClose(w, fd) PROVE TypeOK'
  BY <1>12 DEF ResumeClose
<1>13. ASSUME NEW w \in Workers, PollFires(w) PROVE TypeOK'
  BY <1>13 DEF PollFires, Ops
<1>14. ASSUME NEW w \in Workers, NEW fd \in Fds, OpCompletes(w, fd) PROVE TypeOK'
  BY <1>14 DEF OpCompletes, Ops
<1>15. CASE UNCHANGED vars
  BY <1>15 DEF vars
<1> QED
  BY <1>1, <1>2, <1>3, <1>4, <1>5, <1>6, <1>7, <1>8, <1>9, <1>10, <1>11, <1>12,
     <1>13, <1>14, <1>15 DEF Next, WorkerStep

\* A batch is empty again before the worker submits and waits.
LEMMA NextBatchConsumed ==
  ASSUME TypeOK, BatchConsumed, [Next]_vars
  PROVE  BatchConsumed'
<1> USE DEF rings, acceptor
<1> SUFFICES ASSUME NEW w \in Workers
             PROVE  (wpc[w] \in {"submit", "wait"} => batch[w] = {})'
  BY DEF BatchConsumed
<1>0. wpc[w] \in {"submit", "wait"} => batch[w] = {}
  BY DEF BatchConsumed
<1>1. ASSUME UNCHANGED <<wpc, batch>> PROVE (wpc[w] \in {"submit", "wait"} => batch[w] = {})'
  BY <1>0, <1>1
<1>2. ASSUME NEW x \in Workers, Submit(x) \/ Wait(x) \/ EndBatch(x)
      PROVE  (wpc[w] \in {"submit", "wait"} => batch[w] = {})'
  BY <1>0, <1>2 DEF TypeOK, Submit, Wait, EndBatch
<1>3. ASSUME NEW x \in Workers, NewConnCqe(x) \/ ReadEventfd(x) \/ DrainEnd(x)
      PROVE  (wpc[w] \in {"submit", "wait"} => batch[w] = {})'
  BY <1>0, <1>3 DEF TypeOK, NewConnCqe, ReadEventfd, DrainEnd
<1>4. ASSUME NEW x \in Workers, NEW fd \in Fds, ResumeContinue(x, fd) \/ ResumeClose(x, fd)
      PROVE  (wpc[w] \in {"submit", "wait"} => batch[w] = {})'
  BY <1>0, <1>4 DEF TypeOK, ResumeContinue, ResumeClose
<1>5. ASSUME NEW x \in Workers,
             DrainOne(x) \/ PollFires(x) \/ \E fd \in Fds : OpCompletes(x, fd)
      PROVE  UNCHANGED <<wpc, batch>>
  BY <1>5 DEF DrainOne, PollFires, OpCompletes
<1>6. ASSUME (\E fd \in Fds : Accept(fd)) \/ PushFd \/ WakeWorker \/ UNCHANGED vars
      PROVE  UNCHANGED <<wpc, batch>>
  BY <1>6 DEF Accept, PushFd, WakeWorker, vars
<1> QED
  BY <1>1, <1>2, <1>3, <1>4, <1>5, <1>6 DEF Next, WorkerStep

\* Every step keeps every worker's poll on its way round the ring.
LEMMA NextPollOnItsWay ==
  ASSUME TypeOK, BatchConsumed, PollOnItsWay, [Next]_vars
  PROVE  PollOnItsWay'
<1> USE DEF rings, acceptor
<1> SUFFICES ASSUME up', NEW w \in Workers PROVE Watching(w)' \/ PollPending(w)'
  BY DEF PollOnItsWay
<1>0. CASE UNCHANGED vars
  BY <1>0 DEF vars, PollOnItsWay, Watching, PollPending
<1>u. CASE Next
  <2>0. up /\ (Watching(w) \/ PollPending(w))
    BY <1>u DEF PollOnItsWay, Next, WorkerStep, Accept, PushFd, WakeWorker, Submit,
         Wait, EndBatch, NewConnCqe, ReadEventfd, DrainOne, DrainEnd, ResumeContinue,
         ResumeClose, PollFires, OpCompletes
  <2>1. ASSUME UNCHANGED <<wpc, sq, kernel, cq, batch>>
        PROVE  Watching(w)' \/ PollPending(w)'
    BY <2>0, <2>1 DEF Watching, PollPending
  <2>2. ASSUME NEW x \in Workers, Submit(x) PROVE Watching(w)' \/ PollPending(w)'
    BY <2>0, <2>2 DEF TypeOK, Submit, Watching, PollPending
  <2>3. ASSUME NEW x \in Workers, Wait(x) PROVE Watching(w)' \/ PollPending(w)'
    BY <2>0, <2>3 DEF TypeOK, BatchConsumed, Wait, Watching, PollPending
  <2>4. ASSUME NEW x \in Workers, EndBatch(x) PROVE Watching(w)' \/ PollPending(w)'
    BY <2>0, <2>4 DEF TypeOK, EndBatch, Watching, PollPending
  <2>5. ASSUME NEW x \in Workers, NewConnCqe(x) PROVE Watching(w)' \/ PollPending(w)'
    BY <2>0, <2>5 DEF TypeOK, NewConnCqe, Watching, PollPending
  <2>6. ASSUME NEW x \in Workers, ReadEventfd(x) PROVE Watching(w)' \/ PollPending(w)'
    BY <2>0, <2>6 DEF TypeOK, ReadEventfd, Watching, PollPending
  <2>7. ASSUME NEW x \in Workers, DrainOne(x) PROVE Watching(w)' \/ PollPending(w)'
    BY <2>0, <2>7 DEF TypeOK, DrainOne, GetSqe, Watching, PollPending
  <2>8. ASSUME NEW x \in Workers, DrainEnd(x) PROVE Watching(w)' \/ PollPending(w)'
    BY <2>0, <2>8 DEF TypeOK, DrainEnd, GetSqe, Watching, PollPending
  <2>9. ASSUME NEW x \in Workers, NEW fd \in Fds, ResumeContinue(x, fd) \/ ResumeClose(x, fd)
        PROVE  Watching(w)' \/ PollPending(w)'
    <3>1. fd # NEW_CONN_TAG /\ fd \in Ops
      BY FdsAssumption, TagAssumption DEF NEW_CONN_TAG, Ops
    <3>2. CASE ResumeClose(x, fd)
      BY <2>0, <3>1, <3>2 DEF TypeOK, ResumeClose, Watching, PollPending
    <3>3. CASE ResumeContinue(x, fd)
      <4>1. sq' = [sq EXCEPT ![x] = @ \cup {fd}]
        BY <3>1, <3>3, GetSqeType DEF ResumeContinue
      <4> QED
        BY <2>0, <3>1, <3>3, <4>1 DEF TypeOK, ResumeContinue, Watching, PollPending
    <3> QED
      BY <2>9, <3>2, <3>3
  <2>10. ASSUME NEW x \in Workers, PollFires(x) PROVE Watching(w)' \/ PollPending(w)'
    BY <2>0, <2>10 DEF TypeOK, PollFires, Watching, PollPending
  <2>11. ASSUME NEW x \in Workers, NEW fd \in Fds, OpCompletes(x, fd)
         PROVE  Watching(w)' \/ PollPending(w)'
    BY <2>0, <2>11, FdsAssumption, TagAssumption
       DEF TypeOK, OpCompletes, Watching, PollPending, NEW_CONN_TAG
  <2>12. ASSUME (\E fd \in Fds : Accept(fd)) \/ PushFd \/ WakeWorker
         PROVE  Watching(w)' \/ PollPending(w)'
    BY <2>1, <2>12 DEF Accept, PushFd, WakeWorker
  <2> QED
    BY <1>u, <2>2, <2>3, <2>4, <2>5, <2>6, <2>7, <2>8, <2>9, <2>10, <2>11, <2>12
       DEF Next, WorkerStep
<1> QED
  BY <1>0, <1>u

\* What NoLostWakeup says of one worker.
Reached(w) == queue[w] # << >> => \/ Watching(w)
                                  \/ efd[w] /\ PollPending(w)
                                  \/ apc = "wake" /\ target = w

\* No step loses a wakeup: a push is followed by the eventfd write, the
\* eventfd is read before the queue is drained, and the poll is armed again
\* only once the queue was found empty.
LEMMA NextNoLostWakeup ==
  ASSUME TypeOK, BatchConsumed, PollOnItsWay, NoLostWakeup, [Next]_vars
  PROVE  NoLostWakeup'
<1> USE DEF rings, acceptor
<1> SUFFICES ASSUME up', NEW w \in Workers PROVE Reached(w)'
  BY DEF NoLostWakeup, Reached
<1>0. CASE UNCHANGED vars
  BY <1>0 DEF vars, NoLostWakeup, Reached, Watching, PollPending, target
<1>u. CASE Next
  <2>0. up /\ Reached(w) /\ (Watching(w) \/ PollPending(w))
    BY <1>u DEF PollOnItsWay, NoLostWakeup, Reached, Next, WorkerStep, Accept, PushFd,
         WakeWorker, Submit, Wait, EndBatch, NewConnCqe, ReadEventfd, DrainOne, DrainEnd,
         ResumeContinue, ResumeClose, PollFires, OpCompletes
  <2>1. ASSUME NEW fd \in Fds, Accept(fd) PROVE Reached(w)'
    BY <2>0, <2>1 DEF Accept, Reached, Watching, PollPending, target
  <2>2. ASSUME PushFd PROVE Reached(w)'
    <3>1. CASE target = w
      BY <2>2, <3>1 DEF PushFd, Reached, target
    <3>2. CASE target # w
      BY <2>0, <2>2, <3>2 DEF TypeOK, PushFd, Reached, Watching, PollPending, target
    <3> QED
      BY <3>1, <3>2
  <2>3. ASSUME WakeWorker PROVE Reached(w)'
    <3>1. CASE target = w
      BY <2>0, <2>3, <3>1 DEF TypeOK, WakeWorker, Reached, Watching, PollPending
    <3>2. CASE target # w
      BY <2>0, <2>3, <3>2 DEF TypeOK, WakeWorker, Reached, Watching, PollPending
    <3> QED
      BY <3>1, <3>2
  <2>4. ASSUME NEW x \in Workers, Submit(x) PROVE Reached(w)'
    BY <2>0, <2>4 DEF TypeOK, Submit, Reached, Watching, PollPending, target
  <2>5. ASSUME NEW x \in Workers, Wait(x) PROVE Reached(w)'
    BY <2>0, <2>5 DEF TypeOK, BatchConsumed, Wait, Reached, Watching, PollPending, target
  <2>6. ASSUME NEW x \in Workers, EndBatch(x) PROVE Reached(w)'
    BY <2>0, <2>6 DEF TypeOK, EndBatch, Reached, Watching, PollPending, target
  <2>7. ASSUME NEW x \in Workers, NewConnCqe(x) PROVE Reached(w)'
    BY <2>0, <2>7 DEF TypeOK, NewConnCqe, Reached, Watching, PollPending, target
  <2>8. ASSUME NEW x \in Workers, ReadEventfd(x) PROVE Reached(w)'
    BY <2>0, <2>8 DEF TypeOK, ReadEventfd, Reached, Watching, PollPending, target
  <2>9. ASSUME NEW x \in Workers, DrainOne(x) PROVE Reached(w)'
    BY <2>0, <2>9 DEF TypeOK, DrainOne, GetSqe, Reached, Watching, PollPending, target
  <2>10. ASSUME NEW x \in Workers, DrainEnd(x) PROVE Reached(w)'
    BY <2>0, <2>10 DEF TypeOK, DrainEnd, GetSqe, Reached, Watching, PollPending, target
  <2>11. ASSUME NEW x \in Workers, NEW fd \in Fds, ResumeContinue(x, fd) \/ ResumeClose(x, fd)
         PROVE  Reached(w)'
    <3>1. fd # NEW_CONN_TAG /\ fd \in Ops
      BY FdsAssumption, TagAssumption DEF NEW_CONN_TAG, Ops
    <3>2. CASE ResumeClose(x, fd)
      BY <2>0, <3>1, <3>2 DEF TypeOK, ResumeClose, Reached, Watching, PollPending, target
    <3>3. CASE ResumeContinue(x, fd)
      <4>1. sq' = [sq EXCEPT ![x] = @ \cup {fd}]
        BY <3>1, <3>3, GetSqeType DEF ResumeContinue
      <4> QED
        BY <2>0, <3>1, <3>3, <4>1
           DEF TypeOK, ResumeContinue, Reached, Watching, PollPending, target
    <3> QED
      BY <2>11, <3>2, <3>3
  <2>12. ASSUME NEW x \in Workers, PollFires(x) PROVE Reached(w)'
    BY <2>0, <2>12 DEF TypeOK, PollFires, Reached, Watching, PollPending, target
  <2>13. ASSUME NEW x \in Workers, NEW fd \in Fds, OpCompletes(x, fd) PROVE Reached(w)'
    BY <2>0, <2>13, FdsAssumption, TagAssumption
       DEF TypeOK, OpCompletes, Reached, Watching, PollPending, target, NEW_CONN_TAG
  <2> QED
    BY <1>u, <2>1, <2>2, <2>3, <2>4, <2>5, <2>6, <2>7, <2>8, <2>9, <2>10, <2>11, <2>12,
       <2>13 DEF Next, WorkerStep
<1> QED
  BY <1>0, <1>u

\* No wakeup is lost, for any number of workers and descriptors: whenever a
\* worker's queue is not empty the worker is on its way to it, or its
\* readable eventfd is polled, or the accept thread is about to write it.
THEOREM WakeupInvariance == Spec => []WakeupInv
<1>1. WakeupInv /\ [Next]_vars => WakeupInv'
  BY NextTypeOK, NextBatchConsumed, NextPollOnItsWay, NextNoLostWakeup DEF WakeupInv
<1> QED
  BY <1>1, InitWakeupInv, PTL DEF Spec

----
\* The places a descriptor can be in, one by one.
Queued(fd, w) == {k \in 1 .. Len(queue[w]) : queue[w][k] = fd}
OnRingOf(fd, w) == fd \in sq[w] \/ fd \in kernel[w] \/ fd \in cq[w] \/ fd \in batch[w]
Accepting(fd) == apc = "push" /\ afd = fd

\* A descriptor is on the ring of one worker, in one of its four sets ...
OnOneRing(fd) ==
  /\ \A w, v \in Workers : OnRingOf(fd, w) /\ OnRingOf(fd, v) => w = v
  /\ \A w \in Workers : /\ fd \in sq[w] => fd \notin kernel[w] /\ fd \notin cq[w]
                        /\ fd \in batch[w] => fd \notin sq[w] /\ fd \notin kernel[w] /\ fd \notin cq[w]
                        /\ fd \in kernel[w] => fd \notin cq[w]
\* ... or in one place of one queue, and then on no ring ...
InOnePlace(fd) ==
  /\ \A w, v \in Workers : \A j \in Queued(fd, w), k \in Queued(fd, v) : w = v /\ j = k
  /\ \A w, v \in Workers : Queued(fd, w) # {} => ~OnRingOf(fd, v)
\* ... or in the hands of the accept thread; and it is open.
AcceptedAlone(fd) ==
  Accepting(fd) => \A w \in Workers : ~OnRingOf(fd, w) /\ Queued(fd, w) = {}
HeldIsOpen(fd) ==
  \/ Accepting(fd)
  \/ \E w \in Workers : OnRingOf(fd, w) \/ Queued(fd, w) # {}
  => fd \in open
\* A coroutine lives as long as an operation of its descriptor is on a ring.
AwaitsOnRing(fd) == up => (co[fd] # "none" <=> \E w \in Workers : OnRingOf(fd, w))

HeldOnce(fd) == /\ OnOneRing(fd) /\ InOnePlace(fd) /\ AcceptedAlone(fd)
                /\ HeldIsOpen(fd) /\ AwaitsOnRing(fd)

\* The inductive invariant behind OneHolder.
HolderInv == \A fd \in Fds : HeldOnce(fd)

\* Nobody holds a descriptor at first.
LEMMA InitHolderInv == Init => HolderInv
<1> SUFFICES ASSUME Init PROVE HolderInv
  OBVIOUS
<1>1. ASSUME NEW fd \in Fds PROVE HeldOnce(fd)
  <2>1. \A w \in Workers : ~OnRingOf(fd, w) /\ Queued(fd, w) = {}
    BY FdsAssumption, TagAssumption DEF Init, OnRingOf, Queued, NEW_CONN_TAG
  <2>2. ~Accepting(fd) /\ co[fd] = "none"
    BY DEF Init, Accepting
  <2> QED
    BY <2>1, <2>2 DEF HeldOnce, OnOneRing, InOnePlace, AcceptedAlone, HeldIsOpen, AwaitsOnRing,
         OnRingOf
<1> QED
  BY <1>1 DEF HolderInv

\* A step that leaves a descriptor where it is, in the same process.
LEMMA HeldOnceKept ==
  ASSUME NEW fd \in Fds, HeldOnce(fd), open' = open, co'[fd] = co[fd], up' => up,
         Accepting(fd)' => Accepting(fd),
         \A w \in Workers : /\ fd \in sq'[w] <=> fd \in sq[w]
                            /\ fd \in kernel'[w] <=> fd \in kernel[w]
                            /\ fd \in cq'[w] <=> fd \in cq[w]
                            /\ fd \in batch'[w] <=> fd \in batch[w]
                            /\ Queued(fd, w)' \subseteq Queued(fd, w)
  PROVE  HeldOnce(fd)'
<1>1. OnOneRing(fd)'
  BY DEF HeldOnce, OnOneRing, OnRingOf
<1>2. InOnePlace(fd)'
  BY DEF HeldOnce, InOnePlace, OnRingOf
<1>3. AcceptedAlone(fd)'
  BY DEF HeldOnce, AcceptedAlone, OnRingOf
<1>4. HeldIsOpen(fd)'
  BY DEF HeldOnce, HeldIsOpen, OnRingOf
<1>5. AwaitsOnRing(fd)'
  BY DEF HeldOnce, AwaitsOnRing, OnRingOf
<1> QED
  BY <1>1, <1>2, <1>3, <1>4, <1>5 DEF HeldOnce

\* Every step moves a descriptor from one place to another, or lets go of it.
LEMMA NextHeldOnce ==
  ASSUME TypeOK, BatchConsumed, [Next]_vars, NEW fd \in Fds, HeldOnce(fd)
  PROVE  HeldOnce(fd)'
<1> USE DEF rings, acceptor
<1>0. CASE UNCHANGED vars
  BY <1>0, HeldOnceKept DEF vars, Accepting, Queued
<1>1. ASSUME NEW f \in Fds, Accept(f) PROVE HeldOnce(fd)'
  <2>1. CASE f # fd
    <3>1. /\ ~Accepting(fd)' /\ (fd \in open' <=> fd \in open)
          /\ UNCHANGED <<up, co, sq, kernel, cq, batch, queue>>
      BY <1>1, <2>1 DEF Accept, Accepting
    <3> QED
      BY <3>1 DEF HeldOnce, OnOneRing, InOnePlace, AcceptedAlone, HeldIsOpen, AwaitsOnRing,
           OnRingOf, Queued
  <2>2. CASE f = fd
    <3>1. \A w \in Workers : ~OnRingOf(fd, w) /\ Queued(fd, w) = {}
      BY <1>1, <2>2 DEF Accept, HeldOnce, HeldIsOpen
    <3>2. /\ fd \in open' /\ UNCHANGED <<up, co, sq, kernel, cq, batch, queue>>
      BY <1>1, <2>2 DEF Accept
    <3> QED
      BY <3>1, <3>2 DEF HeldOnce, OnOneRing, InOnePlace, AcceptedAlone, HeldIsOpen,
           AwaitsOnRing, OnRingOf, Queued
  <2> QED
    BY <2>1, <2>2
<1>2. ASSUME PushFd PROVE HeldOnce(fd)'
  <2>1. PICK tg \in Workers : tg = target
    BY TargetIsWorker DEF target, TypeOK
  <2>2. /\ UNCHANGED <<up, open, co, sq, kernel, cq, batch>> /\ ~Accepting(fd)'
    BY <1>2 DEF PushFd, Accepting
  <2>q. /\ \A w \in Workers : queue[w] \in Seq(Fds) /\ (w # tg => queue'[w] = queue[w])
        /\ queue'[tg] = queue[tg] \/ queue'[tg] = Append(queue[tg], afd)
        /\ apc = "push" /\ afd \in Fds
    BY <1>2, <2>1 DEF PushFd, TypeOK
  <2>3. CASE ~Accepting(fd)
    <3>1. \A w \in Workers : w # tg => Queued(fd, w)' = Queued(fd, w)
      BY <2>q DEF Queued
    <3>2. Queued(fd, tg)' \subseteq Queued(fd, tg)
      BY <2>1, <2>3, <2>q DEF Queued, Accepting
    <3>3. \A w \in Workers : Queued(fd, w)' \subseteq Queued(fd, w)
      BY <3>1, <3>2
    <3> QED
      BY <2>2, <3>3, HeldOnceKept
  <2>4. CASE Accepting(fd)
    <3>1. \A w \in Workers : ~OnRingOf(fd, w) /\ Queued(fd, w) = {}
      BY <2>4 DEF HeldOnce, AcceptedAlone
    <3>2. \A w \in Workers : w # tg => Queued(fd, w)' = {}
      BY <2>q, <3>1 DEF Queued
    <3>3. Queued(fd, tg)' \subseteq {Len(queue[tg]) + 1}
      BY <2>1, <2>q, <3>1 DEF Queued
    <3>4. \A w \in Workers : ~OnRingOf(fd, w)'
      BY <2>2, <3>1 DEF OnRingOf
    <3>5. fd \in open'
      BY <2>2, <2>4 DEF HeldOnce, HeldIsOpen
    <3>6. InOnePlace(fd)'
      BY <3>2, <3>3, <3>4 DEF InOnePlace
    <3> QED
      BY <2>2, <3>1, <3>4, <3>5, <3>6 DEF HeldOnce, OnOneRing, OnRingOf, AcceptedAlone,
           HeldIsOpen, AwaitsOnRing
  <2> QED
    BY <2>3, <2>4
<1>3. ASSUME WakeWorker PROVE HeldOnce(fd)'
  BY <1>3, HeldOnceKept DEF WakeWorker, Accepting, Queued
<1>4. ASSUME NEW w \in Workers, EndBatch(w) \/ ReadEventfd(w) PROVE HeldOnce(fd)'
  BY <1>4, HeldOnceKept DEF EndBatch, ReadEventfd, Accepting, Queued
<1>5. ASSUME NEW w \in Workers, NewConnCqe(w) \/ PollFires(w) PROVE HeldOnce(fd)'
  <2>1. fd # NEW_CONN_TAG
    BY FdsAssumption, TagAssumption DEF NEW_CONN_TAG
  <2>2. /\ UNCHANGED <<up, open, co, apc, afd, queue, sq>>
        /\ \A v \in Workers : /\ fd \in kernel'[v] <=> fd \in kernel[v]
                              /\ fd \in cq'[v] <=> fd \in cq[v]
                              /\ fd \in batch'[v] <=> fd \in batch[v]
    <3>1. CASE NewConnCqe(w)
      BY <2>1, <3>1 DEF NewConnCqe, TypeOK
    <3>2. CASE PollFires(w)
      BY <2>1, <3>2 DEF PollFires, TypeOK
    <3> QED
      BY <1>5, <3>1, <3>2
  <2> QED
    BY <2>2, HeldOnceKept DEF Accepting, Queued
<1>6. ASSUME NEW w \in Workers, Submit(w) PROVE HeldOnce(fd)'
  <2>1. /\ UNCHANGED <<up, open, co, apc, afd, queue, cq, batch>>
        /\ \A v \in Workers : v # w => UNCHANGED <<sq[v], kernel[v]>>
        /\ sq'[w] = {} /\ kernel'[w] = kernel[w] \cup sq[w]
    BY <1>6 DEF Submit, TypeOK
  <2>2. \A v \in Workers : (OnRingOf(fd, v)' <=> OnRingOf(fd, v)) /\ Queued(fd, v)' = Queued(fd, v)
    BY <2>1 DEF OnRingOf, Queued
  <2>3. OnOneRing(fd)'
    BY <2>1, <2>2 DEF HeldOnce, OnOneRing
  <2> QED
    BY <2>1, <2>2, <2>3 DEF HeldOnce, InOnePlace, AcceptedAlone, HeldIsOpen, AwaitsOnRing, Accepting
<1>7. ASSUME NEW w \in Workers, Wait(w) PROVE HeldOnce(fd)'
  <2>1. /\ UNCHANGED <<up, open, co, apc, afd, queue, sq, kernel>>
        /\ \A v \in Workers : v # w => UNCHANGED <<cq[v], batch[v]>>
        /\ cq'[w] = {} /\ batch'[w] = cq[w] /\ batch[w] = {}
    BY <1>7 DEF Wait, TypeOK, BatchConsumed
  <2>2. \A v \in Workers : (OnRingOf(fd, v)' <=> OnRingOf(fd, v)) /\ Queued(fd, v)' = Queued(fd, v)
    BY <2>1 DEF OnRingOf, Queued
  <2>3. OnOneRing(fd)'
    BY <2>1, <2>2 DEF HeldOnce, OnOneRing
  <2> QED
    BY <2>1, <2>2, <2>3 DEF HeldOnce, InOnePlace, AcceptedAlone, HeldIsOpen, AwaitsOnRing, Accepting
<1>8. ASSUME NEW w \in Workers, NEW f \in Fds, OpCompletes(w, f) PROVE HeldOnce(fd)'
  <2>1. /\ UNCHANGED <<up, open, co, apc, afd, queue, sq, batch>>
        /\ \A v \in Workers : v # w => UNCHANGED <<kernel[v], cq[v]>>
        /\ kernel'[w] = kernel[w] \ {f} /\ cq'[w] = cq[w] \cup {f} /\ f \in kernel[w]
    BY <1>8 DEF OpCompletes, TypeOK
  <2>2. \A v \in Workers : (OnRingOf(fd, v)' <=> OnRingOf(fd, v)) /\ Queued(fd, v)' = Queued(fd, v)
    BY <2>1 DEF OnRingOf, Queued
  <2>3. OnOneRing(fd)'
    BY <2>1, <2>2 DEF HeldOnce, OnOneRing
  <2> QED
    BY <2>1, <2>2, <2>3 DEF HeldOnce, InOnePlace, AcceptedAlone, HeldIsOpen, AwaitsOnRing, Accepting
<1>9. ASSUME NEW w \in Workers, DrainEnd(w) PROVE HeldOnce(fd)'
  <2>1. fd # NEW_CONN_TAG
    BY FdsAssumption, TagAssumption DEF NEW_CONN_TAG
  <2>2. /\ UNCHANGED <<open, co, apc, afd, queue, kernel, cq, batch>> /\ up
        /\ \A v \in Workers : fd \in sq'[v] <=> fd \in sq[v]
    BY <1>9, <2>1, ZenonT(40) DEF DrainEnd, GetSqe, TypeOK
  <2> QED
    BY <2>2, HeldOnceKept DEF Accepting, Queued
<1>10. ASSUME NEW w \in Workers, DrainOne(w) PROVE HeldOnce(fd)'
  <2>1. PICK f \in Fds : f = Head(queue[w])
    BY <1>10 DEF DrainOne, TypeOK
  <2>2. /\ queue'[w] = Tail(queue[w]) /\ queue[w] \in Seq(Fds) /\ queue[w] # << >>
        /\ \A v \in Workers : v # w => queue'[v] = queue[v]
        /\ UNCHANGED <<open, apc, afd, kernel, cq, batch>> /\ up
        /\ co' = [co EXCEPT ![f] = "recv"]
    BY <1>10, <2>1 DEF DrainOne, TypeOK
  <2>3. /\ \A v \in Workers : v # w => sq'[v] = sq[v]
        /\ (up' /\ sq'[w] = sq[w] \cup {f}) \/ (~up' /\ sq'[w] = sq[w])
    BY <1>10, <2>1, <2>2 DEF DrainOne, GetSqe, TypeOK
  <2>4. \A v \in Workers : v # w => Queued(fd, v)' = Queued(fd, v)
    BY <2>2 DEF Queued
  <2>5. \A k \in Queued(fd, w)' : k \in Nat /\ k + 1 \in Queued(fd, w)
    BY <2>2 DEF Queued
  <2>6. f = fd => 1 \in Queued(fd, w)
    BY <2>1, <2>2 DEF Queued
  <2>7. \A k \in Queued(fd, w)' : k # 0
    BY <2>2 DEF Queued
  <2>8. CASE f = fd
    <3>1. \A v \in Workers : ~OnRingOf(fd, v)
      BY <2>6, <2>8 DEF HeldOnce, InOnePlace
    <3>2. \A v \in Workers : Queued(fd, v)' = {}
      BY <2>4, <2>5, <2>6, <2>7, <2>8 DEF HeldOnce, InOnePlace
    <3>3. \A v \in Workers : OnRingOf(fd, v)' => v = w /\ up'
      BY <2>2, <2>3, <3>1 DEF OnRingOf
    <3>4. fd \in open /\ ~Accepting(fd)'
      BY <2>2, <2>6, <2>8 DEF HeldOnce, HeldIsOpen, AcceptedAlone, Accepting
    <3>5. OnOneRing(fd)'
      BY <2>2, <2>3, <3>1, <3>3 DEF OnOneRing, OnRingOf
    <3>6. AwaitsOnRing(fd)'
      BY <2>2, <2>3, <2>8 DEF AwaitsOnRing, OnRingOf, TypeOK
    <3> QED
      BY <2>2, <3>2, <3>4, <3>5, <3>6 DEF HeldOnce, InOnePlace, AcceptedAlone, HeldIsOpen
  <2>9. CASE f # fd
    <3>1. \A v \in Workers : fd \in sq'[v] <=> fd \in sq[v]
      BY <2>3, <2>9
    <3>2. \A v \in Workers : OnRingOf(fd, v)' <=> OnRingOf(fd, v)
      BY <2>2, <3>1 DEF OnRingOf
    <3>3. \A v \in Workers : Queued(fd, v)' # {} => Queued(fd, v) # {}
      BY <2>4, <2>5
    <3>4. InOnePlace(fd)'
      BY <2>4, <2>5, <3>2, <3>3 DEF HeldOnce, InOnePlace
    <3>5. OnOneRing(fd)'
      BY <2>2, <3>1, <3>2 DEF HeldOnce, OnOneRing
    <3>6. AwaitsOnRing(fd)'
      BY <2>2, <2>9, <3>2 DEF HeldOnce, AwaitsOnRing, TypeOK
    <3> QED
      BY <2>2, <3>2, <3>3, <3>4, <3>5, <3>6 DEF HeldOnce, AcceptedAlone, HeldIsOpen, Accepting
  <2> QED
    BY <2>8, <2>9
<1>11. ASSUME NEW w \in Workers, NEW f \in Fds, ResumeContinue(w, f) PROVE HeldOnce(fd)'
  <2>1. /\ UNCHANGED <<open, apc, afd, queue, kernel, cq>> /\ up
        /\ \A v \in Workers : v # w => UNCHANGED <<sq[v], batch[v]>>
        /\ f \in batch[w] /\ batch'[w] = batch[w] \ {f}
        /\ f # fd => co'[fd] = co[fd]
        /\ f = fd => co'[fd] # "none"
    BY <1>11 DEF ResumeContinue, GetSqe, TypeOK
  <2>2. (up' /\ sq'[w] = sq[w] \cup {f}) \/ (~up' /\ sq'[w] = sq[w])
    BY <1>11 DEF ResumeContinue, GetSqe, TypeOK
  <2>3. \A v \in Workers : /\ OnRingOf(fd, v)' => OnRingOf(fd, v)
                           /\ up' /\ OnRingOf(fd, v) => OnRingOf(fd, v)'
                           /\ Queued(fd, v)' = Queued(fd, v)
    BY <2>1, <2>2 DEF OnRingOf, Queued
  <2>4. OnOneRing(fd)'
    BY <2>1, <2>2, <2>3 DEF HeldOnce, OnOneRing, OnRingOf
  <2>5. AwaitsOnRing(fd)'
    <3>1. CASE f = fd
      BY <2>1, <2>2, <3>1 DEF AwaitsOnRing, OnRingOf
    <3>2. CASE f # fd
      BY <2>1, <2>3, <3>2 DEF HeldOnce, AwaitsOnRing
    <3> QED
      BY <3>1, <3>2
  <2> QED
    BY <2>1, <2>3, <2>4, <2>5 DEF HeldOnce, InOnePlace, AcceptedAlone, HeldIsOpen, Accepting
<1>12. ASSUME NEW w \in Workers, NEW f \in Fds, ResumeClose(w, f) PROVE HeldOnce(fd)'
  <2>1. /\ UNCHANGED <<up, apc, afd, queue, sq, kernel, cq>> /\ open' = open \ {f}
        /\ \A v \in Workers : v # w => batch'[v] = batch[v]
        /\ f \in batch[w] /\ batch'[w] = batch[w] \ {f}
        /\ f # fd => co'[fd] = co[fd]
        /\ f = fd => co'[fd] = "none"
    BY <1>12 DEF ResumeClose, TypeOK
  <2>2. CASE f = fd
    <3>1. OnRingOf(fd, w)
      BY <2>1, <2>2 DEF OnRingOf
    <3>2. \A v \in Workers : ~OnRingOf(fd, v)'
      BY <2>1, <2>2, <3>1 DEF HeldOnce, OnOneRing, OnRingOf
    <3>3. ~Accepting(fd)' /\ \A v \in Workers : Queued(fd, v)' = {}
      BY <2>1, <3>1 DEF HeldOnce, InOnePlace, AcceptedAlone, Accepting, Queued
    <3> QED
      BY <2>1, <2>2, <3>2, <3>3 DEF HeldOnce, OnOneRing, InOnePlace, AcceptedAlone, HeldIsOpen,
           AwaitsOnRing, OnRingOf
  <2>3. CASE f # fd
    <3>1. \A v \in Workers : /\ fd \in batch'[v] <=> fd \in batch[v]
                             /\ OnRingOf(fd, v)' <=> OnRingOf(fd, v)
                             /\ Queued(fd, v)' = Queued(fd, v)
      BY <2>1, <2>3 DEF OnRingOf, Queued
    <3> QED
      BY <2>1, <2>3, <3>1 DEF HeldOnce, OnOneRing, InOnePlace, AcceptedAlone, HeldIsOpen,
           AwaitsOnRing, Accepting
  <2> QED
    BY <2>2, <2>3
<1> QED
  BY <1>0, <1>1, <1>2, <1>3, <1>4, <1>5, <1>6, <1>7, <1>8, <1>9, <1>10, <1>11, <1>12
     DEF Next, WorkerStep

\* The cardinality of a set without two different elements.
LEMMA AtMostOne ==
  ASSUME NEW S, \A x, y \in S : x = y
  PROVE  Cardinality(S) = IF S = {} THEN 0 ELSE 1
<1>1. CASE S = {}
  BY <1>1, FS_EmptySet
<1>2. CASE S # {}
  <2>1. PICK x \in S : TRUE
    BY <1>2
  <2>2. S = {x}
    BY <2>1
  <2> QED
    BY <1>2, <2>2, FS_Singleton
<1> QED
  BY <1>1, <1>2

\* Counted in places, held once is held by at most one.
LEMMA HeldOnceCounts ==
  ASSUME NEW fd \in Fds, HeldOnce(fd)
  PROVE  /\ Holders(fd) \in {0, 1}
         /\ Holders(fd) = 1 => fd \in open
<1> DEFINE S == {w \in Workers : fd \in sq[w]}
           K == {w \in Workers : fd \in kernel[w]}
           C == {w \in Workers : fd \in cq[w] \cup batch[w]}
           A == IF apc = "push" /\ afd = fd THEN 1 ELSE 0
<1>1. InQueue(fd) = UNION {{<<w, k>> : k \in Queued(fd, w)} : w \in Workers}
  BY DEF InQueue, Queued
<1>2. \A p \in InQueue(fd) : \E w \in Workers : \E k \in Queued(fd, w) : p = <<w, k>>
  BY <1>1
<1>3. \A p, q \in InQueue(fd) : p = q
  BY <1>2 DEF HeldOnce, InOnePlace
<1>4. /\ \A x, y \in S : x = y
      /\ \A x, y \in K : x = y
      /\ \A x, y \in C : x = y
  BY DEF HeldOnce, OnOneRing, OnRingOf
<1>5. /\ Cardinality(InQueue(fd)) = IF InQueue(fd) = {} THEN 0 ELSE 1
      /\ Cardinality(S) = IF S = {} THEN 0 ELSE 1
      /\ Cardinality(K) = IF K = {} THEN 0 ELSE 1
      /\ Cardinality(C) = IF C = {} THEN 0 ELSE 1
  <2> HIDE DEF S, K, C
  <2> QED
    BY <1>3, <1>4, AtMostOne
<1>6. /\ S # {} => K = {} /\ C = {}
      /\ K # {} => C = {}
  BY DEF HeldOnce, OnOneRing, OnRingOf
<1>7. InQueue(fd) # {} => S = {} /\ K = {} /\ C = {}
  BY <1>2 DEF HeldOnce, InOnePlace, OnRingOf
<1>8. A = 1 => S = {} /\ K = {} /\ C = {} /\ InQueue(fd) = {}
  BY <1>2 DEF HeldOnce, AcceptedAlone, Accepting, OnRingOf
<1>9. A = 1 \/ S # {} \/ K # {} \/ C # {} \/ InQueue(fd) # {} => fd \in open
  BY <1>2 DEF HeldOnce, HeldIsOpen, Accepting, OnRingOf
<1>10. Holders(fd) = Cardinality(InQueue(fd)) + Cardinality(S) + Cardinality(K)
                     + Cardinality(C) + A
  BY DEF Holders
<1>11. A \in {0, 1}
  OBVIOUS
<1> QED
  <2> HIDE DEF S, K, C, A
  <2> QED
    BY <1>5, <1>6, <1>7, <1>8, <1>9, <1>10, <1>11

\* A descriptor number never has two holders and is open while it is held,
\* however many workers there are and however often the kernel reuses it: the
\* queues, the rings and the accept thread hand it on, and only the coroutine
\* whose operation completed closes it.
THEOREM HolderInvariance == Spec => []OneHolder
<1>1. WakeupInv /\ HolderInv /\ [Next]_vars => HolderInv'
  BY NextHeldOnce DEF WakeupInv, HolderInv
<1>2. HolderInv => OneHolder
  <2> SUFFICES ASSUME HolderInv, NEW fd \in Fds
               PROVE  /\ Holders(fd) <= 1
                      /\ Holders(fd) = 1 => fd \in open
                      /\ up => (co[fd] # "none" <=> OnRing(fd))
    BY DEF OneHolder
  <2>1. HeldOnce(fd)
    BY DEF HolderInv
  <2>2. Holders(fd) <= 1 /\ (Holders(fd) = 1 => fd \in open)
    BY <2>1, HeldOnceCounts
  <2>3. OnRing(fd) <=> \E w \in Workers : OnRingOf(fd, w)
    BY DEF OnRing, OnRingOf
  <2>4. up => (co[fd] # "none" <=> OnRing(fd))
    BY <2>1, <2>3 DEF HeldOnce, AwaitsOnRing
  <2> QED
    BY <2>2, <2>4
<1> QED
  BY <1>1, <1>2, InitHolderInv, WakeupInvariance, PTL DEF Spec

----
\* Dist counts places round the array: it is a number below the capacity,
\* and 0 exactly from a slot to itself.
LEMMA DistType ==
  ASSUME NEW a \in Slots, NEW b \in Slots
  PROVE  /\ Dist(a, b) \in Nat
         /\ Dist(a, b) < CAPACITY
         /\ Dist(a, b) = 0 <=> a = b
  BY CapacityAssumption DEF Slots, Dist

\* Two slots at the same distance from a third are one slot.
LEMMA DistInjective ==
  ASSUME NEW a \in Slots, NEW b \in Slots, NEW c \in Slots,
         Dist(a, b) = Dist(a, c)
  PROVE  b = c
  BY CapacityAssumption DEF Slots, Dist

\* Going on from b to c, when b comes no later than c counting from a.
LEMMA DistSplit ==
  ASSUME NEW a \in Slots, NEW b \in Slots, NEW c \in Slots,
         Dist(a, b) <= Dist(a, c)
  PROVE  Dist(b, c) = Dist(a, c) - Dist(a, b)
  BY CapacityAssumption DEF Slots, Dist

\* Two stretches that together make less than a lap.
LEMMA DistJoin ==
  ASSUME NEW a \in Slots, NEW b \in Slots, NEW c \in Slots,
         Dist(a, b) + Dist(b, c) < CAPACITY
  PROVE  Dist(a, c) = Dist(a, b) + Dist(b, c)
  BY CapacityAssumption DEF Slots, Dist

\* The slot k places after i is a slot at distance k.
LEMMA SlotDist ==
  ASSUME NEW i \in Slots, NEW k \in 0 .. CAPACITY - 1
  PROVE  /\ Slot(i, k) \in Slots
         /\ Dist(i, Slot(i, k)) = k
  BY CapacityAssumption DEF Slots, Slot, Dist

\* The next slot, (i + 1) % CAPACITY in push and pop, is one place further
\* from a, unless it is a itself.
LEMMA SlotNext ==
  ASSUME NEW a \in Slots, NEW i \in Slots
  PROVE  /\ Slot(i, 1) \in Slots
         /\ Slot(i, 1) # a => Dist(a, Slot(i, 1)) = Dist(a, i) + 1
         /\ Slot(i, 1) = a => Dist(a, i) = CAPACITY - 1
  BY CapacityAssumption DEF Slots, Slot, Dist

\* The initial state, with both indices and both views at slot 0, satisfies
\* the inductive invariant.
LEMMA InitQueueInv == QueueInit => QueueInv
<1> SUFFICES ASSUME QueueInit PROVE QueueInv
  OBVIOUS
<1>1. 0 \in Slots
  BY CapacityAssumption DEF Slots
<1>2. QueueTypeOK
  BY <1>1 DEF QueueInit, QueueTypeOK
<1>3. IndexOrder
  BY <1>1, DistType DEF QueueInit, IndexOrder
<1>4. PushLocals /\ PopLocals
  BY DEF QueueInit, PushLocals, PopLocals
<1> QED
  BY <1>2, <1>3, <1>4 DEF QueueInv

\* A view of an index that moves forward by k stores stays between the old
\* view and the index itself: an atomic load never runs ahead of the stores.
LEMMA ViewAdvances ==
  ASSUME NEW a \in Slots, NEW b \in Slots, NEW k \in 0 .. Dist(a, b)
  PROVE  /\ Slot(a, k) \in Slots
         /\ Dist(a, Slot(a, k)) = k
<1>1. k \in 0 .. CAPACITY - 1
  BY DistType, CapacityAssumption
<1> QED
  BY <1>1, SlotDist

\* A consumer that has found the queue not empty is right: the slot it is
\* about to read lies before tail.
LEMMA NotEmpty ==
  ASSUME QueueTypeOK, IndexOrder, head # vtail
  PROVE  head # tail
<1>1. Dist(vhead, head) # Dist(vhead, vtail)
  BY DistInjective DEF QueueTypeOK
<1>2. /\ Dist(vhead, head) \in Nat /\ Dist(vhead, vtail) \in Nat
      /\ Dist(vhead, tail) \in Nat
  BY DistType DEF QueueTypeOK
<1> QED
  BY <1>1, <1>2 DEF IndexOrder

\* Each step of push and of pop, and a step that changes nothing, preserves
\* the inductive invariant.
LEMMA NextQueueInv == QueueInv /\ [QueueNext]_qvars => QueueInv'
<1> SUFFICES ASSUME QueueInv, [QueueNext]_qvars PROVE QueueInv'
  OBVIOUS
<1> USE CapacityAssumption
<1>0. QueueTypeOK /\ IndexOrder /\ PushLocals /\ PopLocals
  BY DEF QueueInv
<1>1. ASSUME NEW fd \in Fds, PushLoadTail(fd) PROVE QueueInv'
  <2>1. QueueTypeOK'
    BY <1>0, <1>1 DEF QueueTypeOK, PushLoadTail, consumer
  <2>2. IndexOrder' /\ PopLocals'
    BY <1>0, <1>1 DEF IndexOrder, PopLocals, PushLoadTail, consumer
  <2>3. PushLocals'
    BY <1>0, <1>1 DEF PushLocals, PushLoadTail, consumer
  <2> QED
    BY <2>1, <2>2, <2>3 DEF QueueInv
<1>2. ASSUME PushLoadHead PROVE QueueInv'
  <2>1. PICK k \in 0 .. Dist(vhead, head) : vhead' = Slot(vhead, k)
    BY <1>2 DEF PushLoadHead
  <2>2. vhead' \in Slots /\ Dist(vhead, vhead') = k
    BY <2>1, <1>0, ViewAdvances DEF QueueTypeOK
  <2>3. QueueTypeOK'
    BY <2>2, <1>0, <1>2 DEF QueueTypeOK, PushLoadHead, consumer
  <2>4. IndexOrder'
    <3>1. /\ Dist(vhead', head) = Dist(vhead, head) - k
          /\ Dist(vhead', vtail) = Dist(vhead, vtail) - k
          /\ Dist(vhead', tail) = Dist(vhead, tail) - k
      <4>1. k <= Dist(vhead, head) /\ k <= Dist(vhead, vtail) /\ k <= Dist(vhead, tail)
        BY <2>1, <1>0, DistType DEF QueueTypeOK, IndexOrder
      <4> QED
        BY <4>1, <2>2, <1>0, DistSplit DEF QueueTypeOK
    <3>2. UNCHANGED <<head, vtail, tail>>
      BY <1>2 DEF PushLoadHead, consumer
    <3>3. /\ Dist(vhead, head) \in Nat /\ Dist(vhead, vtail) \in Nat
          /\ Dist(vhead, tail) \in Nat /\ k \in Nat
      BY <2>1, <1>0, DistType DEF QueueTypeOK
    <3> QED
      BY <3>1, <3>2, <3>3, <1>0 DEF IndexOrder
  <2>5. PushLocals'
    BY <1>0, <1>2 DEF PushLocals, PushLoadHead, PushFull, consumer
  <2>6. PopLocals'
    BY <1>0, <1>2 DEF PopLocals, PushLoadHead, consumer
  <2> QED
    BY <2>3, <2>4, <2>5, <2>6 DEF QueueInv
<1>3. ASSUME PushWrite PROVE QueueInv'
  <2>1. QueueTypeOK'
    BY <1>0, <1>3 DEF QueueTypeOK, PushWrite, PushLocals, consumer
  <2>2. IndexOrder'
    BY <1>0, <1>3 DEF IndexOrder, PushWrite, consumer
  <2>3. PushLocals'
    BY <1>0, <1>3 DEF QueueTypeOK, PushLocals, PushWrite, consumer
  <2>4. PopLocals'
    <3>1. cpc = "store" => head # tail
      BY <1>0, NotEmpty DEF QueueTypeOK, PopLocals
    <3> QED
      BY <3>1, <1>0, <1>3 DEF QueueTypeOK, PopLocals, PushLocals, PushWrite, consumer
  <2> QED
    BY <2>1, <2>2, <2>3, <2>4 DEF QueueInv
<1>4. ASSUME PushStoreTail PROVE QueueInv'
  <2>0. t = tail /\ Slot(tail, 1) # vhead
    BY <1>0, <1>4 DEF PushStoreTail, PushLocals
  <2>1. Slot(tail, 1) \in Slots
    BY <1>0, SlotNext DEF QueueTypeOK
  <2>2. QueueTypeOK'
    BY <2>0, <2>1, <1>0, <1>4 DEF QueueTypeOK, PushStoreTail, consumer
  <2>3. IndexOrder'
    <3>1. Dist(vhead, Slot(tail, 1)) = Dist(vhead, tail) + 1
      BY <2>0, <1>0, SlotNext DEF QueueTypeOK
    <3>2. /\ Dist(vhead, head) \in Nat /\ Dist(vhead, vtail) \in Nat
          /\ Dist(vhead, tail) \in Nat
      BY <1>0, DistType DEF QueueTypeOK
    <3> QED
      BY <3>1, <3>2, <2>0, <1>0, <1>4 DEF IndexOrder, PushStoreTail, consumer
  <2>4. PushLocals' /\ PopLocals'
    BY <1>0, <1>4 DEF PushLocals, PopLocals, PushStoreTail, consumer
  <2> QED
    BY <2>2, <2>3, <2>4 DEF QueueInv
<1>5. ASSUME PopLoadHead PROVE QueueInv'
  <2>1. QueueTypeOK' /\ IndexOrder'
    BY <1>0, <1>5 DEF QueueTypeOK, IndexOrder, PopLoadHead, producer
  <2>2. PushLocals' /\ PopLocals'
    BY <1>0, <1>5 DEF PushLocals, PopLocals, PopLoadHead, producer
  <2> QED
    BY <2>1, <2>2 DEF QueueInv
<1>6. ASSUME PopLoadTail PROVE QueueInv'
  <2>1. PICK k \in 0 .. Dist(vtail, tail) : vtail' = Slot(vtail, k)
    BY <1>6 DEF PopLoadTail
  <2>2. vtail' \in Slots /\ Dist(vtail, vtail') = k
    BY <2>1, <1>0, ViewAdvances DEF QueueTypeOK
  <2>3. QueueTypeOK'
    BY <2>2, <1>0, <1>6 DEF QueueTypeOK, PopLoadTail, producer
  <2>4. IndexOrder'
    <3>1. /\ Dist(vhead, head) <= Dist(vhead, vtail')
          /\ Dist(vhead, vtail') <= Dist(vhead, tail)
      <4>1. Dist(vtail, tail) = Dist(vhead, tail) - Dist(vhead, vtail)
        BY <1>0, DistSplit DEF QueueTypeOK, IndexOrder
      <4>2. /\ Dist(vhead, head) \in Nat /\ Dist(vhead, vtail) \in Nat
            /\ Dist(vhead, tail) \in Nat /\ Dist(vhead, tail) < CAPACITY
        BY <1>0, DistType DEF QueueTypeOK
      <4>3. Dist(vhead, vtail) + k <= Dist(vhead, tail) /\ k \in Nat
        BY <2>1, <4>1, <4>2
      <4>4. Dist(vhead, vtail') = Dist(vhead, vtail) + k
        BY <2>2, <4>2, <4>3, <1>0, DistJoin DEF QueueTypeOK
      <4> QED
        BY <4>2, <4>3, <4>4, <1>0 DEF IndexOrder
    <3> QED
      BY <3>1, <1>6 DEF IndexOrder, PopLoadTail, producer
  <2>5. PushLocals' /\ PopLocals'
    BY <1>0, <1>6 DEF PushLocals, PopLocals, PopLoadTail, PopEmpty, producer
  <2> QED
    BY <2>3, <2>4, <2>5 DEF QueueInv
<1>7. ASSUME PopRead PROVE QueueInv'
  <2>1. QueueTypeOK' /\ IndexOrder'
    BY <1>0, <1>7 DEF QueueTypeOK, IndexOrder, PopRead, producer
  <2>2. PushLocals' /\ PopLocals'
    BY <1>0, <1>7 DEF PushLocals, PopLocals, PopRead, producer
  <2> QED
    BY <2>1, <2>2 DEF QueueInv
<1>8. ASSUME PopStoreHead PROVE QueueInv'
  <2>0. h = head /\ head # vtail
    BY <1>0, <1>8 DEF PopStoreHead, PopLocals
  <2>1. Slot(head, 1) \in Slots
    BY <1>0, SlotNext DEF QueueTypeOK
  <2>2. QueueTypeOK'
    BY <2>0, <2>1, <1>0, <1>8 DEF QueueTypeOK, PopStoreHead, producer
  <2>3. IndexOrder'
    <3>1. Dist(vhead, Slot(head, 1)) <= Dist(vhead, vtail)
      <4>1. Dist(vhead, head) # Dist(vhead, vtail)
        BY <2>0, <1>0, DistInjective DEF QueueTypeOK
      <4>2. /\ Dist(vhead, head) \in Nat /\ Dist(vhead, vtail) \in Nat
            /\ Dist(vhead, vtail) < CAPACITY
        BY <1>0, DistType DEF QueueTypeOK
      <4>3. Dist(vhead, head) + 1 <= Dist(vhead, vtail)
        BY <4>1, <4>2, <1>0 DEF IndexOrder
      <4> QED
        BY <4>2, <4>3, <1>0, SlotNext DEF QueueTypeOK
    <3> QED
      BY <3>1, <2>0, <1>0, <1>8 DEF IndexOrder, PopStoreHead, producer
  <2>4. PushLocals' /\ PopLocals'
    BY <1>0, <1>8 DEF PushLocals, PopLocals, PopStoreHead, producer
  <2> QED
    BY <2>2, <2>3, <2>4 DEF QueueInv
<1>9. CASE UNCHANGED qvars
  BY <1>0, <1>9 DEF qvars, QueueInv, QueueTypeOK, IndexOrder, PushLocals, PopLocals
<1> QED
  BY <1>1, <1>2, <1>3, <1>4, <1>5, <1>6, <1>7, <1>8, <1>9 DEF QueueNext, Push, Pop

\* The inductive invariant holds in every state of every execution.
THEOREM QueueInvariance == QueueSpec => []QueueInv
<1> QED
  BY InitQueueInv, NextQueueInv, PTL DEF QueueSpec

\* The two threads never access one slot at the same time, for every
\* capacity: between a full test and the slot write of push the slot is
\* outside the part of the array pop reads from.
THEOREM SlotRaceFreedom == QueueSpec => []NoSlotRace
<1>1. QueueInv => NoSlotRace
  BY NotEmpty DEF QueueInv, PushLocals, PopLocals, NoSlotRace
<1> QED
  BY <1>1, QueueInvariance, PTL

----
\* How full the queue is, counted from the consumer's index: never more than
\* from the oldest head the producer believes in.
LEMMA FillBound ==
  ASSUME QueueTypeOK, IndexOrder
  PROVE  /\ Dist(head, tail) \in Nat
         /\ Dist(head, tail) < CAPACITY
         /\ Dist(head, tail) <= Dist(vhead, tail)
<1>1. /\ Dist(vhead, head) \in Nat /\ Dist(vhead, vtail) \in Nat
      /\ Dist(vhead, tail) \in Nat /\ Dist(vhead, tail) < CAPACITY
      /\ Dist(head, tail) \in Nat /\ Dist(head, tail) < CAPACITY
  BY DistType DEF QueueTypeOK
<1>2. Dist(head, tail) = Dist(vhead, tail) - Dist(vhead, head)
  BY <1>1, DistSplit DEF QueueTypeOK, IndexOrder
<1> QED
  BY <1>1, <1>2

\* The occupied slots are slots, all different from tail, and the slot just
\* past them is tail.
LEMMA OccupiedSlots ==
  ASSUME QueueTypeOK, IndexOrder
  PROVE  /\ \A i \in 1 .. Dist(head, tail) : /\ Slot(head, i - 1) \in Slots
                                             /\ Slot(head, i - 1) # tail
         /\ Slot(head, Dist(head, tail)) = tail
<1>1. ASSUME NEW i \in 1 .. Dist(head, tail)
      PROVE  Slot(head, i - 1) \in Slots /\ Slot(head, i - 1) # tail
  <2>1. i - 1 \in 0 .. CAPACITY - 1 /\ i - 1 # Dist(head, tail)
    BY FillBound, CapacityAssumption
  <2> QED
    BY <2>1, SlotDist DEF QueueTypeOK
<1>2. Slot(head, Dist(head, tail)) = tail
  <2>1. Dist(head, tail) \in 0 .. CAPACITY - 1
    BY FillBound, CapacityAssumption
  <2> QED
    BY <2>1, SlotDist, DistInjective DEF QueueTypeOK
<1> QED
  BY <1>1, <1>2

\* n slots from slot a on, read in order, are a sequence of length n.
LEMMA SegmentType ==
  ASSUME NEW d \in [Slots -> Fds \cup {0}], NEW a \in Slots, NEW n \in 0 .. CAPACITY
  PROVE  /\ Segment(d, a, n) \in Seq(Fds \cup {0})
         /\ Len(Segment(d, a, n)) = n
         /\ \A i \in 1 .. n : Segment(d, a, n)[i] = d[Slot(a, i - 1)]
<1> USE CapacityAssumption
<1>1. ASSUME NEW i \in 1 .. n PROVE d[Slot(a, i - 1)] \in Fds \cup {0}
  <2>1. i - 1 \in 0 .. CAPACITY - 1
    OBVIOUS
  <2> QED
    BY <2>1, SlotDist
<1> QED
  BY <1>1 DEF Segment

\* Moving the start one slot on shortens the way to b by one, and shifts the
\* slots that follow.
LEMMA StartAdvances ==
  ASSUME NEW a \in Slots, NEW b \in Slots, a # b, NEW k \in 1 .. CAPACITY - 1
  PROVE  /\ Dist(Slot(a, 1), b) = Dist(a, b) - 1
         /\ Slot(Slot(a, 1), k - 1) = Slot(a, k)
  BY CapacityAssumption DEF Slot, Dist, Slots

\* Every step of the queue is a push, a pop or nothing to the channel: a
\* push takes effect at the release store of tail, a pop at that of head.
LEMMA StepRefines == QueueInv /\ [QueueNext]_qvars => [Channel!Next]_(Channel!vars)
<1> SUFFICES ASSUME QueueInv, [QueueNext]_qvars PROVE [Channel!Next]_(Channel!vars)
  OBVIOUS
<1> USE CapacityAssumption
<1>0. /\ QueueTypeOK /\ IndexOrder /\ PushLocals /\ PopLocals
      /\ QueueTypeOK' /\ IndexOrder' /\ PushLocals' /\ PopLocals'
  BY NextQueueInv DEF QueueInv
<1>t. data \in [Slots -> Fds \cup {0}] /\ head \in Slots
  BY <1>0 DEF QueueTypeOK
<1>1. ASSUME UNCHANGED <<data, head, tail, got>> PROVE UNCHANGED Channel!vars
  BY <1>1 DEF Channel!vars, Contents
<1>2. ASSUME PushWrite PROVE UNCHANGED Channel!vars
  <2>1. t = tail /\ UNCHANGED <<head, tail, got>>
    BY <1>0, <1>2 DEF PushWrite, PushLocals, consumer
  <2>2. \A i \in 1 .. Dist(head, tail) :
           data'[Slot(head, i - 1)] = data[Slot(head, i - 1)]
    BY <2>1, <1>0, <1>2, OccupiedSlots DEF PushWrite, QueueTypeOK
  <2> QED
    BY <2>1, <2>2 DEF Channel!vars, Contents, Segment
<1>3. ASSUME PushStoreTail PROVE Channel!Next
  <2>1. /\ t = tail /\ pfd \in Fds /\ data[tail] = pfd
        /\ Slot(tail, 1) # vhead
        /\ tail' = Slot(tail, 1) /\ UNCHANGED <<data, head, got>>
    BY <1>0, <1>3 DEF PushStoreTail, PushLocals, consumer
  <2>2. Dist(head, tail') = Dist(head, tail) + 1
    <3>1. Dist(vhead, tail') = Dist(vhead, tail) + 1
      BY <2>1, <1>0, SlotNext DEF QueueTypeOK
    <3>2. Dist(vhead, tail') < CAPACITY /\ Dist(vhead, tail) \in Nat
      BY <1>0, <2>1, DistType DEF QueueTypeOK
    <3>3. Dist(head, tail) # CAPACITY - 1
      BY <3>1, <3>2, <1>0, FillBound
    <3> QED
      BY <3>3, <2>1, <1>0, SlotNext DEF QueueTypeOK
  <2>3. Dist(head, tail) \in Nat /\ Dist(head, tail) + 1 < CAPACITY
    BY <2>1, <2>2, <1>0, FillBound, DistType DEF QueueTypeOK
  <2>4. /\ Contents \in Seq(Fds \cup {0}) /\ Len(Contents) = Dist(head, tail)
        /\ \A i \in 1 .. Dist(head, tail) : Contents[i] = data[Slot(head, i - 1)]
    <3>1. Dist(head, tail) \in 0 .. CAPACITY
      BY <2>3
    <3> QED
      BY <3>1, <1>t, SegmentType DEF Contents
  <2>5. /\ Contents' \in Seq(Fds \cup {0}) /\ Len(Contents') = Dist(head, tail) + 1
        /\ \A i \in 1 .. Dist(head, tail) + 1 : Contents'[i] = data[Slot(head, i - 1)]
    <3>1. Contents' = Segment(data, head, Dist(head, tail) + 1)
      BY <2>1, <2>2 DEF Contents
    <3>2. Dist(head, tail) + 1 \in 0 .. CAPACITY
      BY <2>3
    <3> QED
      BY <3>1, <3>2, <1>t, SegmentType
  <2>6. Contents' = Append(Contents, pfd)
    <3>1. Contents'[Dist(head, tail) + 1] = pfd
      <4>1. /\ Slot(head, Dist(head, tail)) = tail
            /\ (Dist(head, tail) + 1) - 1 = Dist(head, tail)
            /\ Dist(head, tail) + 1 \in 1 .. Dist(head, tail) + 1
        BY <2>3, <1>0, OccupiedSlots
      <4> QED
        BY <4>1, <2>1, <2>5
    <3>2. \A i \in 1 .. Dist(head, tail) : Contents'[i] = Contents[i]
      BY <2>3, <2>4, <2>5
    <3> QED
      BY <3>1, <3>2, <2>3, <2>4, <2>5
  <2> QED
    BY <2>1, <2>3, <2>4, <2>6 DEF Channel!Next, Channel!Push
<1>4. ASSUME PopStoreHead PROVE Channel!Next
  <2>1. /\ head # vtail /\ cfd = data[head]
        /\ head' = Slot(head, 1) /\ got' = cfd /\ UNCHANGED <<data, tail>>
    BY <1>0, <1>4 DEF PopStoreHead, PopLocals, producer
  <2>2. head # tail /\ head' \in Slots
    BY <2>1, <1>0, NotEmpty DEF QueueTypeOK
  <2>3. Dist(head, tail) \in Nat /\ Dist(head, tail) > 0 /\ Dist(head, tail) < CAPACITY
    BY <2>2, <1>0, DistType DEF QueueTypeOK
  <2>4. Dist(head', tail) = Dist(head, tail) - 1
    <3>1. 1 \in 1 .. CAPACITY - 1
      BY <2>3
    <3> QED
      BY <3>1, <2>1, <2>2, <1>0, StartAdvances DEF QueueTypeOK
  <2>5. /\ Contents \in Seq(Fds \cup {0}) /\ Len(Contents) = Dist(head, tail)
        /\ \A i \in 1 .. Dist(head, tail) : Contents[i] = data[Slot(head, i - 1)]
    <3>1. Dist(head, tail) \in 0 .. CAPACITY
      BY <2>3
    <3> QED
      BY <3>1, <1>t, SegmentType DEF Contents
  <2>6. /\ Contents' \in Seq(Fds \cup {0}) /\ Len(Contents') = Dist(head, tail) - 1
        /\ \A i \in 1 .. Dist(head, tail) - 1 : Contents'[i] = Contents[i + 1]
    <3>1. Contents' = Segment(data, head', Dist(head, tail) - 1)
      BY <2>1, <2>4 DEF Contents
    <3>2. Dist(head, tail) - 1 \in 0 .. CAPACITY
      BY <2>3
    <3>3. /\ Contents' \in Seq(Fds \cup {0}) /\ Len(Contents') = Dist(head, tail) - 1
          /\ \A i \in 1 .. Dist(head, tail) - 1 : Contents'[i] = data[Slot(head', i - 1)]
      BY <3>1, <3>2, <2>2, <1>t, SegmentType
    <3>4. ASSUME NEW i \in 1 .. Dist(head, tail) - 1
          PROVE  Contents'[i] = Contents[i + 1]
      <4>1. Slot(head', i - 1) = Slot(head, i)
        BY <2>1, <2>2, <2>3, <1>0, StartAdvances DEF QueueTypeOK
      <4>2. i + 1 \in 1 .. Dist(head, tail) /\ (i + 1) - 1 = i
        BY <2>3
      <4> QED
        BY <4>1, <4>2, <3>3, <2>5
    <3> QED
      BY <3>3, <3>4
  <2>7. Contents' = Tail(Contents)
    BY <2>3, <2>4, <2>5, <2>6
  <2>8. Contents # << >> /\ Head(Contents) = cfd
    <3>1. Slot(head, 0) = head
      BY <1>0 DEF Slot, Slots, QueueTypeOK
    <3>2. Contents[1] = data[head]
      BY <3>1, <2>3, <2>5
    <3> QED
      BY <3>2, <2>1, <2>3, <2>5
  <2> QED
    BY <2>1, <2>7, <2>8 DEF Channel!Next, Channel!Pop
<1>5. CASE PushLoadHead \/ \E fd \in Fds : PushLoadTail(fd)
  BY <1>1, <1>5 DEF PushLoadHead, PushLoadTail, consumer
<1>6. CASE PopLoadHead \/ PopLoadTail \/ PopRead
  BY <1>1, <1>6 DEF PopLoadHead, PopLoadTail, PopRead
<1>7. CASE UNCHANGED qvars
  BY <1>1, <1>7 DEF qvars
<1> QED
  BY <1>2, <1>3, <1>4, <1>5, <1>6, <1>7 DEF QueueNext, Push, Pop

\* FdQueue is a FIFO channel for every capacity and every set of
\* descriptors: no descriptor the accept thread pushed is lost, repeated,
\* reordered or overwritten on its way to the worker.
THEOREM QueueImplementsChannel == QueueSpec => ImplementsChannel
<1>1. QueueInit => Channel!Init
  <2> SUFFICES ASSUME QueueInit PROVE Channel!Init
    OBVIOUS
  <2>1. 0 \in Slots /\ Dist(0, 0) = 0
    BY CapacityAssumption, DistType DEF Slots
  <2>2. Contents = << >>
    BY <2>1 DEF QueueInit, Contents, Segment
  <2> QED
    BY <2>2 DEF QueueInit, Channel!Init
<1> QED
  BY <1>1, StepRefines, QueueInvariance, PTL
     DEF QueueSpec, ImplementsChannel, Channel!Spec
====
