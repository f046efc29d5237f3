---- MODULE MultithreadEcho ----
(***************************************************************************)
(* io_uring/19_multithread_echo.cpp: one accept thread deals connections   *)
(* round-robin to worker threads.  Each worker has a descriptor queue (the *)
(* FIFO channel FdQueue implements), an eventfd that wakes it, and a ring  *)
(* of its own on which it polls the eventfd and serves its clients.        *)
(*                                                                         *)
(* Data left out: the bytes echoed (module EchoServer has them).  A result *)
(* of recv or send is kept only as far as client_handler tells it apart.   *)
(***************************************************************************)
EXTENDS FdHandover, FiniteSets

CONSTANTS NumWorkers,   \* worker threads (hardware_concurrency - 1)
          SqDepth,      \* submission queue entries of a worker's ring
          CounterWrap   \* 2^w for the unsigned next_worker

ASSUME NumWorkersAssumption == NumWorkers \in Nat \ {0}
ASSUME SqDepthAssumption == SqDepth \in Nat \ {0}
ASSUME CounterAssumption == CounterWrap \in Nat \ {0}

Workers == 0 .. NumWorkers - 1

\* The user_data of the eventfd poll; a client's operation is tagged with
\* its coroutine, of which there is one per descriptor.
NEW_CONN_TAG == 0
ASSUME TagAssumption == NEW_CONN_TAG \notin Fds
Ops == Fds \cup {NEW_CONN_TAG}

VARIABLES up,           \* FALSE once std::terminate ended the process
          open,         \* descriptors open in the process
          apc, afd, next_worker,    \* accept thread
          queue, efd,   \* per worker: descriptor queue; eventfd counter is nonzero
          wpc,          \* per worker: where its loop is
          sq, kernel, cq, batch,    \* per worker ring: operations queued, submitted,
                                    \* completed, and counted in ready
          co            \* per descriptor: what its coroutine awaits

vars == <<up, open, apc, afd, next_worker, queue, efd, wpc, sq, kernel, cq, batch, co>>
rings == <<sq, kernel, cq, batch>>
acceptor == <<apc, afd, next_worker>>

target == next_worker % NumWorkers

Init == /\ up = TRUE
        /\ open = {}
        /\ apc = "wait" /\ afd = 0 /\ next_worker = 0
        /\ queue = [w \in Workers |-> << >>]
        /\ efd = [w \in Workers |-> FALSE]
        /\ wpc = [w \in Workers |-> "submit"]
        /\ sq = [w \in Workers |-> {NEW_CONN_TAG}]    \* the first submit_poll()
        /\ kernel = [w \in Workers |-> {}]
        /\ cq = [w \in Workers |-> {}]
        /\ batch = [w \in Workers |-> {}]
        /\ co = [fd \in Fds |-> "none"]

----
\* Accept thread.  An accept that fails is re-armed and changes nothing.
Accept(fd) ==
  /\ up /\ apc = "wait"
  /\ fd \notin open
  /\ open' = open \cup {fd}
  /\ afd' = fd
  /\ apc' = "push"
  /\ UNCHANGED <<up, next_worker, queue, efd, wpc, rings, co>>

\* w.queue.push(client_fd): its result is not looked at.
PushFd ==
  /\ up /\ apc = "push"
  /\ queue' = [queue EXCEPT ![target] =
                 IF Len(@) < CAPACITY - 1 THEN Append(@, afd) ELSE @]
  /\ apc' = "wake"
  /\ UNCHANGED <<up, open, afd, next_worker, efd, wpc, rings, co>>

\* Mutant: the counter moves on before the eventfd is written.
WakeNextWorker ==
  /\ up /\ apc = "wake"
  /\ next_worker' = (next_worker + 1) % CounterWrap
  /\ efd' = [efd EXCEPT ![next_worker' % NumWorkers] = TRUE]
  /\ apc' = "wait"
  /\ UNCHANGED <<up, open, afd, queue, wpc, rings, co>>

\* write(w.eventfd_val), next_worker++, and the accept is armed again.
WakeWorker ==
  /\ up /\ apc = "wake"
  /\ efd' = [efd EXCEPT ![target] = TRUE]
  /\ next_worker' = (next_worker + 1) % CounterWrap
  /\ apc' = "wait"
  /\ UNCHANGED <<up, open, afd, queue, wpc, rings, co>>

----
\* ring.get_sqe() for operation op: throws when the submission queue is full.
\* Nothing catches it on a worker thread, so std::terminate ends the process.
GetSqe(w, op) ==
  IF Cardinality(sq[w]) < SqDepth
  THEN /\ sq' = [sq EXCEPT ![w] = @ \cup {op}]
       /\ up' = up
  ELSE /\ up' = FALSE
       /\ sq' = sq

\* submit_and_wait: everything queued is submitted ...
Submit(w) ==
  /\ up /\ wpc[w] = "submit"
  /\ kernel' = [kernel EXCEPT ![w] = @ \cup sq[w]]
  /\ sq' = [sq EXCEPT ![w] = {}]
  /\ wpc' = [wpc EXCEPT ![w] = "wait"]
  /\ UNCHANGED <<up, open, acceptor, queue, efd, cq, batch, co>>

\* ... and it returns the number of completions there are by then.
Wait(w) ==
  /\ up /\ wpc[w] = "wait"
  /\ cq[w] # {}
  /\ batch' = [batch EXCEPT ![w] = cq[w]]
  /\ cq' = [cq EXCEPT ![w] = {}]
  /\ wpc' = [wpc EXCEPT ![w] = "cqe"]
  /\ UNCHANGED <<up, open, acceptor, queue, efd, sq, kernel, co>>

EndBatch(w) ==
  /\ up /\ wpc[w] = "cqe"
  /\ batch[w] = {}
  /\ wpc' = [wpc EXCEPT ![w] = "submit"]
  /\ UNCHANGED <<up, open, acceptor, queue, efd, rings, co>>

\* peek and seen of the poll's completion.  A poll of a valid eventfd
\* completes only when it is readable, so res > 0.
NewConnCqe(w) ==
  /\ up /\ wpc[w] = "cqe"
  /\ NEW_CONN_TAG \in batch[w]
  /\ batch' = [batch EXCEPT ![w] = @ \ {NEW_CONN_TAG}]
  /\ wpc' = [wpc EXCEPT ![w] = "read"]
  /\ UNCHANGED <<up, open, acceptor, queue, efd, sq, kernel, cq, co>>

\* read(efd) takes the whole counter.
ReadEventfd(w) ==
  /\ up /\ wpc[w] = "read"
  /\ efd' = [efd EXCEPT ![w] = FALSE]
  /\ wpc' = [wpc EXCEPT ![w] = "drain"]
  /\ UNCHANGED <<up, open, acceptor, queue, rings, co>>

\* while (queue.pop(fd)) client_handler(ring, fd): the coroutine runs until
\* it has queued its first recv.
DrainOne(w) ==
  /\ up /\ wpc[w] = "drain"
  /\ queue[w] # << >>
  /\ queue' = [queue EXCEPT ![w] = Tail(@)]
  /\ co' = [co EXCEPT ![Head(queue[w])] = "recv"]
  /\ GetSqe(w, Head(queue[w]))
  /\ UNCHANGED <<open, acceptor, efd, wpc, kernel, cq, batch>>

\* Mutant: the poll is armed again after one pop, whatever is left.
DrainEndEarly(w) ==
  /\ up /\ wpc[w] = "drain"
  /\ GetSqe(w, NEW_CONN_TAG)
  /\ wpc' = [wpc EXCEPT ![w] = "cqe"]
  /\ UNCHANGED <<open, acceptor, queue, efd, kernel, cq, batch, co>>

\* pop returned false: submit_poll().
DrainEnd(w) ==
  /\ up /\ wpc[w] = "drain"
  /\ queue[w] = << >>
  /\ GetSqe(w, NEW_CONN_TAG)
  /\ wpc' = [wpc EXCEPT ![w] = "cqe"]
  /\ UNCHANGED <<open, acceptor, queue, efd, kernel, cq, batch, co>>

\* req->handle.resume() when the awaited result makes the coroutine go on:
\* recv > 0 starts a send, a short send sends the rest, a complete one
\* receives again.
ResumeContinue(w, fd) ==
  /\ up /\ wpc[w] = "cqe"
  /\ fd \in batch[w]
  /\ batch' = [batch EXCEPT ![w] = @ \ {fd}]
  /\ \E next \in {"recv", "send"} :
       /\ co[fd] = "recv" => next = "send"
       /\ co' = [co EXCEPT ![fd] = next]
  /\ GetSqe(w, fd)
  /\ UNCHANGED <<open, acceptor, queue, efd, wpc, kernel, cq>>

\* Mutant: the descriptor is closed and the coroutine keeps receiving on it.
ResumeCloseAndGoOn(w, fd) ==
  /\ up /\ wpc[w] = "cqe"
  /\ fd \in batch[w]
  /\ batch' = [batch EXCEPT ![w] = @ \ {fd}]
  /\ open' = open \ {fd}
  /\ co' = [co EXCEPT ![fd] = "recv"]
  /\ GetSqe(w, fd)
  /\ UNCHANGED <<acceptor, queue, efd, wpc, kernel, cq>>

\* recv or send returned <= 0: close(fd) and the coroutine ends.
ResumeClose(w, fd) ==
  /\ up /\ wpc[w] = "cqe"
  /\ fd \in batch[w]
  /\ batch' = [batch EXCEPT ![w] = @ \ {fd}]
  /\ open' = open \ {fd}
  /\ co' = [co EXCEPT ![fd] = "none"]
  /\ UNCHANGED <<up, acceptor, queue, efd, wpc, sq, kernel, cq>>

----
\* The kernel: the poll completes when the eventfd counter is nonzero (also
\* when it already was when the poll was armed), a client's operation when
\* the client does something.
PollFires(w) ==
  /\ up /\ NEW_CONN_TAG \in kernel[w]
  /\ efd[w]
  /\ kernel' = [kernel EXCEPT ![w] = @ \ {NEW_CONN_TAG}]
  /\ cq' = [cq EXCEPT ![w] = @ \cup {NEW_CONN_TAG}]
  /\ UNCHANGED <<up, open, acceptor, queue, efd, wpc, sq, batch, co>>

OpCompletes(w, fd) ==
  /\ up /\ fd \in kernel[w]
  /\ kernel' = [kernel EXCEPT ![w] = @ \ {fd}]
  /\ cq' = [cq EXCEPT ![w] = @ \cup {fd}]
  /\ UNCHANGED <<up, open, acceptor, queue, efd, wpc, sq, batch, co>>

WorkerStep(w) == \/ Submit(w) \/ Wait(w) \/ EndBatch(w)
                 \/ NewConnCqe(w) \/ ReadEventfd(w) \/ DrainOne(w) \/ DrainEnd(w)
                 \/ \E fd \in Fds : ResumeContinue(w, fd) \/ ResumeClose(w, fd)

Next == \/ \E fd \in Fds : Accept(fd)
        \/ PushFd \/ WakeWorker
        \/ \E w \in Workers : \/ WorkerStep(w) \/ PollFires(w)
                              \/ \E fd \in Fds : OpCompletes(w, fd)

Spec == Init /\ [][Next]_vars

\* The operating system runs every thread that can run, and the kernel
\* reports a readable eventfd.  Clients need not do anything.
Fairness == /\ WF_vars(PushFd \/ WakeWorker)
            /\ \A w \in Workers : WF_vars(WorkerStep(w)) /\ WF_vars(PollFires(w))

FairSpec == Spec /\ Fairness

----
TypeOK ==
  /\ up \in BOOLEAN
  /\ open \subseteq Fds
  /\ apc \in {"wait", "push", "wake"}
  /\ afd \in Ops /\ (apc # "wait" => afd \in Fds)
  /\ next_worker \in Nat
  /\ queue \in [Workers -> Seq(Fds)]
  /\ efd \in [Workers -> BOOLEAN]
  /\ wpc \in [Workers -> {"submit", "wait", "cqe", "read", "drain"}]
  /\ sq \in [Workers -> SUBSET Ops]
  /\ kernel \in [Workers -> SUBSET Ops]
  /\ cq \in [Workers -> SUBSET Ops]
  /\ batch \in [Workers -> SUBSET Ops]
  /\ co \in [Fds -> {"none", "recv", "send"}]

\* Worker w will look at its queue without being woken again.
Watching(w) == \/ NEW_CONN_TAG \in cq[w] \cup batch[w]
               \/ wpc[w] \in {"read", "drain"}

\* The poll is armed or about to be.
PollPending(w) == NEW_CONN_TAG \in sq[w] \cup kernel[w]

\* No lost wakeup: a worker that has descriptors in its queue is about to
\* look at them, or its eventfd is readable and polled, or the accept thread
\* is just about to write the eventfd.
NoLostWakeup ==
  up => \A w \in Workers : queue[w] # << >> =>
          \/ Watching(w)
          \/ efd[w] /\ PollPending(w)
          \/ apc = "wake" /\ target = w

\* A worker always has its poll somewhere on its way round the ring.
PollOnItsWay == up => \A w \in Workers : Watching(w) \/ PollPending(w)

\* A worker waits for completions only when it has handled those it had.
BatchConsumed == \A w \in Workers : wpc[w] \in {"submit", "wait"} => batch[w] = {}

WakeupInv == TypeOK /\ BatchConsumed /\ PollOnItsWay /\ NoLostWakeup

\* How many hold descriptor fd: the accept thread, places of queues, and
\* coroutines, through the operation each has on a ring.
InQueue(fd) == UNION {{<<w, i>> : i \in {j \in 1 .. Len(queue[w]) : queue[w][j] = fd}}
                        : w \in Workers}
OnRing(fd) == \E w \in Workers : fd \in sq[w] \cup kernel[w] \cup cq[w] \cup batch[w]
Holders(fd) == Cardinality(InQueue(fd)) + Cardinality({w \in Workers : fd \in sq[w]})
               + Cardinality({w \in Workers : fd \in kernel[w]})
               + Cardinality({w \in Workers : fd \in cq[w] \cup batch[w]})
               + (IF apc = "push" /\ afd = fd THEN 1 ELSE 0)

\* A descriptor number, reused by the kernel as soon as it is closed, never
\* has two holders, and whoever holds one holds an open one: no two
\* coroutines serve one connection and none touches a closed descriptor.
OneHolder ==
  \A fd \in Fds : /\ Holders(fd) <= 1
                  /\ Holders(fd) = 1 => fd \in open
                  /\ up => (co[fd] # "none" <=> OnRing(fd))

\* A descriptor that reached a worker's queue is taken out by the worker and
\* served by a coroutine (unless the process is terminated first).
QueuedIsServed ==
  \A fd \in Fds : InQueue(fd) # {} ~> (co[fd] = "recv" \/ ~up)

\* The header's "pushes new fds into each worker's SPSC queue": every open
\* descriptor is held by the accept thread, a queue or a coroutine.
EveryConnectionDelivered == up => \A fd \in open : Holders(fd) = 1
====
