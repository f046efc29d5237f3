---- MODULE GracefulShutdown ----
(***************************************************************************)
(* io_uring/15_graceful_shutdown.cpp: the coroutine echo server with a     *)
(* signalfd polled on its ring.  The signal makes signal_watcher cancel    *)
(* what is under way on the listening socket and on every client, and the  *)
(* event loop ends when no client is left.                                 *)
(*                                                                         *)
(* The ring is set up with IORING_SETUP_DEFER_TASKRUN, so completions are  *)
(* posted only inside submit_and_wait: while an entry is submitted (an     *)
(* operation that need not wait, a cancellation) or while the call waits.  *)
(* The bytes are left out (module EchoServer has them): a result is only   *)
(* what the coroutines tell apart.                                         *)
(***************************************************************************)
EXTENDS IoRing

CONSTANT Fds     \* descriptors accept can return
ASSUME FdsAssumption == IsFiniteSet(Fds) /\ Fds \subseteq Nat \ {0}
ASSUME DepthAssumption == SqDepth >= 2      \* the ring is set up with 4096 entries

VARIABLES co,               \* what the coroutine of a client awaits
          client_fds, shutting_down,    \* ServerState
          open,             \* client descriptors open in the process
          signalled,        \* SIGINT or SIGTERM has been sent
          raced             \* history: after the shutdown began a completion
                            \* other than a cancellation kept somebody going

state == <<co, client_fds, shutting_down, raced>>
vars == <<ring, state, open, signalled>>

\* Results: bytes, a descriptor, or a negative errno.
FAILED == -1
ECANCELED == -125
PART == 1        \* send: some of the bytes; recv: any
ALL == 2         \* send: all of them

listen_fd == 0
Acceptor == [op |-> "accept", fd |-> listen_fd]
Poll == [op |-> "poll", fd |-> -1]
Recv(fd) == [op |-> "recv", fd |-> fd]
Send(fd) == [op |-> "send", fd |-> fd]
CancelFd(fd) == [op |-> "cancel", fd |-> fd]

Init == /\ up = TRUE /\ pc = "submit"
        /\ sq = <<Acceptor, Poll>>
        /\ flight = {} /\ cq = << >> /\ ready = 0
        /\ co = [fd \in Fds |-> "none"]
        /\ client_fds = {} /\ shutting_down = FALSE
        /\ open = {}
        /\ signalled = FALSE
        /\ raced = FALSE

----
\* The kernel.  What operation op can return now.
Results(op) == CASE op.op = "accept" -> (Fds \ open) \cup {FAILED}
                 [] op.op = "recv" -> {0, PART}
                 [] op.op = "send" -> {0, PART, ALL}
                 [] op.op = "poll" -> IF signalled THEN {1} ELSE {}

Returns(op, res) ==
  /\ res \in Results(op)
  /\ cq' = Append(cq, [op |-> op, res |-> res])
  /\ open' = IF op.op = "accept" /\ res # FAILED THEN open \cup {res} ELSE open

\* An entry is submitted and its operation has to wait ...
SubmitWaits ==
  /\ up /\ pc = "submit" /\ sq # << >>
  /\ Head(sq).op # "cancel"
  /\ flight' = flight \cup {Head(sq)}
  /\ sq' = Tail(sq)
  /\ UNCHANGED <<up, pc, cq, ready, state, open, signalled>>

\* ... or completes at once.
SubmitCompletes ==
  /\ up /\ pc = "submit" /\ sq # << >>
  /\ Head(sq).op # "cancel"
  /\ \E res \in Results(Head(sq)) : Returns(Head(sq), res)
  /\ sq' = Tail(sq)
  /\ UNCHANGED <<up, pc, flight, ready, state, signalled>>

\* cancel_fd with IORING_ASYNC_CANCEL_ALL: everything in flight on the
\* descriptor is cancelled; what has already completed is not.
SubmitCancel ==
  /\ up /\ pc = "submit" /\ sq # << >>
  /\ Head(sq).op = "cancel"
  /\ LET hit == {op \in flight : op.fd = Head(sq).fd}
         of(op) == [op |-> op, res |-> ECANCELED]
     IN  /\ flight' = flight \ hit
         /\ cq' = Append(cq \o SetToSeq({of(op) : op \in hit}),
                         [op |-> Head(sq), res |-> Cardinality(hit)])
  /\ sq' = Tail(sq)
  /\ UNCHANGED <<up, pc, ready, state, open, signalled>>

Submitted ==
  /\ up /\ pc = "submit" /\ sq = << >>
  /\ pc' = "wait"
  /\ UNCHANGED <<up, sq, flight, cq, ready, state, open, signalled>>

\* While submit_and_wait waits, operations complete.
Completes(op) ==
  /\ up /\ pc = "wait" /\ op \in flight
  /\ \E res \in Results(op) : Returns(op, res)
  /\ flight' = flight \ {op}
  /\ UNCHANGED <<up, pc, sq, ready, state, signalled>>

Signal == /\ up /\ ~signalled
          /\ signalled' = TRUE
          /\ UNCHANGED <<ring, state, open>>

----
\* The event loop.
WaitReturns == Wait /\ UNCHANGED <<state, open, signalled>>

\* A batch has been handled: go round, or leave the loop.
BatchDone ==
  /\ up /\ pc = "cqe" /\ ready = 0
  /\ pc' = IF shutting_down /\ client_fds = {} THEN "exited" ELSE "submit"
  /\ UNCHANGED <<up, sq, flight, cq, ready, state, open, signalled>>

\* Cancellations' own completions carry no request.
CancelCqe ==
  /\ Peek("cancel")
  /\ Seen
  /\ UNCHANGED <<up, sq, state, open, signalled>>

\* accept_loop goes on: it starts client_handler, which receives, and accepts
\* again.
Accepted ==
  /\ Peek("accept") /\ Res \in Fds
  /\ client_fds' = client_fds \cup {Res}
  /\ co' = [co EXCEPT ![Res] = "recv"]
  /\ Prepare(<<Recv(Res), Acceptor>>)
  /\ raced' = (raced \/ shutting_down)
  /\ Seen
  /\ UNCHANGED <<shutting_down, open, signalled>>

AcceptFailed ==
  /\ Peek("accept") /\ Res = FAILED
  /\ Prepare(<<Acceptor>>)
  /\ Seen
  /\ UNCHANGED <<state, open, signalled>>

AcceptCancelled ==
  /\ Peek("accept") /\ Res = ECANCELED
  /\ Seen
  /\ UNCHANGED <<up, sq, state, open, signalled>>

\* client_handler goes on: recv > 0 is sent, the rest of a short send is
\* sent, and a complete one is followed by the next recv.
ClientGoesOn ==
  /\ Peek("recv") \/ Peek("send")
  /\ Res > 0
  /\ LET next == IF Op.op = "recv" \/ Res = PART THEN "send" ELSE "recv"
     IN  /\ co' = [co EXCEPT ![Op.fd] = next]
         /\ Prepare(<<[op |-> next, fd |-> Op.fd]>>)
  /\ raced' = (raced \/ shutting_down)
  /\ Seen
  /\ UNCHANGED <<client_fds, shutting_down, open, signalled>>

\* Mutant: the descriptor stays in client_fds.
ClientEndsUntracked ==
  /\ Peek("recv") \/ Peek("send")
  /\ Res <= 0
  /\ co' = [co EXCEPT ![Op.fd] = "none"]
  /\ open' = open \ {Op.fd}
  /\ Seen
  /\ UNCHANGED <<up, sq, client_fds, shutting_down, signalled, raced>>

\* recv or send returned <= 0: close(fd), and the coroutine ends.
ClientEnds ==
  /\ Peek("recv") \/ Peek("send")
  /\ Res <= 0
  /\ co' = [co EXCEPT ![Op.fd] = "none"]
  /\ open' = open \ {Op.fd}
  /\ client_fds' = client_fds \ {Op.fd}
  /\ Seen
  /\ UNCHANGED <<up, sq, shutting_down, signalled, raced>>

\* Mutant: only clients that are waiting for data are cancelled.
SignalCqeReceivers ==
  /\ Peek("poll")
  /\ shutting_down' = TRUE
  /\ LET idle == {fd \in client_fds : co[fd] = "recv"}
     IN  Prepare(<<CancelFd(listen_fd)>> \o SetToSeq({CancelFd(fd) : fd \in idle}))
  /\ Seen
  /\ UNCHANGED <<co, client_fds, open, signalled, raced>>

\* Mutant: every client's operation is cancelled twice.
SignalCqeTwice ==
  /\ Peek("poll")
  /\ shutting_down' = TRUE
  /\ LET all == SetToSeq({CancelFd(fd) : fd \in client_fds})
     IN  Prepare(<<CancelFd(listen_fd)>> \o all \o all)
  /\ Seen
  /\ UNCHANGED <<co, client_fds, open, signalled, raced>>

\* signal_watcher: one cancellation for the listening socket and one for each
\* client there is now.
SignalCqe ==
  /\ Peek("poll")
  /\ shutting_down' = TRUE
  /\ Prepare(<<CancelFd(listen_fd)>> \o SetToSeq({CancelFd(fd) : fd \in client_fds}))
  /\ Seen
  /\ UNCHANGED <<co, client_fds, open, signalled, raced>>

Handle == \/ CancelCqe \/ Accepted \/ AcceptFailed \/ AcceptCancelled
          \/ ClientGoesOn \/ ClientEnds \/ SignalCqe

Server == \/ SubmitWaits \/ SubmitCompletes \/ SubmitCancel \/ Submitted
          \/ WaitReturns \/ BatchDone \/ Handle

Ops == {Acceptor, Poll} \cup {Recv(fd) : fd \in Fds} \cup {Send(fd) : fd \in Fds}

Next == Server \/ Signal \/ \E op \in Ops : Completes(op)

Spec == Init /\ [][Next]_vars

\* The server's thread runs, and the kernel looks at a readable signalfd
\* every time it waits.  Clients need not do anything.
FairSpec == Spec /\ WF_vars(Server) /\ SF_vars(Completes(Poll))

----
TypeOK == /\ up \in BOOLEAN /\ pc \in {"submit", "wait", "cqe", "exited"}
          /\ Len(sq) <= SqDepth /\ ready <= Len(cq)
          /\ flight \subseteq Ops
          /\ client_fds \subseteq Fds /\ open \subseteq Fds

\* The registry the shutdown relies on is exact, in every interleaving of
\* closes, reused descriptors and cancellations: a client is in client_fds
\* exactly while its coroutine lives, with one operation under way, on a
\* descriptor that is open.
RegistryExact ==
  /\ TypeOK
  /\ up => \A fd \in Fds :
             /\ PendingTimes(Recv(fd)) + PendingTimes(Send(fd)) =
                  (IF fd \in client_fds THEN 1 ELSE 0)
             /\ fd \in client_fds <=> co[fd] # "none"
             /\ fd \in client_fds => fd \in open

\* The cancellations come on top of the batch's own entries: twice the
\* clients and two are enough for the queue not to overflow (an overflow in
\* a coroutine ends in std::terminate).
ShutdownFits == SqDepth >= 2 * Cardinality(Fds) + 2 => up

\* What the shutdown does achieve: when every completion handled after the
\* signal is a cancellation, or the end of a client, the loop ends.
ShutdownUnlessRaced == shutting_down ~> (pc = "exited" \/ raced \/ ~up)

\* The header's "Cancel all in-flight recv/send operations ... Exit
\* cleanly".  A recv or accept that completed in the same batch as the
\* signal, or at submission just before its cancellation, is not cancelled;
\* its coroutine starts another operation and waits for the client for ever.
ShutdownCompletes == signalled ~> (pc = "exited" \/ ~up)
====
