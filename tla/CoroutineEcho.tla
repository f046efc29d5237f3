---- MODULE CoroutineEcho ----
(***************************************************************************)
(* The echo servers written as one coroutine per client, resumed by the    *)
(* completion it awaits:                                                   *)
(*   plain     io_uring/12_coroutine_echo.cpp                              *)
(*   timeout   io_uring/14_timeout.cpp: recv is linked to a timeout, whose *)
(*             own completion carries a dummy request                      *)
(*   splice    io_uring/17_splice_echo.cpp: the bytes go through a pipe    *)
(*   slots     io_uring/18_registered_fds.cpp: a connection is a slot of   *)
(*             the registered file table and is closed by an operation     *)
(*                                                                         *)
(* io_uring/13_file_server.cpp ("files") shares their accept loop and      *)
(* event loop; the rest of it is module FileServer.                        *)
(*                                                                         *)
(* splice into and out of the pipe are called recv and send here; what is  *)
(* in the pipe is the part of buf not yet sent.  Bytes are numbered as in  *)
(* EchoService.                                                            *)
(***************************************************************************)
EXTENDS IoRing

CONSTANTS Variants,     \* the servers
          Fds,          \* descriptors, or slots, accept can return
          BufSize,      \* bytes received at once
          MaxBytes,     \* bound: bytes received on one connection
          MaxConns      \* bound: connections accepted

ASSUME VariantsAssumption == Variants \subseteq {"plain", "timeout", "splice", "slots", "files"}
ASSUME FdsAssumption == IsFiniteSet(Fds) /\ Fds \subseteq Nat \ {0}
ASSUME BufAssumption == BufSize \in Nat \ {0}
ASSUME BoundAssumption == MaxBytes \in Nat /\ MaxConns \in Nat

VARIABLES variant,      \* which of the servers: never changes
          co,           \* per client: what its coroutine awaits
          buf, sent,    \* its buffer (the bytes received last) and total_sent
          conns, read, echoed,  \* connections; bytes received from the client,
                        \* and come back to it
          accepted      \* connections so far

coroutines == <<variant, co, buf, sent>>
network == <<conns, read, echoed, accepted>>
vars == <<ring, coroutines, network>>

FAILED == -1
ECANCELED == -125

\* A recv and the timeout linked to it share ev, which no other timeout of
\* that client has.
Acceptor == [op |-> "accept", fd |-> 0, ev |-> 0]
Tagged(kind, fd, n) == [op |-> kind, fd |-> fd, ev |-> n]
Send(fd) == Tagged("send", fd, 0)
CloseSlot(fd) == Tagged("close", fd, 0)

FreshEv(fd) == LET old == {op \in Pending : op.op = "timeout" /\ op.fd = fd}
                   used == {op.ev : op \in old}
               IN  CHOOSE n \in 0 .. Cardinality(used) : n \notin used

\* Mutant: only a client's first recv has a timeout.
RecvOpsFirstOnly(fd) ==
  LET n == FreshEv(fd)
  IN  IF variant = "timeout" /\ co[fd] = "none"
      THEN <<Tagged("recv", fd, n), Tagged("timeout", fd, n)>>
      ELSE <<Tagged("recv", fd, n)>>

\* What co_await of a recv puts into the queue.
RecvOps(fd) == LET n == FreshEv(fd)
               IN  IF variant = "timeout"
                   THEN <<Tagged("recv", fd, n), Tagged("timeout", fd, n)>>
                   ELSE <<Tagged("recv", fd, n)>>

Init == /\ variant \in Variants
        /\ RingInit(Acceptor)
        /\ co = [fd \in Fds |-> "none"]
        /\ buf = [fd \in Fds |-> << >>]
        /\ sent = [fd \in Fds |-> 0]
        /\ conns = {}
        /\ read = [fd \in Fds |-> 0]
        /\ echoed = [fd \in Fds |-> << >>]
        /\ accepted = 0

----
LoopStep == (Submit \/ Wait \/ EndBatch) /\ UNCHANGED <<coroutines, network>>

\* accept_loop: client_handler runs to its first recv, then accept again.
Accepted ==
  /\ Peek("accept") /\ Res # FAILED
  /\ co' = [co EXCEPT ![Res] = "recv"]
  /\ Prepare(RecvOps(Res) \o <<Acceptor>>)
  /\ Seen
  /\ UNCHANGED <<variant, buf, sent, network>>

\* Mutant: the client is not closed when pipe2 fails.
NoPipeLeaks ==
  /\ Peek("accept") /\ Res # FAILED
  /\ variant = "splice"
  /\ Prepare(<<Acceptor>>)
  /\ Seen
  /\ UNCHANGED <<coroutines, network>>

\* pipe2 fails in client_handler: the client is closed, and accept goes on.
NoPipe ==
  /\ Peek("accept") /\ Res # FAILED
  /\ variant = "splice"
  /\ conns' = conns \ {Res}
  /\ Prepare(<<Acceptor>>)
  /\ Seen
  /\ UNCHANGED <<coroutines, read, echoed, accepted>>

AcceptFailed ==
  /\ Peek("accept") /\ Res = FAILED
  /\ Prepare(<<Acceptor>>)
  /\ Seen
  /\ UNCHANGED <<coroutines, network>>

\* Mutant: the next recv is armed together with the send.
RecvResumesBoth ==
  /\ Peek("recv") /\ Res > 0
  /\ co' = [co EXCEPT ![Op.fd] = "send"]
  /\ sent' = [sent EXCEPT ![Op.fd] = 0]
  /\ Prepare(<<Send(Op.fd)>> \o RecvOps(Op.fd))
  /\ Seen
  /\ UNCHANGED <<variant, buf, network>>

\* recv > 0: send what has been received.
RecvResumes ==
  /\ Peek("recv") /\ Res > 0
  /\ co' = [co EXCEPT ![Op.fd] = "send"]
  /\ sent' = [sent EXCEPT ![Op.fd] = 0]
  /\ Prepare(<<Send(Op.fd)>>)
  /\ Seen
  /\ UNCHANGED <<variant, buf, network>>

\* Mutant: total_sent is not advanced.
SendResumesFromStart ==
  /\ Peek("send") /\ Res > 0
  /\ LET more == sent[Op.fd] + Res < Len(buf[Op.fd])
     IN  /\ co' = [co EXCEPT ![Op.fd] = IF more THEN "send" ELSE "recv"]
         /\ Prepare(IF more THEN <<Send(Op.fd)>> ELSE RecvOps(Op.fd))
  /\ Seen
  /\ UNCHANGED <<variant, buf, sent, network>>

\* send > 0: send the rest, or receive again.
SendResumes ==
  /\ Peek("send") /\ Res > 0
  /\ sent' = [sent EXCEPT ![Op.fd] = @ + Res]
  /\ LET more == sent'[Op.fd] < Len(buf[Op.fd])
     IN  /\ co' = [co EXCEPT ![Op.fd] = IF more THEN "send" ELSE "recv"]
         /\ Prepare(IF more THEN <<Send(Op.fd)>> ELSE RecvOps(Op.fd))
  /\ Seen
  /\ UNCHANGED <<variant, buf, network>>

\* recv or send <= 0 (a recv that timed out has -ECANCELED): close(fd), and
\* the coroutine ends.
Closes ==
  /\ Peek("recv") \/ Peek("send")
  /\ Res <= 0 /\ variant # "slots"
  /\ co' = [co EXCEPT ![Op.fd] = "none"]
  /\ conns' = conns \ {Op.fd}
  /\ Seen
  /\ UNCHANGED <<up, sq, variant, buf, sent, read, echoed, accepted>>

\* The same with a slot, which only an operation can close.
StartsClosing ==
  /\ Peek("recv") \/ Peek("send")
  /\ Res <= 0 /\ variant = "slots"
  /\ co' = [co EXCEPT ![Op.fd] = "close"]
  /\ Prepare(<<CloseSlot(Op.fd)>>)
  /\ Seen
  /\ UNCHANGED <<variant, buf, sent, network>>

\* The slot is closed and the coroutine ends.
SlotClosed ==
  /\ Peek("close")
  /\ co' = [co EXCEPT ![Op.fd] = "none"]
  /\ Seen
  /\ UNCHANGED <<up, sq, variant, buf, sent, network>>

\* Mutant: a timeout's completion resumes the client's coroutine.
TimeoutResumes ==
  /\ Peek("timeout")
  /\ co' = [co EXCEPT ![Op.fd] = "none"]
  /\ conns' = conns \ {Op.fd}
  /\ Seen
  /\ UNCHANGED <<up, sq, variant, buf, sent, read, echoed, accepted>>

\* The completion of a timeout: its dummy request is deleted.
TimeoutCqe ==
  /\ Peek("timeout")
  /\ Seen
  /\ UNCHANGED <<up, sq, coroutines, network>>

----
\* The kernel and the clients.  The rings are set up with
\* IORING_SETUP_DEFER_TASKRUN: completions are posted inside submit_and_wait.
Completes(op, res) == pc = "wait" /\ Complete(op, res)

AcceptCompletes(fd) ==
  /\ fd \notin conns /\ accepted < MaxConns
  /\ Completes(Acceptor, fd)
  /\ conns' = conns \cup {fd}
  /\ read' = [read EXCEPT ![fd] = 0]
  /\ echoed' = [echoed EXCEPT ![fd] = << >>]
  /\ accepted' = accepted + 1
  /\ UNCHANGED coroutines

AcceptFails ==
  /\ accepted < MaxConns
  /\ Completes(Acceptor, FAILED)
  /\ accepted' = accepted + 1
  /\ UNCHANGED <<coroutines, conns, read, echoed>>

RecvOf(fd) == {op \in flight : op.op = "recv" /\ op.fd = fd}

\* The recv of fd finishes with result res.  The completion of its timeout
\* comes just before it or on its own later, but before the next recv ends.
TimeoutOf(fd) == {t \in flight : t.op = "timeout" /\ t.fd = fd}

RecvEnds(fd, res) ==
  \E recv \in RecvOf(fd) :
    /\ \A t \in TimeoutOf(fd) : t.ev = recv.ev
    /\ \/ Completes(recv, res)
       \/ \E t \in TimeoutOf(fd) :
            /\ up /\ pc = "wait"
            /\ flight' = flight \ {recv, t}
            /\ cq' = cq \o <<[op |-> t, res |-> ECANCELED], [op |-> recv, res |-> res]>>
            /\ UNCHANGED <<up, pc, sq, ready>>

RecvCompletes(fd, n) ==
  /\ n <= BufSize /\ read[fd] + n <= MaxBytes
  /\ RecvEnds(fd, n)
  /\ buf' = [buf EXCEPT ![fd] = [k \in 1 .. n |-> read[fd] + k]]
  /\ read' = [read EXCEPT ![fd] = @ + n]
  /\ UNCHANGED <<variant, co, sent, conns, echoed, accepted>>

SendCompletes(fd, n) ==
  /\ sent[fd] + n <= Len(buf[fd])
  /\ Completes(Send(fd), n)
  /\ echoed' = [echoed EXCEPT ![fd] = @ \o SubSeq(buf[fd], sent[fd] + 1, sent[fd] + n)]
  /\ UNCHANGED <<coroutines, conns, read, accepted>>

\* The client is gone, or the operation fails.
OpFails(fd) ==
  /\ RecvEnds(fd, 0) \/ Completes(Send(fd), 0)
  /\ UNCHANGED <<coroutines, network>>

\* close_direct frees the slot.
CloseCompletes(fd) ==
  /\ Completes(CloseSlot(fd), 0)
  /\ conns' = conns \ {fd}
  /\ UNCHANGED <<coroutines, read, echoed, accepted>>

\* The timeout expires while the recv it is linked to is under way: the recv
\* is cancelled.
TimeoutExpires(fd) ==
  /\ TimeoutOf(fd) # {} /\ RecvEnds(fd, ECANCELED)
  /\ UNCHANGED <<coroutines, network>>

TimeoutEnds(fd) ==
  /\ \E t \in TimeoutOf(fd) : /\ t.ev \notin {op.ev : op \in RecvOf(fd)}
                              /\ Completes(t, ECANCELED)
  /\ UNCHANGED <<coroutines, network>>

Server == \/ LoopStep
          \/ Accepted \/ NoPipe \/ AcceptFailed
          \/ RecvResumes \/ SendResumes
          \/ Closes \/ StartsClosing \/ SlotClosed \/ TimeoutCqe

Served(fd) == \/ \E n \in 1 .. BufSize : RecvCompletes(fd, n) \/ SendCompletes(fd, n)
              \/ CloseCompletes(fd) \/ TimeoutExpires(fd) \/ TimeoutEnds(fd)

Next == \/ Server \/ AcceptFails
        \/ \E fd \in Fds : \/ AcceptCompletes(fd)
                           \/ Served(fd) \/ OpFails(fd)

Spec == Init /\ [][Next]_vars

----
TypeOK == /\ variant \in Variants
          /\ up \in BOOLEAN /\ pc \in {"submit", "wait", "cqe"}
          /\ Len(sq) <= SqDepth /\ ready <= Len(cq)
          /\ conns \subseteq Fds
          /\ \A fd \in Fds : /\ Len(buf[fd]) <= BufSize /\ sent[fd] <= BufSize
                             /\ read[fd] <= MaxBytes

\* A recv and its timeout need two entries: twice the clients and one is a
\* queue that never overflows, in whatever order completions come.
StaysUp == SqDepth >= 2 * Cardinality(Fds) + 1 => up

\* A completion resumes the coroutine that awaits it and finds it there: each
\* live coroutine has one operation under way, of the kind it awaits, and
\* nobody else has one, though descriptors and slots are used again and the
\* completions of old timeouts are still to come.  And no descriptor is lost,
\* also not where pipe2 fails: one that is open has a coroutine, which closes it
\* in the end, or accept's completion, which starts one, is still to come.
Under(fd, kind) == {op \in Pending : op.op = kind /\ op.fd = fd}
Arriving(fd) == \E k \in DOMAIN cq : cq[k].op = Acceptor /\ cq[k].res = fd
OneAwait ==
  /\ TypeOK /\ StaysUp
  /\ up => /\ \A fd \in Fds, kind \in {"recv", "send", "read", "close"} :
               /\ Cardinality(Under(fd, kind)) = (IF co[fd] = kind THEN 1 ELSE 0)
               /\ co[fd] \in {"recv", "send", "read"} => fd \in conns
           /\ \A fd \in conns : co[fd] # "none" \/ Arriving(fd)

\* What comes back on a connection is a prefix of what the client wrote (and
\* the server has received).
Service == INSTANCE EchoService WITH wrote <- read
ImplementsService == Service!Spec
====
