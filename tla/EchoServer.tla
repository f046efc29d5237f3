---- MODULE EchoServer ----
(***************************************************************************)
(* The echo servers that share io_uring/07_echo_common.hpp: exercise 07    *)
(* (batched), its naive variant, and exercise 09 (SQPOLL).  They differ in *)
(* when operations reach the kernel:                                       *)
(*   batched   with the next submit_and_wait, after a whole batch;         *)
(*   naive     by submit() after every completion;                         *)
(*   sqpoll    when the kernel's polling thread takes what submit() has    *)
(*             made visible to it.                                         *)
(*                                                                         *)
(* A connection is named by its descriptor, which the kernel gives out     *)
(* again once it is closed.  Its bytes are numbered as in EchoService.     *)
(***************************************************************************)
EXTENDS IoRing

CONSTANTS Fds,          \* descriptors accept can return
          BufSize,      \* CLIENT_BUF_SIZE
          MaxBytes,     \* bound: bytes a client writes on one connection
          MaxConns      \* bound: connections accepted

ASSUME FdsAssumption == IsFiniteSet(Fds) /\ Fds \subseteq Nat
ASSUME BufAssumption == BufSize \in Nat \ {0}
ASSUME BoundAssumption == MaxBytes \in Nat /\ MaxConns \in Nat

VARIABLES submission,   \* which of the three servers: never changes
          clients,      \* keys of the map clients
          buf, offset,  \* Client::buf (its first send_len bytes), send_offset
          conns, wrote, read, echoed,   \* connections; bytes written by the client,
                                        \* read by the server, and come back
          accepted,     \* connections so far
          visible       \* sqpoll: entries of sq the polling thread can see

client == <<submission, clients, buf, offset>>
network == <<conns, wrote, read, echoed, accepted>>
vars == <<ring, client, network, visible>>

Acceptor == [op |-> "accept", fd |-> 0]
Recv(fd) == [op |-> "recv", fd |-> fd]
Send(fd) == [op |-> "send", fd |-> fd]

FAILED == -1

Init == /\ submission \in {"batched", "naive", "sqpoll"}
        /\ RingInit(Acceptor)
        /\ clients = {}
        /\ buf = [fd \in Fds |-> << >>]
        /\ offset = [fd \in Fds |-> 0]
        /\ conns = {}
        /\ wrote = [fd \in Fds |-> 0]
        /\ read = [fd \in Fds |-> 0]
        /\ echoed = [fd \in Fds |-> << >>]
        /\ accepted = 0
        /\ visible = 0

----
\* Mutant: the naive loop handles all completions before it submits.
WaitOneAll == /\ submission = "naive"
              /\ up /\ pc = "wait"
              /\ cq # << >>
              /\ ready' = Len(cq)
              /\ pc' = "cqe"
              /\ UNCHANGED <<up, sq, flight, cq>>

\* The naive loop takes one completion and submits before it waits again.
WaitOne == /\ submission = "naive"
           /\ up /\ pc = "wait"
           /\ cq # << >>
           /\ ready' = 1
           /\ pc' = "cqe"
           /\ UNCHANGED <<up, sq, flight, cq>>

WaitBatch == submission # "naive" /\ Wait

SubmitAll == submission # "sqpoll" /\ Submit

LoopStep == /\ WaitOne \/ WaitBatch \/ SubmitAll \/ EndBatch
            /\ UNCHANGED <<client, network, visible>>

\* submit() of exercise 09 only lets the polling thread see the entries ...
Publish == /\ submission = "sqpoll"
           /\ up /\ pc = "submit"
           /\ visible' = Len(sq)
           /\ pc' = "wait"
           /\ UNCHANGED <<up, sq, flight, cq, ready, client, network>>

\* ... which takes them one by one, whatever the server is doing.
PollerTakes == /\ up /\ visible > 0
               /\ visible' = visible - 1
               /\ flight' = flight \cup {Head(sq)}
               /\ sq' = Tail(sq)
               /\ UNCHANGED <<up, pc, cq, ready, client, network>>

\* OP_ACCEPT with res >= 0: a Client, its first recv, and the next accept.
HandleAccept ==
  /\ Peek("accept") /\ Res # FAILED
  /\ clients' = clients \cup {Res}
  /\ buf' = [buf EXCEPT ![Res] = << >>]
  /\ offset' = [offset EXCEPT ![Res] = 0]
  /\ Prepare(<<Recv(Res), Acceptor>>)
  /\ Seen
  /\ UNCHANGED <<submission, network, visible>>

HandleAcceptFailed ==
  /\ Peek("accept") /\ Res = FAILED
  /\ Prepare(<<Acceptor>>)
  /\ Seen
  /\ UNCHANGED <<client, network, visible>>

Close(fd) == /\ conns' = conns \ {fd}
             /\ clients' = clients \ {fd}

\* OP_RECV or OP_SEND with res <= 0: close(fd), clients.erase(fd).
HandleFailed(kind) ==
  /\ Peek(kind) /\ Res <= 0
  /\ Close(Op.fd)
  /\ Seen
  /\ UNCHANGED <<up, sq, submission, buf, offset, wrote, read, echoed, accepted, visible>>

\* OP_RECV with res > 0: the res bytes are sent from the start.
HandleRecv ==
  /\ Peek("recv") /\ Res > 0
  /\ offset' = [offset EXCEPT ![Op.fd] = 0]
  /\ Prepare(<<Send(Op.fd)>>)
  /\ Seen
  /\ UNCHANGED <<submission, clients, buf, network, visible>>

\* Mutant: a short send is taken for a complete one.
HandleSendShortIgnored ==
  /\ Peek("send") /\ Res > 0
  /\ offset' = [offset EXCEPT ![Op.fd] = @ + Res]
  /\ Prepare(<<Recv(Op.fd)>>)
  /\ Seen
  /\ UNCHANGED <<submission, clients, buf, network, visible>>

\* Mutant: the rest of a short send starts at the beginning of the buffer.
HandleSendResetsOffset ==
  /\ Peek("send") /\ Res > 0
  /\ offset' = [offset EXCEPT ![Op.fd] = 0]
  /\ Prepare(IF offset[Op.fd] + Res < Len(buf[Op.fd])
             THEN <<Send(Op.fd)>> ELSE <<Recv(Op.fd)>>)
  /\ Seen
  /\ UNCHANGED <<submission, clients, buf, network, visible>>

\* Mutant: the rest of a short send is sent and the next recv armed as well.
HandleSendBoth ==
  /\ Peek("send") /\ Res > 0
  /\ offset' = [offset EXCEPT ![Op.fd] = @ + Res]
  /\ Prepare(IF offset'[Op.fd] < Len(buf[Op.fd])
             THEN <<Send(Op.fd), Recv(Op.fd)>> ELSE <<Recv(Op.fd)>>)
  /\ Seen
  /\ UNCHANGED <<submission, clients, buf, network, visible>>

\* OP_SEND with res > 0: send the rest, or receive again.
HandleSend ==
  /\ Peek("send") /\ Res > 0
  /\ offset' = [offset EXCEPT ![Op.fd] = @ + Res]
  /\ Prepare(IF offset'[Op.fd] < Len(buf[Op.fd])
             THEN <<Send(Op.fd)>> ELSE <<Recv(Op.fd)>>)
  /\ Seen
  /\ UNCHANGED <<submission, clients, buf, network, visible>>

----
\* The kernel and the clients.
AcceptCompletes(fd) ==
  /\ fd \notin conns /\ accepted < MaxConns
  /\ Complete(Acceptor, fd)
  /\ conns' = conns \cup {fd}
  /\ wrote' = [wrote EXCEPT ![fd] = 0]
  /\ read' = [read EXCEPT ![fd] = 0]
  /\ echoed' = [echoed EXCEPT ![fd] = << >>]
  /\ accepted' = accepted + 1
  /\ UNCHANGED <<client, visible>>

AcceptFails ==
  /\ accepted < MaxConns
  /\ Complete(Acceptor, FAILED)
  /\ accepted' = accepted + 1
  /\ UNCHANGED <<conns, wrote, read, echoed, client, visible>>

ClientWrites(fd) ==
  /\ up /\ fd \in conns /\ wrote[fd] < MaxBytes
  /\ wrote' = [wrote EXCEPT ![fd] = @ + 1]
  /\ UNCHANGED <<ring, client, conns, read, echoed, accepted, visible>>

\* n bytes arrive in the client's buffer.
RecvCompletes(fd, n) ==
  /\ n <= BufSize /\ read[fd] + n <= wrote[fd]
  /\ Complete(Recv(fd), n)
  /\ buf' = [buf EXCEPT ![fd] = [k \in 1 .. n |-> read[fd] + k]]
  /\ read' = [read EXCEPT ![fd] = @ + n]
  /\ UNCHANGED <<submission, clients, offset, conns, wrote, echoed, accepted, visible>>

\* The first n bytes of what was asked for leave from the buffer.
SendCompletes(fd, n) ==
  /\ offset[fd] + n <= Len(buf[fd])
  /\ Complete(Send(fd), n)
  /\ echoed' = [echoed EXCEPT ![fd] = @ \o SubSeq(buf[fd], offset[fd] + 1, offset[fd] + n)]
  /\ UNCHANGED <<client, conns, wrote, read, accepted, visible>>

\* The client is gone (0) or the operation fails.
OpFails(op, res) == Complete(op, res) /\ UNCHANGED <<client, network, visible>>

Server == \/ LoopStep \/ Publish
          \/ HandleAccept \/ HandleAcceptFailed
          \/ HandleFailed("recv") \/ HandleFailed("send") \/ HandleRecv \/ HandleSend

Served(fd) == \E n \in 1 .. BufSize : RecvCompletes(fd, n) \/ SendCompletes(fd, n)

Next == \/ Server \/ PollerTakes \/ AcceptFails
        \/ \E fd \in Fds : \/ AcceptCompletes(fd) \/ ClientWrites(fd) \/ Served(fd)
                           \/ \E res \in {0, FAILED} :
                                OpFails(Recv(fd), res) \/ OpFails(Send(fd), res)

Spec == Init /\ [][Next]_vars

\* The server's thread and the polling thread run, data that has arrived is
\* received, and a client that writes also reads.
FairSpec == /\ Spec
            /\ WF_vars(Server) /\ WF_vars(PollerTakes)
            /\ \A fd \in Fds : WF_vars(Served(fd))

----
TypeOK == /\ submission \in {"batched", "naive", "sqpoll"}
          /\ up \in BOOLEAN /\ pc \in {"submit", "wait", "cqe"}
          /\ Len(sq) <= SqDepth /\ ready <= Len(cq)
          /\ clients \subseteq Fds /\ conns \subseteq Fds
          /\ \A fd \in Fds : /\ Len(buf[fd]) <= BufSize
                             /\ offset[fd] <= BufSize
                             /\ read[fd] <= wrote[fd] /\ wrote[fd] <= MaxBytes

\* One SQE per client and one for accept always fit, and two are enough when
\* every completion is followed by a submit: with a queue that deep the
\* server never runs into the "submission queue is full" exception.
StaysUp == /\ SqDepth >= Cardinality(Fds) + 1 => up
           /\ submission = "naive" => Len(sq) <= 2

\* One operation at a time: a client has exactly one recv or send under way,
\* so its buffer is never filled and drained at once, a descriptor is closed
\* once, and no completion reaches a client that replaced the one it was for.
Operations(fd) == PendingTimes(Recv(fd)) + PendingTimes(Send(fd))
OneOperation ==
  /\ TypeOK /\ StaysUp
  /\ up => \A fd \in Fds : Operations(fd) = (IF fd \in clients THEN 1 ELSE 0)

\* The server implements the echo service: on every connection what comes
\* back is a prefix of what was written, however sends and receives are cut.
Service == INSTANCE EchoService
ImplementsService == Service!Spec

\* A byte a client wrote comes back, unless the connection is closed.
EveryByteEchoed ==
  \A fd \in Fds, n \in 1 .. MaxBytes :
    (fd \in conns /\ wrote[fd] >= n)
       ~> (Len(echoed[fd]) >= n \/ fd \notin conns \/ ~up)
====
