---- MODULE BufferEcho ----
(***************************************************************************)
(* The echo servers that receive into a shared pool of buffers the kernel  *)
(* takes from: io_uring/10_provided_buffers.cpp, where every operation     *)
(* completes once, and io_uring/11_multishot.cpp, where accept and recv    *)
(* stay armed (IORING_CQE_F_MORE) and a client may have several sends      *)
(* under way.                                                              *)
(*                                                                         *)
(* A descriptor is a number that is used again once closed; the kernel     *)
(* resolves it to a connection when an operation is submitted and keeps    *)
(* the connection until the operation is over.  A byte is <<connection,    *)
(* number>>, numbered as the client wrote it.                              *)
(***************************************************************************)
EXTENDS IoRing

CONSTANTS Fds,          \* descriptors accept can return
          MultishotFds, \* bound: the same, for exercise 11
          Conns,        \* bound: connections accepted, in this order
          NUM_BUFS, MultishotBufs,      \* buffers in the pool of either exercise
          BUF_SIZE,     \* bytes per buffer
          MaxBytes      \* bytes a client writes: it may do so at once, as recv
                        \* may take them whenever and in whatever parts

ASSUME FdsAssumption == Fds \subseteq Nat \ {0} /\ MultishotFds \subseteq Fds
ASSUME ConnsAssumption == Conns \subseteq Nat \ {0}
ASSUME BufAssumption == {NUM_BUFS, MultishotBufs, BUF_SIZE} \subseteq Nat \ {0}
ASSUME BoundAssumption == MaxBytes \in Nat

VARIABLES multishot,    \* which of the two servers: never changes
          clients,      \* descriptors in the set clients
          pool, content,            \* buffer ring (the kernel takes its head); buffers
          table,                    \* descriptor -> connection, 0 when closed
          accepted,                 \* connections there have been
          read, echoed,             \* per connection: bytes received by the server,
                                    \* and those that came back
          gone                      \* connections whose client has gone

network == <<table, accepted, read, echoed, gone>>
buffers == <<pool, content>>
vars == <<ring, multishot, clients, buffers, network>>

NumBufs == IF multishot THEN MultishotBufs ELSE NUM_BUFS
Bids == 0 .. NumBufs - 1
FAILED == -1
ENOBUFS == -105

\* Operations.  ev tells apart the Event objects of one descriptor; conn is
\* filled in at submission.
Acceptor == [op |-> "accept", fd |-> 0, conn |-> 0, ev |-> 0]
RecvEvent(fd, n) == [op |-> "recv", fd |-> fd, conn |-> 0, ev |-> n]
SendEvent(fd, bid, rearm) ==
  [op |-> "send", fd |-> fd, conn |-> 0, bid |-> bid, offset |-> 0, rearm |-> rearm]

\* A new Event is none of those that are in use.
Recv(fd) ==
  LET used == {op.ev : op \in {o \in Pending : o.op = "recv" /\ o.fd = fd}}
  IN  RecvEvent(fd, CHOOSE n \in 0 .. Cardinality(used) : n \notin used)

Init == /\ multishot \in BOOLEAN
        /\ RingInit(Acceptor)
        /\ clients = {}
        /\ pool = [k \in 1 .. NumBufs |-> k - 1]
        /\ content = [b \in Bids |-> << >>]
        /\ table = [fd \in Fds |-> 0]
        /\ accepted = {}
        /\ read = [c \in Conns |-> 0]
        /\ echoed = [c \in Conns |-> << >>]
        /\ gone = {}

----
\* submit_and_wait: entry by entry the kernel resolves the descriptor; an operation
\* on one that is closed fails at once.
Resolved(op) == IF op.op = "accept" THEN op ELSE [op EXCEPT !.conn = table[op.fd]]
BadFd(op) == op.op # "accept" /\ table[op.fd] = 0
Cqe(op, res, bid, more) == [op |-> op, res |-> res, bid |-> bid, more |-> more]

SubmitNext ==
  /\ up /\ pc = "submit" /\ sq # << >>
  /\ sq' = Tail(sq)
  /\ LET op == Head(sq)
     IN  IF BadFd(op) THEN cq' = Append(cq, Cqe(op, FAILED, 0, FALSE)) /\ flight' = flight
                      ELSE flight' = flight \cup {Resolved(op)} /\ cq' = cq
  /\ UNCHANGED <<up, pc, ready, multishot, clients, buffers, network>>

Submitted ==
  /\ up /\ pc = "submit" /\ sq = << >>
  /\ pc' = "wait"
  /\ UNCHANGED <<up, sq, flight, cq, ready, multishot, clients, buffers, network>>

Collect == (Wait \/ EndBatch) /\ UNCHANGED <<multishot, clients, buffers, network>>

Flag(more) == Head(cq).more = more

\* OP_ACCEPT: the client's first recv, and accept again unless it is armed.
Rearm == IF Head(cq).more THEN << >> ELSE <<Acceptor>>

HandleAccept ==
  /\ Peek("accept") /\ Res # FAILED
  /\ clients' = clients \cup {Res}
  /\ Prepare(<<Recv(Res)>> \o Rearm)
  /\ Seen
  /\ UNCHANGED <<multishot, buffers, network>>

HandleAcceptFailed ==
  /\ Peek("accept") /\ Res = FAILED
  /\ Prepare(Rearm)
  /\ Seen
  /\ UNCHANGED <<multishot, clients, buffers, network>>

\* Mutant: a recv that found no buffer is not armed again.
HandleNoBufsForgotten ==
  /\ Peek("recv") /\ Res = ENOBUFS
  /\ Seen
  /\ UNCHANGED <<up, sq, multishot, clients, buffers, network>>

\* OP_RECV, -ENOBUFS: the pool is exhausted, try again.
HandleNoBufs ==
  /\ Peek("recv") /\ Res = ENOBUFS
  /\ Prepare(<<Recv(Op.fd)>>)
  /\ Seen
  /\ UNCHANGED <<multishot, clients, buffers, network>>

\* close(fd), clients.erase(fd).
Close(fd) == /\ table' = [table EXCEPT ![fd] = 0]
             /\ clients' = clients \ {fd}

HandleRecvEnd ==
  /\ Peek("recv") /\ Res <= 0 /\ Res # ENOBUFS
  /\ Close(Op.fd)
  /\ Seen
  /\ UNCHANGED <<up, sq, multishot, buffers, accepted, read, echoed, gone>>

\* OP_RECV with data: the buffer the kernel chose is sent back.  (With buffer
\* selection there always is one: the "missing" branch is not taken.)
HandleRecv ==
  /\ Peek("recv") /\ Res > 0
  /\ Prepare(<<SendEvent(Op.fd, Head(cq).bid, ~Head(cq).more)>>)
  /\ Seen
  /\ UNCHANGED <<multishot, clients, buffers, network>>

recycle_buf(bid) == pool' = Append(pool, bid) /\ UNCHANGED content

\* Mutant: the buffer of a failed send is not given back.
HandleSendFailedLeaks ==
  /\ Peek("send") /\ Res <= 0
  /\ Close(Op.fd)
  /\ Seen
  /\ UNCHANGED <<up, sq, multishot, buffers, accepted, read, echoed, gone>>

\* OP_SEND failed: the buffer goes back and the connection is closed.
HandleSendFailed ==
  /\ Peek("send") /\ Res <= 0
  /\ recycle_buf(Op.bid)
  /\ Close(Op.fd)
  /\ Seen
  /\ UNCHANGED <<up, sq, multishot, accepted, read, echoed, gone>>

Rest == Len(content[Op.bid]) - Op.offset - Res

\* Mutant: the rest is sent from the start of the buffer.
HandleSendShortRestarts ==
  /\ Peek("send") /\ Res > 0 /\ Rest > 0
  /\ Prepare(<<[Op EXCEPT !.conn = 0]>>)
  /\ Seen
  /\ UNCHANGED <<multishot, clients, buffers, network>>

\* OP_SEND of a part: the rest is sent.
HandleSendShort ==
  /\ Peek("send") /\ Res > 0 /\ Rest > 0
  /\ Prepare(<<[Op EXCEPT !.offset = @ + Res, !.conn = 0]>>)
  /\ Seen
  /\ UNCHANGED <<multishot, clients, buffers, network>>

\* OP_SEND of everything: the buffer goes back, and recv is armed again if it
\* is not, and the client is still there.
HandleSendDone ==
  /\ Peek("send") /\ Res > 0 /\ Rest = 0
  /\ recycle_buf(Op.bid)
  /\ Prepare(IF Op.rearm /\ Op.fd \in clients THEN <<Recv(Op.fd)>> ELSE << >>)
  /\ Seen
  /\ UNCHANGED <<multishot, clients, network>>

----
\* The kernel and the clients.  An operation that completes with more set
\* stays in flight; only multishot operations do.
Completes(op, res, bid, more) ==
  /\ up /\ op \in flight
  /\ more => multishot
  /\ cq' = Append(cq, Cqe(op, res, bid, more))
  /\ flight' = IF more THEN flight ELSE flight \ {op}
  /\ UNCHANGED <<up, pc, sq, ready, multishot, clients>>

Connect(c, fd, more) ==
  /\ table[fd] = 0
  /\ multishot => fd \in MultishotFds
  /\ c \notin accepted /\ \A b \in Conns : b < c => b \in accepted
  /\ Completes(Acceptor, fd, 0, more)
  /\ table' = [table EXCEPT ![fd] = c]
  /\ accepted' = accepted \cup {c}
  /\ UNCHANGED <<buffers, read, echoed, gone>>

AcceptFails == /\ accepted # Conns
               /\ Completes(Acceptor, FAILED, 0, FALSE)
               /\ UNCHANGED <<buffers, network>>

Of(kind) == {op \in flight : op.op = kind}

\* n bytes are received into the buffer at the head of the pool.
RecvCompletes(op, n, more) ==
  /\ read[op.conn] + n <= MaxBytes
  /\ pool # << >>
  /\ Completes(op, n, Head(pool), more)
  /\ pool' = Tail(pool)
  /\ content' = [content EXCEPT ![Head(pool)] =
                   [k \in 1 .. n |-> <<op.conn, read[op.conn] + k>>]]
  /\ read' = [read EXCEPT ![op.conn] = @ + n]
  /\ UNCHANGED <<table, accepted, echoed, gone>>

RecvFindsNoBuffer(op) ==
  /\ read[op.conn] < MaxBytes
  /\ pool = << >>
  /\ Completes(op, ENOBUFS, 0, FALSE)
  /\ UNCHANGED <<buffers, network>>

\* The client leaves, or has left: end of file for recv, an error for send.
OpFails(op, res) ==
  /\ Completes(op, res, 0, FALSE)
  /\ gone' = gone \cup {op.conn}
  /\ UNCHANGED <<buffers, table, accepted, read, echoed>>

SendCompletes(op, n) ==
  /\ op.offset + n <= Len(content[op.bid])
  /\ Completes(op, n, 0, FALSE)
  /\ echoed' = [echoed EXCEPT ![op.conn] =
                  @ \o SubSeq(content[op.bid], op.offset + 1, op.offset + n)]
  /\ UNCHANGED <<buffers, table, accepted, read, gone>>

Server == \/ SubmitNext \/ Submitted \/ Collect
          \/ HandleAccept \/ HandleAcceptFailed
          \/ HandleNoBufs \/ HandleRecvEnd \/ HandleRecv
          \/ HandleSendFailed \/ HandleSendShort \/ HandleSendDone

Received(c) == \E op \in Of("recv"), n \in 1 .. BUF_SIZE, more \in BOOLEAN :
                 op.conn = c /\ (RecvCompletes(op, n, more) \/ RecvFindsNoBuffer(op))
Sent(c) == \E op \in Of("send"), n \in 1 .. BUF_SIZE :
             op.conn = c /\ SendCompletes(op, n)

Next == \/ Server \/ AcceptFails
        \/ \E c \in Conns : \/ \E fd \in Fds, more \in BOOLEAN : Connect(c, fd, more)
                            \/ Received(c) \/ Sent(c)
        \/ \E op \in Of("recv") : OpFails(op, 0)
        \/ \E op \in Of("send") : OpFails(op, FAILED)

Spec == Init /\ [][Next]_vars

\* The server's thread runs, data that has arrived is received when there is
\* a buffer, and a client that writes also reads.
FairSpec == /\ Spec /\ WF_vars(Server)
            /\ \A c \in Conns : WF_vars(Received(c) \/ Sent(c))

----
TypeOK == /\ multishot \in BOOLEAN /\ up \in BOOLEAN /\ pc \in {"submit", "wait", "cqe"}
          /\ Len(sq) <= SqDepth /\ ready <= Len(cq)
          /\ clients \subseteq Fds /\ ToSet(pool) \subseteq Bids
          /\ table \in [Fds -> Conns \cup {0}]
          /\ \A c \in Conns : read[c] <= MaxBytes

\* A buffer is in one place: in the pool, in a completion that has not been
\* handled, or with one send.  So the kernel never receives into a buffer
\* that is being sent, and none is lost, however operations fail.
Places(b) == Cardinality({k \in DOMAIN pool : pool[k] = b})
             + Cardinality({k \in DOMAIN cq : /\ cq[k].op.op = "recv"
                                              /\ cq[k].res > 0 /\ cq[k].bid = b})
             + Cardinality({k \in DOMAIN sq : sq[k].op = "send" /\ sq[k].bid = b})
             + Cardinality({op \in Of("send") : op.bid = b})
             + Cardinality({k \in DOMAIN cq : /\ cq[k].op.op = "send"
                                              /\ cq[k].op.bid = b})
BuffersConserved == TypeOK /\ (up => \A b \in Bids : Places(b) = 1)

\* Nobody is forgotten: a client has a recv armed or a send that will arm it.
\* In exercise 10 that is one operation, nobody else has one, and a connection
\* is closed only when its own client has gone.
Armed(fd) == {op \in Pending : /\ op.op \in {"recv", "send"} /\ op.fd = fd
                               /\ op.op = "send" => op.rearm}
NobodyForgotten ==
  up => /\ \A fd \in Fds : IF multishot THEN fd \in clients => Armed(fd) # {}
                           ELSE Cardinality(Armed(fd)) = (IF fd \in clients THEN 1 ELSE 0)
        /\ ~multishot => accepted \subseteq gone \cup {table[fd] : fd \in Fds}

\* Every connection gets back its own bytes, in order, each once.
InOrder == \A c \in Conns : echoed[c] = [k \in 1 .. Len(echoed[c]) |-> <<c, k>>]
EchoesInOrder == ~multishot => InOrder

\* In exercise 10 everything a client wrote comes back, unless the connection
\* is closed, although the pool may be smaller than the number of clients.
EverythingEchoed ==
  \A c \in Conns : (~multishot /\ c \in accepted \ gone)
                     ~> (Len(echoed[c]) = MaxBytes \/ c \in gone \/ ~up)
====
