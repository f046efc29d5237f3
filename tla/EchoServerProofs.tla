---- MODULE EchoServerProofs ----
(***************************************************************************)
(* Proofs about the single-ring echo servers, for any number of            *)
(* descriptors, any buffer and queue size and all three ways to submit:    *)
(* a client has one operation under way, the submission queue does not     *)
(* overflow, and the servers implement the echo service.                   *)
(***************************************************************************)
EXTENDS EchoServer, IoRingProofs, SequenceTheorems

Client(fd) == {Recv(fd), Send(fd)}
Operation == {Acceptor} \cup UNION {Client(fd) : fd \in Fds}
Completion == [op : Operation, res : Int]

ServerTypeOK ==
  /\ submission \in {"batched", "naive", "sqpoll"}
  /\ up \in BOOLEAN /\ pc \in {"submit", "wait", "cqe"}
  /\ RingTypeOK(Operation, Completion)
  /\ Len(sq) <= SqDepth /\ ready \in Nat /\ ready <= Len(cq)
  /\ visible \in Nat /\ visible <= Len(sq) /\ (submission # "sqpoll" => visible = 0)
  /\ clients \subseteq conns /\ conns \subseteq Fds
  /\ buf \in [Fds -> Seq(Nat)] /\ offset \in [Fds -> Nat]
  /\ wrote \in [Fds -> Nat] /\ read \in [Fds -> Nat] /\ echoed \in [Fds -> Seq(Nat)]
  /\ accepted \in Nat
  /\ \A fd \in Fds : /\ Len(buf[fd]) <= BufSize /\ offset[fd] <= BufSize
                     /\ read[fd] <= wrote[fd] /\ wrote[fd] <= MaxBytes

\* The accept is pending once, and one operation of every client.
OnePending ==
  /\ Once({Acceptor})
  /\ \A fd \in Fds : Once(Client(fd)) /\ (Absent(Client(fd)) <=> fd \notin clients)

\* A new connection whose completion has not been handled has no client yet.
NotYetClient ==
  \A k \in 1 .. Len(cq) :
    cq[k].op = Acceptor => \/ cq[k].res = FAILED
                           \/ /\ cq[k].res \in conns \ clients
                              /\ read[cq[k].res] = 0 /\ echoed[cq[k].res] = << >>

\* The kernel has been asked for op, or is about to be.
AskedFor(op) == op \in flight \/ \E k \in 1 .. Len(sq) : sq[k] = op

\* The buffer holds the last bytes that were read.
Numbered(fd) ==
  /\ Len(buf[fd]) <= read[fd]
  /\ \A n \in 1 .. Len(buf[fd]) : buf[fd][n] = read[fd] - Len(buf[fd]) + n

\* Where in its round a connection is: all that was read has come back before
\* the next recv; while a send is under way the bytes up to the offset have,
\* and when its result has not been handled, so have the bytes it sent.
InStep(fd) ==
  /\ AskedFor(Recv(fd)) => Len(echoed[fd]) = read[fd]
  /\ AskedFor(Send(fd)) => /\ Numbered(fd) /\ offset[fd] < Len(buf[fd])
                           /\ Len(echoed[fd]) + Len(buf[fd]) = read[fd] + offset[fd]
  /\ \A k \in 1 .. Len(cq) :
       /\ cq[k].op = Recv(fd) /\ cq[k].res > 0 =>
            Numbered(fd) /\ Len(buf[fd]) = cq[k].res /\ Len(echoed[fd]) + cq[k].res = read[fd]
       /\ cq[k].op = Send(fd) /\ cq[k].res > 0 =>
            /\ Numbered(fd) /\ offset[fd] + cq[k].res <= Len(buf[fd])
            /\ Len(echoed[fd]) + Len(buf[fd]) = read[fd] + offset[fd] + cq[k].res

\* The naive server submits before it handles the next completion.
NaiveBatch ==
  submission = "naive" => /\ Len(sq) <= 2 /\ ready <= 1
                          /\ up /\ (pc = "wait" \/ (pc = "cqe" /\ ready > 0)) => sq = << >>

ServerInv == /\ ServerTypeOK /\ NaiveBatch
             /\ up => OnePending /\ NotYetClient /\ \A fd \in Fds : InStep(fd)

----
\* The kinds of operations are told apart, and so are the clients.
LEMMA OperationKinds ==
  /\ Acceptor \in Operation
  /\ \A fd \in Fds : Recv(fd) \in Operation /\ Send(fd) \in Operation
  /\ \A op \in Operation : /\ op.op = "accept" => op = Acceptor
                           /\ op.op = "recv" => op.fd \in Fds /\ op = Recv(op.fd)
                           /\ op.op = "send" => op.fd \in Fds /\ op = Send(op.fd)
  /\ \A fd \in Fds : Acceptor \notin Client(fd) /\ Recv(fd) # Send(fd)
  /\ \A f, g \in Fds : /\ f # g => Recv(f) \notin Client(g) /\ Send(f) \notin Client(g)
                       /\ Recv(f) \in Client(f) /\ Send(f) \in Client(f)
<1>1. Acceptor \in Operation /\ \A fd \in Fds : Recv(fd) \in Operation /\ Send(fd) \in Operation
  BY DEF Operation, Client
<1>2. \A op \in Operation : op = Acceptor \/ \E fd \in Fds : op = Recv(fd) \/ op = Send(fd)
  BY DEF Operation, Client
<1>3. /\ Acceptor.op = "accept"
      /\ \A fd \in Fds : /\ Recv(fd).op = "recv" /\ Recv(fd).fd = fd
                         /\ Send(fd).op = "send" /\ Send(fd).fd = fd
  BY DEF Acceptor, Recv, Send
<1>4. \A op \in Operation : /\ op.op = "accept" => op = Acceptor
                            /\ op.op = "recv" => op.fd \in Fds /\ op = Recv(op.fd)
                            /\ op.op = "send" => op.fd \in Fds /\ op = Send(op.fd)
  BY <1>2, <1>3
<1>5. \A fd \in Fds : Acceptor \notin Client(fd) /\ Recv(fd) # Send(fd)
  BY <1>3 DEF Client
<1>6. \A f, g \in Fds : /\ f # g => Recv(f) \notin Client(g) /\ Send(f) \notin Client(g)
                        /\ Recv(f) \in Client(f) /\ Send(f) \in Client(f)
  BY <1>3 DEF Client
<1> QED
  BY <1>1, <1>4, <1>5, <1>6

\* What a handler finds at the head of the completion queue.
LEMMA PeekFacts ==
  ASSUME ServerTypeOK, NEW kind, Peek(kind)
  PROVE  /\ up /\ pc = "cqe" /\ ready \in Nat \ {0} /\ cq # << >> /\ cq \in Seq(Completion)
         /\ Head(cq) = cq[1] /\ 1 \in 1 .. Len(cq)
         /\ Op \in Operation /\ Res \in Int /\ Op = cq[1].op /\ Res = cq[1].res /\ Op.op = kind
<1>1. /\ RingTypeOK(Operation, [op : Operation, res : Int]) /\ ready \in Nat /\ ready <= Len(cq)
      /\ cq \in Seq(Completion)
  BY DEF ServerTypeOK, RingTypeOK, Completion
<1> QED
  BY <1>1, PeekRing

\* get_sqe queues all of the operations or ends the process.
LEMMA PrepareFacts ==
  ASSUME ServerTypeOK, up, NEW ops \in Seq(Operation), Prepare(ops)
  PROVE  /\ sq' \in Seq(Operation) /\ Len(sq') <= SqDepth /\ Len(sq) <= Len(sq')
         /\ up' \in BOOLEAN
         /\ up' => up /\ sq' = sq \o ops
         /\ ~up' => sq' = sq
         /\ Len(sq) + Len(ops) <= SqDepth => up'
<1>1. sq \in Seq(Operation) /\ Len(sq) <= SqDepth
  BY DEF ServerTypeOK, RingTypeOK
<1> QED
  BY <1>1, PrepareRing

\* A process that has been ended does nothing.
LEMMA UpToStep == Next => up
BY DEF Next, Server, LoopStep, WaitOne, WaitBatch, Wait, SubmitAll, Submit, EndBatch, Publish,
       PollerTakes, HandleAccept, HandleAcceptFailed, HandleFailed, HandleRecv, HandleSend, Peek,
       AcceptCompletes, AcceptFails, ClientWrites, Served, RecvCompletes, SendCompletes, OpFails,
       Complete

\* What completing op with res does to the types of the ring.
LEMMA CompleteTypes ==
  ASSUME ServerTypeOK, NEW op, NEW res \in Int, Complete(op, res)
  PROVE  /\ op \in flight /\ op \in Operation /\ up
         /\ [op |-> op, res |-> res] \in Completion
         /\ flight' = flight \ {op} /\ cq' = Append(cq, [op |-> op, res |-> res])
         /\ cq' \in Seq(Completion) /\ Len(cq') = Len(cq) + 1
         /\ flight' \subseteq Operation
         /\ UNCHANGED <<up, pc, sq, ready>>
<1>1. /\ op \in flight /\ op \in Operation /\ up /\ cq \in Seq(Completion)
      /\ flight' = flight \ {op} /\ cq' = Append(cq, [op |-> op, res |-> res])
      /\ UNCHANGED <<up, pc, sq, ready>> /\ flight \subseteq Operation
  BY DEF Complete, ServerTypeOK, RingTypeOK
<1>2. [op |-> op, res |-> res] \in Completion
  BY <1>1 DEF Completion
<1> QED
  BY <1>1, <1>2

\* The parts of the invariant that hold while the process is up.
LEMMA InvParts ==
  ASSUME ServerInv, up
  PROVE  /\ ServerTypeOK /\ NaiveBatch /\ OnePending /\ NotYetClient
         /\ \A fd \in Fds : InStep(fd)
BY DEF ServerInv

\* Every action keeps every variable in its type.
LEMMA NextServerTypeOK == ASSUME ServerInv, Next PROVE ServerTypeOK'
<1>0. /\ up /\ ServerTypeOK /\ NotYetClient
      /\ \A fd \in Fds : InStep(fd)
  BY UpToStep, InvParts
<1>t. up \in BOOLEAN
  BY <1>0 DEF ServerTypeOK
<1> USE DEF client, network
<1>1. ASSUME LoopStep PROVE ServerTypeOK'
  <2>1. UNCHANGED <<client, network, visible, up>>
    BY <1>1 DEF LoopStep, WaitOne, WaitBatch, Wait, SubmitAll, Submit, EndBatch
  <2>2. CASE WaitOne \/ WaitBatch \/ EndBatch
    <3>0. cq \in Seq(Completion) /\ ready \in Nat /\ ready <= Len(cq)
      BY <1>0 DEF ServerTypeOK, RingTypeOK
    <3>1. /\ UNCHANGED <<sq, flight, cq>> /\ pc' \in {"submit", "wait", "cqe"}
          /\ ready' = ready \/ (cq # << >> /\ ready' \in {1, Len(cq)})
      BY <2>2 DEF WaitOne, WaitBatch, Wait, EndBatch
    <3>2. ready' \in Nat /\ ready' <= Len(cq)
      BY <3>0, <3>1
    <3> QED
      BY <1>0, <1>t, <2>1, <3>1, <3>2 DEF ServerTypeOK, RingTypeOK
  <2>3. CASE SubmitAll
    <3>1. /\ flight' = flight \cup ToSet(sq) /\ sq' = << >> /\ UNCHANGED <<cq, ready>>
          /\ pc' = "wait" /\ submission # "sqpoll"
      BY <2>3 DEF SubmitAll, Submit
    <3>2. ToSet(sq) \subseteq Operation
      BY <1>0 DEF ToSet, ServerTypeOK, RingTypeOK
    <3>3. RingTypeOK(Operation, Completion)' /\ Len(sq') = 0
      BY <1>0, <3>1, <3>2 DEF ServerTypeOK, RingTypeOK
    <3> QED
      BY <1>0, <1>t, <2>1, <3>1, <3>3, SqDepthAssumption DEF ServerTypeOK
  <2> QED
    BY <1>1, <2>2, <2>3 DEF LoopStep
<1>2. ASSUME Publish PROVE ServerTypeOK'
  BY <1>0, <1>2 DEF Publish, ServerTypeOK, RingTypeOK
<1>3. ASSUME PollerTakes PROVE ServerTypeOK'
  <2>1. sq \in Seq(Operation) /\ visible \in Nat \ {0} /\ visible <= Len(sq)
    BY <1>0, <1>3 DEF PollerTakes, ServerTypeOK, RingTypeOK
  <2>2. sq # << >> /\ Tail(sq) \in Seq(Operation) /\ Head(sq) \in Operation
        /\ Len(Tail(sq)) = Len(sq) - 1
    BY <2>1
  <2>3. RingTypeOK(Operation, Completion)'
    BY <1>0, <1>3, <2>2 DEF PollerTakes, ServerTypeOK, RingTypeOK
  <2>4. /\ visible' = visible - 1 /\ Len(sq') = Len(sq) - 1 /\ Len(sq) \in Nat
        /\ UNCHANGED <<up, pc, cq, ready, client, network>>
    BY <1>3, <2>1, <2>2 DEF PollerTakes
  <2>5. /\ visible' \in Nat /\ visible' <= Len(sq') /\ Len(sq') <= SqDepth
        /\ submission' # "sqpoll" => visible' = 0
    BY <1>0, <2>1, <2>4, SqDepthAssumption DEF ServerTypeOK
  <2> QED
    BY <1>0, <2>3, <2>4, <2>5 DEF ServerTypeOK
<1>4. ASSUME NEW kind, Peek(kind), Seen
      PROVE  /\ cq' \in Seq(Completion) /\ ready' \in Nat /\ ready' <= Len(cq')
             /\ UNCHANGED <<pc, flight>>
  <2>1. cq # << >> /\ cq \in Seq(Completion) /\ ready \in Nat \ {0} /\ ready <= Len(cq)
    BY <1>0, <1>4, PeekFacts DEF ServerTypeOK
  <2> QED
    BY <1>4, <2>1 DEF Seen
<1>5. ASSUME HandleAccept PROVE ServerTypeOK'
  <2>1. Res \in conns
    BY <1>0, <1>5, PeekFacts, OperationKinds DEF HandleAccept, NotYetClient
  <2>2. Res \in Fds
    BY <1>0, <2>1 DEF ServerTypeOK
  <2>3. <<Recv(Res), Acceptor>> \in Seq(Operation)
    BY <2>2, OperationKinds
  <2>4. sq' \in Seq(Operation) /\ Len(sq') <= SqDepth /\ Len(sq) <= Len(sq') /\ up' \in BOOLEAN
    BY <1>0, <1>5, <2>3, PrepareFacts DEF HandleAccept
  <2>5. cq' \in Seq(Completion) /\ ready' \in Nat /\ ready' <= Len(cq') /\ UNCHANGED <<pc, flight>>
    BY <1>4, <1>5 DEF HandleAccept
  <2>6. /\ clients' = clients \cup {Res} /\ buf' = [buf EXCEPT ![Res] = << >>]
        /\ offset' = [offset EXCEPT ![Res] = 0] /\ UNCHANGED <<submission, network, visible>>
    BY <1>5 DEF HandleAccept
  <2>7. /\ buf' \in [Fds -> Seq(Nat)] /\ offset' \in [Fds -> Nat] /\ clients' \subseteq conns'
        /\ \A fd \in Fds : Len(buf'[fd]) <= BufSize /\ offset'[fd] <= BufSize
    BY <1>0, <2>1, <2>2, <2>6, BufAssumption DEF ServerTypeOK
  <2> QED
    BY <1>0, <2>4, <2>5, <2>6, <2>7 DEF ServerTypeOK, RingTypeOK
<1>6. ASSUME HandleAcceptFailed PROVE ServerTypeOK'
  <2>1. <<Acceptor>> \in Seq(Operation)
    BY OperationKinds
  <2>2. sq' \in Seq(Operation) /\ Len(sq') <= SqDepth /\ Len(sq) <= Len(sq') /\ up' \in BOOLEAN
    BY <1>0, <1>6, <2>1, PrepareFacts DEF HandleAcceptFailed
  <2>3. cq' \in Seq(Completion) /\ ready' \in Nat /\ ready' <= Len(cq') /\ UNCHANGED <<pc, flight>>
    BY <1>4, <1>6 DEF HandleAcceptFailed
  <2> QED
    BY <1>0, <1>6, <2>2, <2>3 DEF HandleAcceptFailed, ServerTypeOK, RingTypeOK
<1>7. ASSUME NEW kind \in {"recv", "send"}, HandleFailed(kind) PROVE ServerTypeOK'
  <2>1. cq' \in Seq(Completion) /\ ready' \in Nat /\ ready' <= Len(cq') /\ UNCHANGED <<pc, flight>>
    BY <1>4, <1>7 DEF HandleFailed
  <2>2. clients' \subseteq conns' /\ conns' \subseteq Fds
    BY <1>0, <1>7 DEF HandleFailed, Close, ServerTypeOK
  <2> QED
    BY <1>0, <1>7, <2>1, <2>2 DEF HandleFailed, ServerTypeOK, RingTypeOK
<1>8. ASSUME HandleRecv PROVE ServerTypeOK'
  <2>1. Op.fd \in Fds
    BY <1>0, <1>8, PeekFacts, OperationKinds DEF HandleRecv
  <2>2. <<Send(Op.fd)>> \in Seq(Operation)
    BY <2>1, OperationKinds
  <2>3. sq' \in Seq(Operation) /\ Len(sq') <= SqDepth /\ Len(sq) <= Len(sq') /\ up' \in BOOLEAN
    BY <1>0, <1>8, <2>2, PrepareFacts DEF HandleRecv
  <2>4. cq' \in Seq(Completion) /\ ready' \in Nat /\ ready' <= Len(cq') /\ UNCHANGED <<pc, flight>>
    BY <1>4, <1>8 DEF HandleRecv
  <2>5. offset' \in [Fds -> Nat] /\ \A fd \in Fds : offset'[fd] <= BufSize
    BY <1>0, <1>8, <2>1, BufAssumption DEF HandleRecv, ServerTypeOK
  <2> QED
    BY <1>0, <1>8, <2>3, <2>4, <2>5 DEF HandleRecv, ServerTypeOK, RingTypeOK
<1>9. ASSUME HandleSend PROVE ServerTypeOK'
  <2>1. Op.fd \in Fds /\ Op = Send(Op.fd) /\ Res \in Int /\ Res > 0
    BY <1>0, <1>9, PeekFacts, OperationKinds DEF HandleSend
  <2>2. offset[Op.fd] + Res <= Len(buf[Op.fd])
    <3>1. InStep(Op.fd) /\ 1 \in 1 .. Len(cq) /\ cq[1].op = Send(Op.fd) /\ cq[1].res = Res
      BY <1>0, <1>9, <2>1, PeekFacts DEF HandleSend
    <3> QED
      BY <2>1, <3>1 DEF InStep
  <2>3. <<Send(Op.fd)>> \in Seq(Operation) /\ <<Recv(Op.fd)>> \in Seq(Operation)
    BY <2>1, OperationKinds
  <2>4. sq' \in Seq(Operation) /\ Len(sq') <= SqDepth /\ Len(sq) <= Len(sq') /\ up' \in BOOLEAN
    BY <1>0, <1>9, <2>3, PrepareFacts DEF HandleSend
  <2>5. cq' \in Seq(Completion) /\ ready' \in Nat /\ ready' <= Len(cq') /\ UNCHANGED <<pc, flight>>
    BY <1>4, <1>9 DEF HandleSend
  <2>e. /\ offset' = [offset EXCEPT ![Op.fd] = @ + Res]
        /\ UNCHANGED <<submission, clients, buf, network, visible>>
    BY <1>9 DEF HandleSend
  <2>f. /\ offset \in [Fds -> Nat] /\ buf \in [Fds -> Seq(Nat)]
        /\ \A fd \in Fds : Len(buf[fd]) <= BufSize /\ offset[fd] <= BufSize
    BY <1>0 DEF ServerTypeOK
  <2>6. offset' \in [Fds -> Nat] /\ \A fd \in Fds : offset'[fd] <= BufSize
    <3>1. offset[Op.fd] + Res \in Nat /\ offset[Op.fd] + Res <= BufSize
      BY <2>1, <2>2, <2>f, BufAssumption
    <3> QED
      BY <2>1, <2>e, <2>f, <3>1
  <2> QED
    BY <1>0, <2>4, <2>5, <2>6, <2>e, SMTT(40) DEF ServerTypeOK, RingTypeOK
<1>10. ASSUME NEW op, NEW res \in Int, Complete(op, res)
       PROVE  /\ RingTypeOK(Operation, Completion)' /\ ready' <= Len(cq')
              /\ UNCHANGED <<up, pc, sq, ready>>
  <2>1. Len(cq) \in Nat
    BY <1>0 DEF ServerTypeOK, RingTypeOK
  <2>2. /\ cq' \in Seq(Completion) /\ Len(cq') = Len(cq) + 1 /\ flight' \subseteq Operation
        /\ UNCHANGED <<up, pc, sq, ready>>
    BY <1>0, <1>10, CompleteTypes
  <2>3. sq \in Seq(Operation) /\ ready \in Nat /\ ready <= Len(cq)
    BY <1>0 DEF ServerTypeOK, RingTypeOK
  <2> QED
    BY <2>1, <2>2, <2>3 DEF RingTypeOK
<1>11. ASSUME NEW fd \in Fds, AcceptCompletes(fd) PROVE ServerTypeOK'
  <2>1. /\ RingTypeOK(Operation, Completion)' /\ ready' <= Len(cq')
        /\ UNCHANGED <<up, pc, sq, ready>>
    BY <1>10, <1>11, FdsAssumption DEF AcceptCompletes
  <2>2. /\ wrote' \in [Fds -> Nat] /\ read' \in [Fds -> Nat] /\ echoed' \in [Fds -> Seq(Nat)]
        /\ \A f \in Fds : read'[f] <= wrote'[f] /\ wrote'[f] <= MaxBytes
    BY <1>0, <1>11, BoundAssumption DEF AcceptCompletes, ServerTypeOK
  <2> QED
    BY <1>0, <1>11, <2>1, <2>2 DEF AcceptCompletes, ServerTypeOK
<1>12. ASSUME AcceptFails PROVE ServerTypeOK'
  <2>1. /\ RingTypeOK(Operation, Completion)' /\ ready' <= Len(cq')
        /\ UNCHANGED <<up, pc, sq, ready>>
    BY <1>10, <1>12 DEF AcceptFails, FAILED
  <2> QED
    BY <1>0, <1>12, <2>1 DEF AcceptFails, ServerTypeOK
<1>13. ASSUME NEW fd \in Fds, ClientWrites(fd) PROVE ServerTypeOK'
  <2>1. wrote' \in [Fds -> Nat] /\ \A f \in Fds : read[f] <= wrote'[f] /\ wrote'[f] <= MaxBytes
    BY <1>0, <1>13, BoundAssumption DEF ClientWrites, ServerTypeOK
  <2> QED
    BY <1>0, <1>13, <2>1 DEF ClientWrites, ring, ServerTypeOK, RingTypeOK
<1>14. ASSUME NEW fd \in Fds, NEW n \in 1 .. BufSize, RecvCompletes(fd, n) PROVE ServerTypeOK'
  <2>1. /\ RingTypeOK(Operation, Completion)' /\ ready' <= Len(cq')
        /\ UNCHANGED <<up, pc, sq, ready>>
    BY <1>10, <1>14, BufAssumption DEF RecvCompletes
  <2>2. [k \in 1 .. n |-> read[fd] + k] \in Seq(Nat) /\ Len([k \in 1 .. n |-> read[fd] + k]) = n
    BY <1>0, BufAssumption DEF ServerTypeOK
  <2>3. buf' \in [Fds -> Seq(Nat)] /\ \A f \in Fds : Len(buf'[f]) <= BufSize
    BY <1>0, <1>14, <2>2, BufAssumption DEF RecvCompletes, ServerTypeOK
  <2>4. read' \in [Fds -> Nat] /\ \A f \in Fds : read'[f] <= wrote[f]
    BY <1>0, <1>14, BufAssumption DEF RecvCompletes, ServerTypeOK
  <2> QED
    BY <1>0, <1>14, <2>1, <2>3, <2>4 DEF RecvCompletes, ServerTypeOK
<1>15. ASSUME NEW fd \in Fds, NEW n \in 1 .. BufSize, SendCompletes(fd, n) PROVE ServerTypeOK'
  <2>1. /\ RingTypeOK(Operation, Completion)' /\ ready' <= Len(cq')
        /\ UNCHANGED <<up, pc, sq, ready>>
    BY <1>10, <1>15, BufAssumption DEF SendCompletes
  <2>2. SubSeq(buf[fd], offset[fd] + 1, offset[fd] + n) \in Seq(Nat)
    <3>1. /\ buf[fd] \in Seq(Nat) /\ offset[fd] \in Nat /\ n \in Nat /\ n > 0
          /\ offset[fd] + n <= Len(buf[fd])
      BY <1>0, <1>15, BufAssumption DEF SendCompletes, ServerTypeOK
    <3> QED
      BY <3>1, SMTT(40)
  <2>3. echoed' \in [Fds -> Seq(Nat)]
    <3>1. echoed \in [Fds -> Seq(Nat)] /\ echoed[fd] \in Seq(Nat)
      BY <1>0 DEF ServerTypeOK
    <3>2. echoed' = [echoed EXCEPT ![fd] = @ \o SubSeq(buf[fd], offset[fd] + 1, offset[fd] + n)]
      BY <1>15 DEF SendCompletes
    <3>3. echoed[fd] \o SubSeq(buf[fd], offset[fd] + 1, offset[fd] + n) \in Seq(Nat)
      BY <2>2, <3>1
    <3> QED
      BY <3>1, <3>2, <3>3
  <2> QED
    BY <1>0, <1>15, <2>1, <2>3 DEF SendCompletes, ServerTypeOK
<1>16. ASSUME NEW op, NEW res \in {0, FAILED}, OpFails(op, res) PROVE ServerTypeOK'
  <2>1. /\ RingTypeOK(Operation, Completion)' /\ ready' <= Len(cq')
        /\ UNCHANGED <<up, pc, sq, ready>>
    BY <1>10, <1>16 DEF OpFails, FAILED
  <2> QED
    BY <1>0, <1>16, <2>1 DEF OpFails, ServerTypeOK
<1> QED
  BY <1>1, <1>2, <1>3, <1>5, <1>6, <1>7, <1>8, <1>9, <1>11, <1>12, <1>13, <1>14, <1>15, <1>16
     DEF Next, Server, Served

\* A handler that does not end the process: the completion is gone, and ops
\* are queued.
LEMMA HandlerRing ==
  ASSUME ServerTypeOK, up', NEW kind, Peek(kind), Seen,
         NEW ops \in Seq(Operation), Prepare(ops)
  PROVE  /\ RingTypeOK(Operation, Completion) /\ cq # << >>
         /\ flight' = flight /\ cq' = Tail(cq) /\ sq' = sq \o ops
BY PeekFacts, PrepareFacts DEF Seen, ServerTypeOK

\* A step that moves pending operations on without adding or handling one.
LEMMA PendingMoves ==
  ASSUME OnePending, clients' = clients, Once({Acceptor})',
         \A fd \in Fds : Once(Client(fd))' /\ (Absent(Client(fd))' <=> Absent(Client(fd)))
  PROVE  OnePending'
<1>1. UNCHANGED {Acceptor} /\ \A fd \in Fds : UNCHANGED Client(fd)
  BY DEF Acceptor, Client, Recv, Send
<1> QED
  BY <1>1 DEF OnePending

\* The handler of a completion of M queues the next operation of M, or none.
LEMMA NextOnePending == ASSUME ServerInv, Next, up' PROVE OnePending'
<1>0. /\ up /\ ServerTypeOK /\ NotYetClient /\ OnePending /\ RingTypeOK(Operation, Completion)
  BY UpToStep, InvParts DEF ServerTypeOK
<1> USE DEF client, network
<1>o. Once({Acceptor}) /\ \A fd \in Fds : Once(Client(fd)) /\ (Absent(Client(fd)) <=> fd \notin clients)
  BY <1>0 DEF OnePending
<1>u. ASSUME UNCHANGED <<sq, flight, cq, clients>> PROVE OnePending'
  BY <1>o, <1>u DEF OnePending, Once, Absent
<1>1. ASSUME LoopStep \/ Publish PROVE OnePending'
  <2>1. CASE ~(LoopStep /\ SubmitAll)
    BY <1>1, <1>u, <2>1 DEF LoopStep, WaitOne, WaitBatch, Wait, EndBatch, Publish
  <2>2. CASE LoopStep /\ SubmitAll
    <3>1. flight' = flight \cup ToSet(sq) /\ sq' = << >> /\ cq' = cq /\ clients' = clients
      BY <2>2 DEF LoopStep, SubmitAll, Submit
    <3>2. \A M : Once(M) => Once(M)' /\ (Absent(M)' <=> Absent(M))
      BY <1>0, <3>1, SubmitOnce
    <3> QED
      BY <1>0, <1>o, <3>1, <3>2, PendingMoves
  <2> QED
    BY <2>1, <2>2
<1>2. ASSUME PollerTakes PROVE OnePending'
  <2>1. sq # << >>
    BY <1>0, <1>2 DEF PollerTakes, ServerTypeOK
  <2>2. flight' = flight \cup {Head(sq)} /\ sq' = Tail(sq) /\ cq' = cq /\ clients' = clients
    BY <1>2 DEF PollerTakes
  <2>3. \A M : Once(M) => Once(M)' /\ (Absent(M)' <=> Absent(M))
    BY <1>0, <2>1, <2>2, TakeOnce
  <2> QED
    BY <1>0, <1>o, <2>2, <2>3, PendingMoves
<1>3. ASSUME NEW op, NEW res \in Int, Complete(op, res), clients' = clients PROVE OnePending'
  <2>1. /\ op \in flight /\ [op |-> op, res |-> res] \in Completion
        /\ flight' = flight \ {op} /\ cq' = Append(cq, [op |-> op, res |-> res]) /\ sq' = sq
    BY <1>0, <1>3, CompleteTypes
  <2>2. \A M : Once(M) => Once(M)' /\ (Absent(M)' <=> Absent(M))
    BY <1>0, <2>1, CompleteOnce
  <2> QED
    BY <1>0, <1>3, <1>o, <2>2, PendingMoves
<1>4. ASSUME HandleAccept PROVE OnePending'
  <2>1. Op = Acceptor /\ Head(cq).op = Acceptor /\ Res \in conns \ clients /\ Res \in Fds
    <3>1. Op \in Operation /\ Op = Head(cq).op /\ Op.op = "accept" /\ 1 \in 1 .. Len(cq)
          /\ Op = cq[1].op /\ Res = cq[1].res /\ Res # FAILED
      BY <1>0, <1>4, PeekFacts DEF HandleAccept, Op
    <3>2. Op = Acceptor
      BY <3>1, OperationKinds
    <3> QED
      BY <1>0, <3>1, <3>2 DEF NotYetClient, ServerTypeOK
  <2>2. PICK r \in Fds : r = Res
    BY <2>1
  <2>3. clients' = clients \cup {r}
    BY <1>4, <2>2 DEF HandleAccept
  <2>4. PICK ops \in Seq(Operation) : ops = <<Recv(r), Acceptor>>
    <3>1. Recv(r) \in Operation /\ Acceptor \in Operation
      BY OperationKinds
    <3>2. <<Recv(r), Acceptor>> \in Seq(Operation)
      BY <3>1
    <3> QED
      BY <3>2
  <2>5. cq # << >> /\ flight' = flight /\ cq' = Tail(cq) /\ sq' = sq \o ops
    BY <1>0, <1>4, <2>2, <2>4, HandlerRing DEF HandleAccept
  <2>6. OpsAt(ops, {Acceptor}) = {2}
    <3>1. Recv(r) \notin {Acceptor}
      BY DEF Recv, Acceptor
    <3> QED
      BY <2>4, <3>1, PlacesOfTwo
  <2>7. Once({Acceptor})'
    <3> DEFINE M == {Acceptor}
    <3>1. Once(M) /\ Head(cq).op \in M /\ OpsAt(ops, M) = {2}
      BY <1>o, <2>1, <2>6
    <3> HIDE DEF M
    <3>2. Once(M)'
      BY <1>0, <2>5, <3>1, SeenOnce
    <3> QED
      BY <3>2 DEF M
  <2>8. ASSUME NEW fd \in Fds PROVE Once(Client(fd))' /\ (Absent(Client(fd))' <=> fd \notin clients')
    <3>1. PICK M : M = Client(fd)
      OBVIOUS
    <3>2. OpsAt(ops, M) = IF fd = r THEN {1} ELSE {}
      <4>1. Acceptor \notin M /\ (Recv(r) \in M <=> fd = r)
        BY <3>1, OperationKinds
      <4> QED
        BY <2>4, <4>1, PlacesOfTwo
    <3>3. Once(M) /\ (Absent(M) <=> fd \notin clients) /\ Head(cq).op \notin M /\ (fd = r => Absent(M))
      BY <1>o, <2>1, <2>2, <3>1, OperationKinds
    <3>4. Once(M)' /\ (fd = r => ~Absent(M)') /\ (fd # r => (Absent(M)' <=> Absent(M)))
      BY <1>0, <2>5, <3>2, <3>3, SeenOnce
    <3> QED
      BY <2>3, <3>1, <3>3, <3>4
  <2> QED
    BY <2>7, <2>8 DEF OnePending
<1>5. ASSUME HandleAcceptFailed PROVE OnePending'
  <2>1. Head(cq).op = Acceptor /\ clients' = clients
    BY <1>0, <1>5, PeekFacts, OperationKinds DEF HandleAcceptFailed, Op
  <2>2. PICK ops \in Seq(Operation) : ops = <<Acceptor>>
    <3>1. Acceptor \in Operation
      BY OperationKinds
    <3>2. <<Acceptor>> \in Seq(Operation)
      BY <3>1
    <3> QED
      BY <3>2
  <2>3. cq # << >> /\ flight' = flight /\ cq' = Tail(cq) /\ sq' = sq \o ops
    BY <1>0, <1>5, <2>2, HandlerRing DEF HandleAcceptFailed
  <2>4. Once({Acceptor})'
    <3> DEFINE M == {Acceptor}
    <3>1. Once(M) /\ Head(cq).op \in M /\ OpsAt(ops, M) = {1}
      BY <1>o, <2>1, <2>2, PlaceOfOne
    <3> HIDE DEF M
    <3>2. Once(M)'
      BY <1>0, <2>3, <3>1, SeenOnce
    <3> QED
      BY <3>2 DEF M
  <2>5. ASSUME NEW fd \in Fds PROVE Once(Client(fd))' /\ (Absent(Client(fd))' <=> Absent(Client(fd)))
    <3>1. PICK M : M = Client(fd)
      OBVIOUS
    <3>2. OpsAt(ops, M) = {} /\ Once(M) /\ Head(cq).op \notin M
      <4>1. Acceptor \notin M
        BY <3>1, OperationKinds
      <4> QED
        BY <1>o, <2>1, <2>2, <3>1, <4>1, PlaceOfOne
    <3>3. Once(M)' /\ (Absent(M)' <=> Absent(M))
      BY <1>0, <2>3, <3>2, SeenOnce
    <3> QED
      BY <3>1, <3>3
  <2> QED
    BY <1>0, <2>1, <2>4, <2>5, PendingMoves
<1>6. ASSUME NEW f \in Fds, NEW ops \in Seq(Operation), cq # << >>, Head(cq).op \in Client(f),
             flight' = flight, cq' = Tail(cq), sq' = sq \o ops,
             \/ ops = << >> /\ clients' = clients \ {f}
             \/ clients' = clients /\ \E op \in Client(f) : ops = <<op>>
      PROVE  OnePending'
  <2>1. Once({Acceptor})'
    <3> DEFINE M == {Acceptor}
    <3>0. \A op \in Client(f) : op \notin M
      BY OperationKinds
    <3>1. Once(M) /\ OpsAt(ops, M) = {} /\ Head(cq).op \notin M
      BY <1>6, <1>o, <3>0, PlacesOfNone, PlaceOfOne
    <3> HIDE DEF M
    <3>2. Once(M)'
      BY <1>0, <1>6, <3>1, SeenOnce
    <3> QED
      BY <3>2 DEF M
  <2>2. ASSUME NEW fd \in Fds PROVE Once(Client(fd))' /\ (Absent(Client(fd))' <=> fd \notin clients')
    <3>1. PICK M : M = Client(fd)
      OBVIOUS
    <3>2. Once(M) /\ (Absent(M) <=> fd \notin clients) /\ (Head(cq).op \in M <=> fd = f)
      BY <1>6, <1>o, <3>1, OperationKinds DEF Client
    <3>3. OpsAt(ops, M) = IF fd = f /\ ops # << >> THEN {1} ELSE {}
      <4>1. \A op \in Client(f) : op \in M <=> fd = f
        BY <3>1, OperationKinds DEF Client
      <4>2. CASE ops = << >>
        BY <4>2, PlacesOfNone
      <4>3. CASE ops # << >>
        <5>1. PICK op \in Client(f) : ops = <<op>>
          BY <1>6, <4>3
        <5> QED
          BY <4>1, <4>3, <5>1, PlaceOfOne
      <4> QED
        BY <4>2, <4>3
    <3>4. 1 \in DoneAt(cq, M) <=> Head(cq).op \in M
      BY <1>0, <1>6, TailAt DEF RingTypeOK
    <3>5. fd = f => fd \in clients
      BY <3>2, <3>4 DEF Absent
    <3>6. /\ Once(M)'
          /\ OpsAt(ops, M) # {} => ~Absent(M)'
          /\ OpsAt(ops, M) = {} /\ Head(cq).op \in M => Absent(M)'
          /\ OpsAt(ops, M) = {} /\ Head(cq).op \notin M => (Absent(M)' <=> Absent(M))
      BY <1>0, <1>6, <3>2, <3>3, SeenOnce
    <3>7. \/ ops = << >> /\ clients' = clients \ {f}
          \/ clients' = clients /\ ops # << >>
      <4>1. \A op : <<op>> # << >>
        OBVIOUS
      <4> QED
        BY <1>6, <4>1
    <3> QED
      BY <3>1, <3>2, <3>3, <3>5, <3>6, <3>7
  <2> QED
    BY <2>1, <2>2 DEF OnePending
<1>7. ASSUME NEW kind \in {"recv", "send"}, Peek(kind)
      PROVE  cq # << >> /\ Op.fd \in Fds /\ Head(cq).op \in Client(Op.fd)
  BY <1>0, <1>7, PeekFacts, OperationKinds DEF Op
<1>8. ASSUME NEW kind \in {"recv", "send"}, HandleFailed(kind) PROVE OnePending'
  <2>1. PICK f \in Fds : f = Op.fd
    BY <1>7, <1>8 DEF HandleFailed
  <2>2. cq # << >> /\ Head(cq).op \in Client(f)
    BY <1>7, <1>8, <2>1 DEF HandleFailed
  <2>3. sq' = sq \o << >> /\ << >> \in Seq(Operation)
    BY <1>0, <1>8 DEF HandleFailed, RingTypeOK
  <2>4. flight' = flight /\ cq' = Tail(cq) /\ clients' = clients \ {f}
    BY <1>8, <2>1 DEF HandleFailed, Seen, Close
  <2> QED
    BY <1>6, <2>2, <2>3, <2>4
<1>9. ASSUME HandleRecv \/ HandleSend PROVE OnePending'
  <2>1. PICK f \in Fds : f = Op.fd
    BY <1>7, <1>9 DEF HandleRecv, HandleSend
  <2>2. cq # << >> /\ Head(cq).op \in Client(f) /\ clients' = clients
    BY <1>7, <1>9, <2>1 DEF HandleRecv, HandleSend
  <2>3. PICK op \in Client(f) : Prepare(<<op>>)
    BY <1>9, <2>1 DEF HandleRecv, HandleSend, Client
  <2>4. <<op>> \in Seq(Operation)
    BY OperationKinds DEF Client
  <2>5. flight' = flight /\ cq' = Tail(cq) /\ sq' = sq \o <<op>>
    BY <1>0, <1>9, <2>3, <2>4, HandlerRing DEF HandleRecv, HandleSend
  <2> QED
    BY <1>6, <2>2, <2>4, <2>5
<1>10. ASSUME NEW fd \in Fds,
              \/ AcceptCompletes(fd) \/ \E res \in {0, FAILED} : OpFails(Recv(fd), res) \/ OpFails(Send(fd), res)
       PROVE  OnePending'
  BY <1>3, <1>10, FdsAssumption DEF AcceptCompletes, OpFails, FAILED
<1>11. ASSUME AcceptFails PROVE OnePending'
  BY <1>3, <1>11 DEF AcceptFails, FAILED
<1>12. ASSUME NEW fd \in Fds, Served(fd) PROVE OnePending'
  BY <1>3, <1>12, BufAssumption DEF Served, RecvCompletes, SendCompletes
<1>13. ASSUME NEW fd \in Fds, ClientWrites(fd) PROVE OnePending'
  BY <1>13, <1>u DEF ClientWrites, ring
<1> QED
  BY <1>1, <1>2, <1>4, <1>5, <1>8, <1>9, <1>10, <1>11, <1>12, <1>13 DEF Next, Server

----
\* While one operation of a client is with the kernel, or completed, there is
\* no other.
LEMMA NoOther ==
  ASSUME NEW fd \in Fds, Once(Client(fd))
  PROVE  /\ \A op \in flight \cap Client(fd) :
              /\ \A k \in 1 .. Len(sq) : sq[k] \notin Client(fd)
              /\ \A other \in Client(fd) : other # op => other \notin flight
              /\ \A k \in 1 .. Len(cq) : cq[k].op \notin Client(fd)
         /\ \A n \in 1 .. Len(cq) : cq[n].op \in Client(fd) =>
              /\ \A op \in Client(fd) : ~AskedFor(op)
              /\ \A k \in 1 .. Len(cq) : cq[k].op \in Client(fd) => k = n
BY DEF Once, OpsAt, DoneAt, AskedFor

\* Nothing is said of a connection nothing is pending for.
LEMMA AbsentInStep == ASSUME NEW fd \in Fds, Absent(Client(fd)) PROVE InStep(fd)
<1>1. ~AskedFor(Recv(fd)) /\ ~AskedFor(Send(fd))
  BY DEF Absent, OpsAt, AskedFor, Client
<1>2. \A k \in 1 .. Len(cq) : cq[k].op # Recv(fd) /\ cq[k].op # Send(fd)
  BY DEF Absent, DoneAt, Client
<1> QED
  BY <1>1, <1>2 DEF InStep

\* The bytes of a connection and its offset stay, and its operations move on
\* or fail.
LEMMA InStepKept ==
  ASSUME NEW fd \in Fds, InStep(fd), UNCHANGED <<buf[fd], offset[fd], read[fd], echoed[fd]>>,
         AskedFor(Recv(fd))' => AskedFor(Recv(fd)), AskedFor(Send(fd))' => AskedFor(Send(fd)),
         \A k \in 1 .. Len(cq') : \/ \E j \in 1 .. Len(cq) : cq'[k] = cq[j]
                                  \/ cq'[k].op \notin Client(fd) \/ ~(cq'[k].res > 0)
  PROVE  InStep(fd)'
<1>1. UNCHANGED Recv(fd) /\ UNCHANGED Send(fd) /\ Recv(fd) \in Client(fd) /\ Send(fd) \in Client(fd)
  BY DEF Recv, Send, Client
<1>2. Numbered(fd)' <=> Numbered(fd)
  BY DEF Numbered
<1> QED
  BY <1>1, <1>2 DEF InStep

\* Submitting asks for nothing new, nor does completing.
LEMMA AskedMoves ==
  ASSUME ServerTypeOK, NEW op, LoopStep \/ Publish \/ PollerTakes, AskedFor(op)'
  PROVE  AskedFor(op)
<1>0. sq \in Seq(Operation)
  BY DEF ServerTypeOK, RingTypeOK
<1>1. CASE UNCHANGED <<sq, flight>>
  BY <1>1 DEF AskedFor
<1>2. CASE LoopStep /\ SubmitAll
  <2>1. flight' = flight \cup ToSet(sq) /\ sq' = << >>
    BY <1>2 DEF SubmitAll, Submit
  <2> QED
    BY <1>0, <2>1 DEF AskedFor, ToSet
<1>3. CASE PollerTakes
  <2>1. flight' = flight \cup {Head(sq)} /\ sq' = Tail(sq) /\ sq # << >>
    BY <1>0, <1>3 DEF PollerTakes, ServerTypeOK
  <2>2. /\ Head(sq) = sq[1] /\ 1 \in 1 .. Len(sq)
        /\ \A k \in 1 .. Len(Tail(sq)) : k + 1 \in 1 .. Len(sq) /\ Tail(sq)[k] = sq[k + 1]
    BY <1>0, <2>1
  <2> QED
    BY <2>1, <2>2 DEF AskedFor
<1> QED
  BY <1>1, <1>2, <1>3 DEF LoopStep, WaitOne, WaitBatch, Wait, EndBatch, Publish

\* A handler asks for the operations it prepares.
LEMMA AskedByHandler ==
  ASSUME NEW ops \in Seq(Operation), sq \in Seq(Operation), flight' = flight, sq' = sq \o ops,
         NEW S, \A k \in 1 .. Len(ops) : ops[k] \in S
  PROVE  \A op : AskedFor(op)' => AskedFor(op) \/ op \in S
<1>1. \A k \in 1 .. Len(sq') : \/ k \in 1 .. Len(sq) /\ sq'[k] = sq[k]
                               \/ k - Len(sq) \in 1 .. Len(ops) /\ sq'[k] = ops[k - Len(sq)]
  OBVIOUS
<1> QED
  BY <1>1 DEF AskedFor

\* The n elements of a sequence after the first a.
LEMMA SubSeqFacts ==
  ASSUME NEW s \in Seq(Nat), NEW a \in Nat, NEW n \in Nat \ {0}, a + n <= Len(s)
  PROVE  /\ SubSeq(s, a + 1, a + n) \in Seq(Nat) /\ Len(SubSeq(s, a + 1, a + n)) = n
         /\ \A k \in 1 .. n : SubSeq(s, a + 1, a + n)[k] = s[a + k]
<1>1. PICK m \in Int, p \in Int : m = a + 1 /\ p = a + n
  OBVIOUS
<1>2. \A k \in m .. p : s[k] \in Nat
  BY <1>1
<1>3. SubSeq(s, m, p) \in Seq(Nat)
  BY <1>2, SubSeqProperties
<1>4. Len(SubSeq(s, m, p)) = n
  BY <1>1
<1>5. \A k \in 1 .. n : SubSeq(s, m, p)[k] = s[a + k]
  BY <1>1
<1> QED
  BY <1>1, <1>3, <1>4, <1>5, Zenon

\* Every step keeps every connection in step: a recv is asked for only when all
\* that was read has come back, a send from where the last one ended.
LEMMA NextInStep ==
  ASSUME ServerInv, Next, up', OnePending', NEW fd \in Fds
  PROVE  InStep(fd)'
<1>0. /\ up /\ ServerTypeOK /\ NotYetClient /\ InStep(fd)
      /\ Once(Client(fd)) /\ (Absent(Client(fd)) <=> fd \notin clients)
  BY UpToStep, InvParts DEF OnePending
<1>t. /\ sq \in Seq(Operation) /\ cq \in Seq(Completion) /\ buf[fd] \in Seq(Nat)
      /\ offset[fd] \in Nat /\ read[fd] \in Nat /\ echoed[fd] \in Seq(Nat)
      /\ buf \in [Fds -> Seq(Nat)] /\ offset \in [Fds -> Nat] /\ read \in [Fds -> Nat]
      /\ echoed \in [Fds -> Seq(Nat)]
  BY <1>0 DEF ServerTypeOK, RingTypeOK
<1>c. Recv(fd) \in Client(fd) /\ Send(fd) \in Client(fd) /\ Recv(fd) # Send(fd)
  BY OperationKinds
<1>a. ASSUME fd \notin clients' PROVE InStep(fd)'
  <2>1. Absent(Client(fd))'
    BY <1>a DEF OnePending
  <2>2. UNCHANGED Client(fd)
    BY DEF Client, Recv, Send
  <2>3. ~AskedFor(Recv(fd))' /\ ~AskedFor(Send(fd))'
    BY <2>1, <2>2, <1>c DEF Absent, OpsAt, AskedFor
  <2>4. \A k \in 1 .. Len(cq') : cq'[k].op # Recv(fd) /\ cq'[k].op # Send(fd)
    BY <2>1, <2>2, <1>c DEF Absent, DoneAt
  <2> QED
    BY <2>3, <2>4 DEF InStep
<1> USE DEF client, network
<1>1. ASSUME LoopStep \/ Publish \/ PollerTakes PROVE InStep(fd)'
  <2>1. UNCHANGED <<buf, offset, read, echoed, cq>>
    BY <1>1 DEF LoopStep, WaitOne, WaitBatch, Wait, SubmitAll, Submit, EndBatch, Publish, PollerTakes
  <2>2. /\ AskedFor(Recv(fd))' => AskedFor(Recv(fd))
        /\ AskedFor(Send(fd))' => AskedFor(Send(fd))
    BY <1>0, <1>1, AskedMoves
  <2> QED
    BY <1>0, <2>1, <2>2, InStepKept
<1>2. ASSUME NEW f \in Fds, f # fd, NEW ops \in Seq(Operation), cq # << >>,
             \A k \in 1 .. Len(ops) : ops[k] \notin Client(fd),
             flight' = flight, cq' = Tail(cq), sq' = sq \o ops,
             UNCHANGED <<buf[fd], offset[fd], read[fd], echoed[fd]>>
      PROVE  InStep(fd)'
  <2>1. /\ AskedFor(Recv(fd))' => AskedFor(Recv(fd))
        /\ AskedFor(Send(fd))' => AskedFor(Send(fd))
    <3>1. \A k \in 1 .. Len(ops) : ops[k] \in Operation \ Client(fd)
      BY <1>2
    <3>2. \A a : AskedFor(a)' => AskedFor(a) \/ a \in Operation \ Client(fd)
      BY <1>2, <1>t, <3>1, AskedByHandler
    <3> QED
      BY <1>c, <3>2
  <2>2. \A k \in 1 .. Len(cq') : \E j \in 1 .. Len(cq) : cq'[k] = cq[j]
    BY <1>2, <1>t, TailEntries
  <2> QED
    BY <1>0, <1>2, <2>1, <2>2, InStepKept
<1>3. ASSUME HandleAccept PROVE InStep(fd)'
  <2>1. Op = Acceptor /\ Op = cq[1].op /\ Res = cq[1].res /\ 1 \in 1 .. Len(cq) /\ Res # FAILED
    BY <1>0, <1>3, PeekFacts, OperationKinds DEF HandleAccept
  <2>2. Res \in conns \ clients /\ read[Res] = 0 /\ echoed[Res] = << >> /\ Res \in Fds
    BY <1>0, <2>1 DEF NotYetClient, ServerTypeOK
  <2>3. PICK r \in Fds : r = Res
    BY <2>2
  <2>4. <<Recv(r), Acceptor>> \in Seq(Operation)
    <3>1. Recv(r) \in Operation /\ Acceptor \in Operation
      BY OperationKinds
    <3> QED
      BY <3>1
  <2>5. cq # << >> /\ flight' = flight /\ cq' = Tail(cq) /\ sq' = sq \o <<Recv(r), Acceptor>>
    BY <1>0, <1>3, <2>3, <2>4, HandlerRing DEF HandleAccept
  <2>6. /\ buf' = [buf EXCEPT ![r] = << >>] /\ offset' = [offset EXCEPT ![r] = 0]
        /\ UNCHANGED <<read, echoed>>
    BY <1>3, <2>3 DEF HandleAccept
  <2>7. \A k \in 1 .. Len(<<Recv(r), Acceptor>>) : <<Recv(r), Acceptor>>[k] \in {Recv(r), Acceptor}
    OBVIOUS
  <2>8. CASE r = fd
    <3>1. Absent(Client(fd))
      BY <1>0, <2>2, <2>3, <2>8
    <3>2. ~AskedFor(Send(fd))
      BY <1>c, <3>1 DEF Absent, OpsAt, AskedFor
    <3>3. ~AskedFor(Send(fd))'
      <4>1. \A a : AskedFor(a)' => AskedFor(a) \/ a \in {Recv(r), Acceptor}
        BY <1>t, <2>4, <2>5, <2>7, AskedByHandler
      <4> QED
        BY <1>c, <2>8, <3>2, <4>1, OperationKinds
    <3>4. \A k \in 1 .. Len(cq') : cq'[k].op \notin Client(fd)
      BY <1>t, <2>5, <3>1, TailEntries DEF Absent, DoneAt
    <3>5. Len(echoed'[fd]) = read'[fd]
      BY <2>2, <2>3, <2>6, <2>8
    <3> QED
      BY <1>c, <3>3, <3>4, <3>5 DEF InStep
  <2>9. CASE r # fd
    <3>1. \A k \in 1 .. Len(<<Recv(r), Acceptor>>) : <<Recv(r), Acceptor>>[k] \notin Client(fd)
      BY <2>7, <2>9, OperationKinds
    <3>2. UNCHANGED <<buf[fd], offset[fd], read[fd], echoed[fd]>>
      BY <1>t, <2>6, <2>9
    <3> QED
      BY <1>2, <2>4, <2>5, <2>9, <3>1, <3>2
  <2> QED
    BY <2>8, <2>9
<1>4. ASSUME HandleAcceptFailed PROVE InStep(fd)'
  <2>1. <<Acceptor>> \in Seq(Operation)
    <3>1. Acceptor \in Operation
      BY OperationKinds
    <3> QED
      BY <3>1
  <2>2. cq # << >> /\ flight' = flight /\ cq' = Tail(cq) /\ sq' = sq \o <<Acceptor>>
    BY <1>0, <1>4, <2>1, HandlerRing DEF HandleAcceptFailed
  <2>3. UNCHANGED <<buf, offset, read, echoed>>
    BY <1>4 DEF HandleAcceptFailed
  <2>4. \A k \in 1 .. Len(<<Acceptor>>) : <<Acceptor>>[k] \notin Client(fd)
    <3>1. \A k \in 1 .. Len(<<Acceptor>>) : <<Acceptor>>[k] = Acceptor
      OBVIOUS
    <3> QED
      BY <3>1, OperationKinds
  <2>5. /\ AskedFor(Recv(fd))' => AskedFor(Recv(fd))
        /\ AskedFor(Send(fd))' => AskedFor(Send(fd))
    <3>1. \A k \in 1 .. Len(<<Acceptor>>) : <<Acceptor>>[k] \in {Acceptor}
      OBVIOUS
    <3>2. \A a : AskedFor(a)' => AskedFor(a) \/ a \in {Acceptor}
      BY <1>t, <2>1, <2>2, <3>1, AskedByHandler
    <3> QED
      BY <1>c, <3>2, OperationKinds
  <2>6. \A k \in 1 .. Len(cq') : \E j \in 1 .. Len(cq) : cq'[k] = cq[j]
    BY <1>t, <2>2, TailEntries
  <2> QED
    BY <1>0, <2>3, <2>5, <2>6, InStepKept
<1>5. ASSUME NEW kind \in {"recv", "send"}, HandleFailed(kind) PROVE InStep(fd)'
  <2>1. /\ cq # << >> /\ Op.fd \in Fds
    BY <1>0, <1>5, PeekFacts, OperationKinds DEF HandleFailed
  <2>2. PICK f \in Fds : f = Op.fd
    BY <2>1
  <2>3. /\ flight' = flight /\ cq' = Tail(cq) /\ sq' = sq \o << >> /\ << >> \in Seq(Operation)
        /\ UNCHANGED <<buf, offset, read, echoed>>
    BY <1>5, <1>t DEF HandleFailed, Seen
  <2>4. clients' = clients \ {f}
    BY <1>5, <2>2 DEF HandleFailed, Close
  <2>5. CASE f = fd
    BY <1>a, <2>4, <2>5
  <2>6. CASE f # fd
    <3>1. \A k \in 1 .. Len(<< >>) : << >>[k] \notin Client(fd)
      OBVIOUS
    <3> QED
      BY <1>2, <2>1, <2>3, <2>6, <3>1
  <2> QED
    BY <2>5, <2>6
<1>6. ASSUME HandleRecv \/ HandleSend PROVE InStep(fd)'
  <2>0. PICK f \in Fds : f = Op.fd
    BY <1>0, <1>6, PeekFacts, OperationKinds DEF HandleRecv, HandleSend
  <2>1. /\ 1 \in 1 .. Len(cq) /\ cq # << >> /\ Res = cq[1].res /\ Res \in Int /\ Res > 0
        /\ HandleRecv => cq[1].op = Recv(f)
        /\ HandleSend => cq[1].op = Send(f)
    BY <1>0, <1>6, <2>0, PeekFacts, OperationKinds DEF HandleRecv, HandleSend
  <2>2. /\ HandleRecv => offset' = [offset EXCEPT ![f] = 0]
        /\ HandleSend => offset' = [offset EXCEPT ![f] = @ + Res]
        /\ UNCHANGED <<buf, read, echoed>>
    BY <1>6, <2>0 DEF HandleRecv, HandleSend
  <2>3. PICK op \in Client(f) :
          /\ Prepare(<<op>>)
          /\ HandleRecv => op = Send(f)
          /\ HandleSend => op = IF offset'[f] < Len(buf[f]) THEN Send(f) ELSE Recv(f)
    <3>1. CASE HandleRecv
      BY <2>0, <3>1, PeekFacts, <1>0 DEF HandleRecv, HandleSend, Client, Peek
    <3>2. CASE HandleSend
      BY <2>0, <3>2, PeekFacts, <1>0 DEF HandleRecv, HandleSend, Client, Peek
    <3> QED
      BY <1>6, <3>1, <3>2
  <2>4. <<op>> \in Seq(Operation)
    BY OperationKinds DEF Client
  <2>5. flight' = flight /\ cq' = Tail(cq) /\ sq' = sq \o <<op>>
    BY <1>0, <1>6, <2>3, <2>4, HandlerRing DEF HandleRecv, HandleSend
  <2>6. \A k \in 1 .. Len(<<op>>) : <<op>>[k] = op
    OBVIOUS
  <2>7. CASE f # fd
    <3>1. \A k \in 1 .. Len(<<op>>) : <<op>>[k] \notin Client(fd)
      BY <2>6, <2>7, OperationKinds DEF Client
    <3>2. UNCHANGED <<buf[fd], offset[fd], read[fd], echoed[fd]>>
      BY <1>6, <1>t, <2>2, <2>7
    <3> QED
      BY <1>2, <2>1, <2>4, <2>5, <2>7, <3>1, <3>2
  <2>8. CASE f = fd
    <3>1. cq[1].op \in Client(fd)
      BY <1>6, <1>c, <2>1, <2>8
    <3>2. /\ ~AskedFor(Recv(fd)) /\ ~AskedFor(Send(fd))
          /\ \A k \in 1 .. Len(cq) : cq[k].op \in Client(fd) => k = 1
      BY <1>0, <1>c, <2>1, <3>1, NoOther
    <3>3. \A k \in 1 .. Len(cq') : cq'[k].op \notin Client(fd)
      BY <1>t, <2>1, <2>5, <3>2, TailEntries
    <3>4. \A b \in Client(fd) : AskedFor(b)' => b = op
      <4>1. \A k \in 1 .. Len(<<op>>) : <<op>>[k] \in {op}
        OBVIOUS
      <4>2. \A b : AskedFor(b)' => AskedFor(b) \/ b \in {op}
        BY <1>t, <2>4, <2>5, <4>1, AskedByHandler
      <4> QED
        BY <3>2, <4>2 DEF Client
    <3>5. Numbered(fd)' <=> Numbered(fd)
      BY <2>2 DEF Numbered
    <3>6. CASE HandleRecv
      <4>1. Numbered(fd) /\ Len(buf[fd]) = Res /\ Len(echoed[fd]) + Res = read[fd]
        BY <1>0, <2>1, <2>8, <3>6 DEF InStep
      <4>2. op = Send(fd) /\ offset'[fd] = 0
        BY <1>t, <2>2, <2>3, <2>8, <3>6
      <4>3. /\ offset'[fd] < Len(buf'[fd])
            /\ Len(echoed'[fd]) + Len(buf'[fd]) = read'[fd] + offset'[fd]
        BY <1>t, <2>1, <2>2, <4>1, <4>2
      <4> QED
        BY <1>c, <3>3, <3>4, <3>5, <4>1, <4>2, <4>3 DEF InStep
    <3>7. CASE HandleSend
      <4>1. /\ Numbered(fd) /\ offset[fd] + Res <= Len(buf[fd])
            /\ Len(echoed[fd]) + Len(buf[fd]) = read[fd] + offset[fd] + Res
        BY <1>0, <2>1, <2>8, <3>7 DEF InStep
      <4>2. /\ offset'[fd] = offset[fd] + Res
            /\ op = IF offset'[fd] < Len(buf[fd]) THEN Send(fd) ELSE Recv(fd)
        BY <1>t, <2>2, <2>3, <2>8, <3>7
      <4>3. /\ Len(echoed'[fd]) + Len(buf'[fd]) = read'[fd] + offset'[fd]
            /\ op = Send(fd) => offset'[fd] < Len(buf'[fd])
            /\ op = Recv(fd) => Len(echoed'[fd]) = read'[fd]
        <5>1. /\ Len(buf[fd]) \in Nat /\ Len(echoed[fd]) \in Nat /\ read[fd] \in Nat /\ offset[fd] \in Nat
              /\ Len(buf'[fd]) = Len(buf[fd]) /\ Len(echoed'[fd]) = Len(echoed[fd])
              /\ read'[fd] = read[fd]
          BY <1>t, <2>2
        <5>2. op = Recv(fd) => ~(offset[fd] + Res < Len(buf[fd]))
          BY <1>c, <4>2
        <5>3. op = Send(fd) => offset[fd] + Res < Len(buf[fd])
          BY <1>c, <4>2
        <5>4. /\ Res \in Int /\ offset'[fd] = offset[fd] + Res
              /\ offset[fd] + Res <= Len(buf[fd])
              /\ Len(echoed[fd]) + Len(buf[fd]) = read[fd] + offset[fd] + Res
          BY <2>1, <4>1, <4>2
        <5>s. /\ Len(echoed[fd]) + Len(buf[fd]) = read[fd] + (offset[fd] + Res)
              /\ ~(offset[fd] + Res < Len(buf[fd])) => Len(echoed[fd]) = read[fd]
          <6>1. PICK e \in Nat, b \in Nat, r \in Nat, o \in Nat, n \in Int :
                  /\ e = Len(echoed[fd]) /\ b = Len(buf[fd]) /\ r = read[fd] /\ o = offset[fd]
                  /\ n = Res
            BY <5>1, <5>4
          <6>2. o + n <= b /\ e + b = r + o + n
            BY <5>4, <6>1
          <6>3. e + b = r + (o + n) /\ (~(o + n < b) => e = r)
            BY <6>2
          <6> QED
            BY <6>1, <6>3
        <5>5. Len(echoed'[fd]) + Len(buf'[fd]) = read'[fd] + offset'[fd]
          BY <5>1, <5>4, <5>s
        <5>6. op = Send(fd) => offset'[fd] < Len(buf'[fd])
          BY <5>1, <5>3, <5>4
        <5>7. op = Recv(fd) => Len(echoed'[fd]) = read'[fd]
          BY <5>1, <5>2, <5>s
        <5> QED
          BY <5>5, <5>6, <5>7
      <4> QED
        BY <1>c, <3>3, <3>4, <3>5, <4>1, <4>3 DEF InStep
    <3> QED
      BY <1>6, <3>6, <3>7
  <2> QED
    BY <2>7, <2>8
\* A completion that is not of this connection, or whose result is no data.
<1>7. ASSUME NEW op, NEW res \in Int, Complete(op, res), op \notin Client(fd) \/ ~(res > 0),
             UNCHANGED <<buf[fd], offset[fd], read[fd], echoed[fd]>>
      PROVE  InStep(fd)'
  <2>1. PICK c \in Completion : c = [op |-> op, res |-> res]
    BY <1>0, <1>7, CompleteTypes
  <2>2. flight' = flight \ {op} /\ sq' = sq /\ cq' = Append(cq, c) /\ c.op = op /\ c.res = res
    BY <1>0, <1>7, <2>1, CompleteTypes
  <2>3. \A k \in 1 .. Len(cq') : (k \in 1 .. Len(cq) /\ cq'[k] = cq[k]) \/ cq'[k] = c
    BY <1>t, <2>2, AppendEntries
  <2>4. \A a : AskedFor(a)' => AskedFor(a)
    BY <2>2 DEF AskedFor
  <2>5. \A k \in 1 .. Len(cq') : \/ \E j \in 1 .. Len(cq) : cq'[k] = cq[j]
                                 \/ cq'[k].op \notin Client(fd) \/ ~(cq'[k].res > 0)
    BY <1>7, <2>2, <2>3
  <2> QED
    BY <1>0, <1>7, <2>4, <2>5, InStepKept
<1>8. ASSUME NEW f \in Fds, AcceptCompletes(f) PROVE InStep(fd)'
  <2>1. CASE f = fd
    <3>1. fd \notin clients'
      BY <1>0, <1>8, <2>1 DEF AcceptCompletes, ServerTypeOK
    <3> QED
      BY <1>a, <3>1
  <2>2. CASE f # fd
    <3>1. UNCHANGED <<buf[fd], offset[fd], read[fd], echoed[fd]>>
      BY <1>8, <1>t, <2>2 DEF AcceptCompletes
    <3>2. Complete(Acceptor, f) /\ f \in Int /\ Acceptor \notin Client(fd)
      BY <1>8, FdsAssumption, OperationKinds DEF AcceptCompletes
    <3> QED
      BY <1>7, <3>1, <3>2
  <2> QED
    BY <2>1, <2>2
<1>9. ASSUME AcceptFails PROVE InStep(fd)'
  <2>1. Complete(Acceptor, FAILED) /\ FAILED \in Int /\ ~(FAILED > 0)
    BY <1>9 DEF AcceptFails, FAILED
  <2>2. UNCHANGED <<buf[fd], offset[fd], read[fd], echoed[fd]>>
    BY <1>9 DEF AcceptFails
  <2> QED
    BY <1>7, <2>1, <2>2
<1>10. ASSUME NEW op, NEW res \in {0, FAILED}, OpFails(op, res) PROVE InStep(fd)'
  <2>1. Complete(op, res) /\ res \in Int /\ ~(res > 0)
    BY <1>10 DEF OpFails, FAILED
  <2>2. UNCHANGED <<buf[fd], offset[fd], read[fd], echoed[fd]>>
    BY <1>10 DEF OpFails
  <2> QED
    BY <1>7, <2>1, <2>2
<1>11. ASSUME NEW f \in Fds, ClientWrites(f) PROVE InStep(fd)'
  <2>1. UNCHANGED <<buf, offset, read, echoed, sq, flight, cq>>
    BY <1>11 DEF ClientWrites, ring
  <2>2. \A a : AskedFor(a)' => AskedFor(a)
    BY <2>1 DEF AskedFor
  <2> QED
    BY <1>0, <2>1, <2>2, InStepKept
\* A completion of this connection: it is the only operation of its client.
<1>12. ASSUME NEW op \in Client(fd), NEW n \in 1 .. BufSize, Complete(op, n)
       PROVE  /\ ~AskedFor(Recv(fd))' /\ ~AskedFor(Send(fd))' /\ op \in flight
              /\ \A k \in 1 .. Len(cq') : cq'[k].op \in Client(fd) =>
                   cq'[k].op = op /\ cq'[k].res = n
  <2>1. n \in Int
    OBVIOUS
  <2>2. PICK c \in Completion : c = [op |-> op, res |-> n]
    BY <1>0, <1>12, <2>1, CompleteTypes
  <2>3. /\ flight' = flight \ {op} /\ sq' = sq /\ cq' = Append(cq, c) /\ c.op = op /\ c.res = n
        /\ op \in flight
    BY <1>0, <1>12, <2>1, <2>2, CompleteTypes
  <2>4. /\ \A k \in 1 .. Len(sq) : sq[k] \notin Client(fd)
        /\ \A other \in Client(fd) : other # op => other \notin flight
        /\ \A k \in 1 .. Len(cq) : cq[k].op \notin Client(fd)
    BY <1>0, <1>12, <2>3, NoOther
  <2>5. \A k \in 1 .. Len(cq') : (k \in 1 .. Len(cq) /\ cq'[k] = cq[k]) \/ cq'[k] = c
    BY <1>t, <2>3, AppendEntries
  <2>6. \A a \in Client(fd) : ~AskedFor(a)'
    BY <2>3, <2>4 DEF AskedFor
  <2> QED
    BY <1>c, <2>3, <2>4, <2>5, <2>6
<1>13. ASSUME NEW f \in Fds, NEW n \in 1 .. BufSize, RecvCompletes(f, n) PROVE InStep(fd)'
  <2>1. CASE f # fd
    <3>1. UNCHANGED <<buf[fd], offset[fd], read[fd], echoed[fd]>>
      BY <1>13, <1>t, <2>1 DEF RecvCompletes
    <3>2. Complete(Recv(f), n) /\ n \in Int /\ Recv(f) \notin Client(fd)
      BY <1>13, <2>1, OperationKinds DEF RecvCompletes
    <3> QED
      BY <1>7, <3>1, <3>2
  <2>2. CASE f = fd
    <3>1. /\ ~AskedFor(Recv(fd))' /\ ~AskedFor(Send(fd))' /\ Recv(fd) \in flight
          /\ \A k \in 1 .. Len(cq') : cq'[k].op \in Client(fd) =>
               cq'[k].op = Recv(fd) /\ cq'[k].res = n
      BY <1>12, <1>13, <1>c, <2>2 DEF RecvCompletes
    <3>2. Len(echoed[fd]) = read[fd]
      BY <1>0, <3>1 DEF InStep, AskedFor
    <3>3. /\ buf' = [buf EXCEPT ![fd] = [k \in 1 .. n |-> read[fd] + k]]
          /\ read' = [read EXCEPT ![fd] = @ + n] /\ echoed' = echoed
      BY <1>13, <2>2 DEF RecvCompletes
    <3>4. /\ buf'[fd] = [k \in 1 .. n |-> read[fd] + k] /\ read'[fd] = read[fd] + n
          /\ echoed'[fd] = echoed[fd]
      BY <1>t, <3>3
    <3>5. n \in Nat /\ Len(buf'[fd]) = n
      BY <3>4, BufAssumption
    <3>6. Numbered(fd)'
      BY <1>t, <3>4, <3>5 DEF Numbered
    <3>7. Len(echoed'[fd]) + n = read'[fd]
      BY <1>t, <3>2, <3>4, <3>5
    <3> QED
      BY <1>c, <3>1, <3>5, <3>6, <3>7 DEF InStep
  <2> QED
    BY <2>1, <2>2
<1>14. ASSUME NEW f \in Fds, NEW n \in 1 .. BufSize, SendCompletes(f, n) PROVE InStep(fd)'
  <2>1. CASE f # fd
    <3>1. UNCHANGED <<buf[fd], offset[fd], read[fd], echoed[fd]>>
      BY <1>14, <1>t, <2>1 DEF SendCompletes
    <3>2. Complete(Send(f), n) /\ n \in Int /\ Send(f) \notin Client(fd)
      BY <1>14, <2>1, OperationKinds DEF SendCompletes
    <3> QED
      BY <1>7, <3>1, <3>2
  <2>2. CASE f = fd
    <3>1. /\ ~AskedFor(Recv(fd))' /\ ~AskedFor(Send(fd))' /\ Send(fd) \in flight
          /\ \A k \in 1 .. Len(cq') : cq'[k].op \in Client(fd) =>
               cq'[k].op = Send(fd) /\ cq'[k].res = n
      BY <1>12, <1>14, <1>c, <2>2 DEF SendCompletes
    <3>2. Numbered(fd) /\ Len(echoed[fd]) + Len(buf[fd]) = read[fd] + offset[fd]
      BY <1>0, <3>1 DEF InStep, AskedFor
    <3>3. /\ echoed' = [echoed EXCEPT ![fd] = @ \o SubSeq(buf[fd], offset[fd] + 1, offset[fd] + n)]
          /\ UNCHANGED <<buf, offset, read>> /\ offset[fd] + n <= Len(buf[fd])
      BY <1>14, <2>2 DEF SendCompletes
    <3>4. n \in Nat \ {0} /\ Len(SubSeq(buf[fd], offset[fd] + 1, offset[fd] + n)) = n
          /\ SubSeq(buf[fd], offset[fd] + 1, offset[fd] + n) \in Seq(Nat)
      <4>1. n \in Nat \ {0}
        BY BufAssumption
      <4> QED
        BY <1>t, <3>3, <4>1, SubSeqFacts
    <3>5. echoed'[fd] = echoed[fd] \o SubSeq(buf[fd], offset[fd] + 1, offset[fd] + n)
      BY <1>t, <3>3
    <3>6. Len(echoed'[fd]) = Len(echoed[fd]) + n
      BY <1>t, <3>4, <3>5
    <3>7. Numbered(fd)'
      BY <3>2, <3>3 DEF Numbered
    <3>8. Len(echoed[fd]) \in Nat /\ Len(buf[fd]) \in Nat
      BY <1>t
    <3>9. /\ Len(echoed'[fd]) + Len(buf'[fd]) = read'[fd] + offset'[fd] + n
          /\ offset'[fd] + n <= Len(buf'[fd])
      BY <1>t, <3>2, <3>3, <3>4, <3>6, <3>8
    <3> QED
      BY <1>c, <3>1, <3>7, <3>9 DEF InStep
  <2> QED
    BY <2>1, <2>2
<1> QED
  BY <1>1, <1>3, <1>4, <1>5, <1>6, <1>8, <1>9, <1>10, <1>11, <1>13, <1>14 DEF Next, Server, Served

\* Every step leaves the connections that are still to be handled alone: their
\* descriptor is open, and its client is still to come.
LEMMA NextNotYetClient == ASSUME ServerInv, Next, up' PROVE NotYetClient'
<1>0. /\ up /\ ServerTypeOK /\ NotYetClient /\ OnePending /\ Once({Acceptor})
      /\ \A fd \in Fds : Once(Client(fd)) /\ (Absent(Client(fd)) <=> fd \notin clients)
  BY UpToStep, InvParts DEF OnePending
<1>t. /\ sq \in Seq(Operation) /\ cq \in Seq(Completion)
      /\ read \in [Fds -> Nat] /\ echoed \in [Fds -> Seq(Nat)]
      /\ clients \subseteq conns /\ conns \subseteq Fds
  BY <1>0 DEF ServerTypeOK, RingTypeOK
<1> USE DEF client, network
<1>c. UNCHANGED Acceptor
  BY DEF Acceptor
\* The entries that were there are about other connections than f.
<1>1. ASSUME NEW f \in Fds, f \in clients \/ f \notin conns,
             NEW k \in 1 .. Len(cq), cq[k].op = Acceptor, cq[k].res # FAILED,
             clients' \subseteq clients, conns \ {f} \subseteq conns',
             read'[cq[k].res] = read[cq[k].res] \/ cq[k].res = f,
             echoed'[cq[k].res] = echoed[cq[k].res] \/ cq[k].res = f
      PROVE  /\ cq[k].res \in conns' \ clients'
             /\ read'[cq[k].res] = 0 /\ echoed'[cq[k].res] = << >>
  BY <1>0, <1>1, <1>t DEF NotYetClient
<1>2. ASSUME UNCHANGED <<cq, conns, clients, read, echoed>> PROVE NotYetClient'
  BY <1>0, <1>2, <1>c DEF NotYetClient
<1>3. ASSUME LoopStep \/ Publish \/ PollerTakes \/ \E fd \in Fds : ClientWrites(fd)
      PROVE  NotYetClient'
  <2>1. UNCHANGED <<cq, conns, clients, read, echoed>>
    BY <1>3 DEF LoopStep, WaitOne, WaitBatch, Wait, SubmitAll, Submit, EndBatch, Publish, PollerTakes,
                ClientWrites, ring
  <2> QED
    BY <1>2, <2>1
<1>4. ASSUME HandleAccept \/ HandleAcceptFailed PROVE NotYetClient'
  <2>1. cq # << >> /\ 1 \in 1 .. Len(cq) /\ cq[1].op = Acceptor /\ cq' = Tail(cq)
    <3>1. Peek("accept") /\ Seen
      BY <1>4 DEF HandleAccept, HandleAcceptFailed
    <3> QED
      BY <1>0, <3>1, PeekFacts, OperationKinds DEF Seen
  <2>2. \A k \in 1 .. Len(cq) : cq[k].op = Acceptor => k = 1
    BY <1>0, <2>1 DEF Once, DoneAt
  <2>3. \A k \in 1 .. Len(cq') : cq'[k].op # Acceptor
    BY <1>t, <2>1, <2>2, TailEntries
  <2> QED
    BY <1>c, <2>3 DEF NotYetClient
<1>5. ASSUME NEW kind \in {"recv", "send"}, Peek(kind)
      PROVE  cq # << >> /\ Op.fd \in clients
  <2>1. /\ cq # << >> /\ Op.fd \in Fds /\ Op = cq[1].op /\ 1 \in 1 .. Len(cq)
        /\ Op \in Client(Op.fd)
    BY <1>0, <1>5, PeekFacts, OperationKinds DEF Client
  <2>2. ~Absent(Client(Op.fd))
    BY <2>1 DEF Absent, DoneAt
  <2> QED
    BY <1>0, <2>1, <2>2
<1>6. ASSUME NEW kind \in {"recv", "send"}, HandleFailed(kind) \/ HandleRecv \/ HandleSend
      PROVE  NotYetClient'
  <2>1. PICK f \in Fds : f = Op.fd /\ f \in clients /\ cq # << >>
    BY <1>5, <1>6, <1>t DEF HandleFailed, HandleRecv, HandleSend
  <2>2. /\ cq' = Tail(cq) /\ UNCHANGED <<read, echoed>>
        /\ clients' \subseteq clients /\ conns \ {f} \subseteq conns'
    BY <1>6, <2>1 DEF HandleFailed, HandleRecv, HandleSend, Seen, Close
  <2>3. \A k \in 1 .. Len(cq') : k + 1 \in 1 .. Len(cq) /\ cq'[k] = cq[k + 1]
    BY <1>t, <2>1, <2>2, TailEntries
  <2>4. ASSUME NEW k \in 1 .. Len(cq'), cq'[k].op = Acceptor, cq'[k].res # FAILED
        PROVE  /\ cq'[k].res \in conns' \ clients'
               /\ read'[cq'[k].res] = 0 /\ echoed'[cq'[k].res] = << >>
    <3>1. PICK j \in 1 .. Len(cq) : cq'[k] = cq[j]
      BY <2>3
    <3> QED
      BY <1>1, <2>1, <2>2, <2>4, <3>1
  <2> QED
    BY <1>c, <2>4 DEF NotYetClient, FAILED
\* A completion that is about f, or about the accept.
<1>7. ASSUME NEW f \in Fds, NEW op, NEW res \in Int, Complete(op, res), f \in clients \/ f \notin conns,
             op = Acceptor => \/ res = FAILED
                              \/ res \in conns' \ clients' /\ read'[res] = 0 /\ echoed'[res] = << >>,
             clients' = clients, conns \subseteq conns',
             \A g \in Fds : g # f => read'[g] = read[g] /\ echoed'[g] = echoed[g]
      PROVE  NotYetClient'
  <2>1. PICK c \in Completion : c = [op |-> op, res |-> res]
    BY <1>0, <1>7, CompleteTypes
  <2>2. cq' = Append(cq, c) /\ c.op = op /\ c.res = res
    BY <1>0, <1>7, <2>1, CompleteTypes
  <2>3. \A k \in 1 .. Len(cq') : (k \in 1 .. Len(cq) /\ cq'[k] = cq[k]) \/ cq'[k] = c
    BY <1>t, <2>2, AppendEntries
  <2>4. ASSUME NEW k \in 1 .. Len(cq'), cq'[k].op = Acceptor, cq'[k].res # FAILED
        PROVE  /\ cq'[k].res \in conns' \ clients'
               /\ read'[cq'[k].res] = 0 /\ echoed'[cq'[k].res] = << >>
    <3>1. CASE k \in 1 .. Len(cq) /\ cq'[k] = cq[k]
      <4>1. cq[k].res \in Fds
        BY <1>0, <1>t, <2>4, <3>1 DEF NotYetClient
      <4> QED
        BY <1>1, <1>7, <2>4, <3>1, <4>1
    <3>2. CASE cq'[k] = c
      BY <1>7, <2>2, <2>4, <3>2
    <3> QED
      BY <2>3, <3>1, <3>2
  <2> QED
    BY <1>c, <2>4 DEF NotYetClient, FAILED
<1>8. ASSUME NEW f \in Fds, NEW op \in Client(f), NEW res \in Int, Complete(op, res)
      PROVE  f \in clients /\ op # Acceptor
  <2>1. op \in flight \cap Client(f) /\ op # Acceptor
    BY <1>8, OperationKinds DEF Complete
  <2>2. ~Absent(Client(f))
    BY <2>1 DEF Absent
  <2> QED
    BY <1>0, <2>1, <2>2
<1>9. ASSUME NEW f \in Fds, AcceptCompletes(f) PROVE NotYetClient'
  <2>1. /\ Complete(Acceptor, f) /\ f \in Int /\ f \notin conns /\ clients' = clients
        /\ conns' = conns \cup {f} /\ read' = [read EXCEPT ![f] = 0]
        /\ echoed' = [echoed EXCEPT ![f] = << >>]
    BY <1>9, FdsAssumption DEF AcceptCompletes
  <2>2. /\ f \in conns' \ clients' /\ read'[f] = 0 /\ echoed'[f] = << >>
        /\ \A g \in Fds : g # f => read'[g] = read[g] /\ echoed'[g] = echoed[g]
    BY <1>t, <2>1
  <2> QED
    BY <1>7, <2>1, <2>2
<1>10. ASSUME AcceptFails PROVE NotYetClient'
  <2>1. PICK c \in Completion : c = [op |-> Acceptor, res |-> FAILED]
    <3>1. Complete(Acceptor, FAILED) /\ FAILED \in Int
      BY <1>10 DEF AcceptFails, FAILED
    <3> QED
      BY <1>0, <3>1, CompleteTypes
  <2>2. cq' = Append(cq, c) /\ c.res = FAILED /\ UNCHANGED <<conns, clients, read, echoed>>
    BY <1>10, <2>1 DEF AcceptFails, Complete
  <2>3. \A k \in 1 .. Len(cq') : (k \in 1 .. Len(cq) /\ cq'[k] = cq[k]) \/ cq'[k] = c
    BY <1>t, <2>2, AppendEntries
  <2> QED
    BY <1>0, <1>c, <2>2, <2>3 DEF NotYetClient, FAILED
<1>11. ASSUME NEW f \in Fds, NEW n \in 1 .. BufSize, RecvCompletes(f, n) \/ SendCompletes(f, n)
       PROVE  NotYetClient'
  <2>1. PICK op \in Client(f) : Complete(op, n)
    BY <1>11 DEF RecvCompletes, SendCompletes, Client
  <2>2. n \in Int /\ UNCHANGED <<clients, conns>>
    BY <1>11 DEF RecvCompletes, SendCompletes
  <2>3. \A g \in Fds : g # f => read'[g] = read[g] /\ echoed'[g] = echoed[g]
    BY <1>11, <1>t DEF RecvCompletes, SendCompletes
  <2>4. f \in clients /\ op # Acceptor
    BY <1>8, <2>1, <2>2
  <2> QED
    BY <1>7, <2>1, <2>2, <2>3, <2>4
<1>12. ASSUME NEW f \in Fds, NEW op \in Client(f), NEW res \in {0, FAILED}, OpFails(op, res)
       PROVE  NotYetClient'
  <2>1. Complete(op, res) /\ res \in Int /\ UNCHANGED <<clients, conns, read, echoed>>
    BY <1>12 DEF OpFails, FAILED
  <2>2. f \in clients /\ op # Acceptor
    BY <1>8, <2>1
  <2> QED
    BY <1>7, <2>1, <2>2
<1>13. \A f \in Fds : Recv(f) \in Client(f) /\ Send(f) \in Client(f)
  BY OperationKinds
<1> QED
  BY <1>3, <1>4, <1>6, <1>9, <1>10, <1>11, <1>12, <1>13 DEF Next, Server, Served

\* The naive server handles a completion with an empty submission queue.
LEMMA NextNaiveBatch == ASSUME ServerInv, Next PROVE NaiveBatch'
<1> SUFFICES ASSUME submission' = "naive"
             PROVE  /\ Len(sq') <= 2 /\ ready' <= 1
                    /\ up' /\ (pc' = "wait" \/ (pc' = "cqe" /\ ready' > 0)) => sq' = << >>
  BY DEF NaiveBatch
<1> USE DEF client, network
<1>0. up /\ ServerTypeOK /\ NaiveBatch
  BY UpToStep, InvParts
<1>1. submission' = submission /\ submission = "naive"
  BY DEF Next, Server, LoopStep, Publish, PollerTakes, HandleAccept, HandleAcceptFailed, HandleFailed,
         HandleRecv, HandleSend, AcceptCompletes, AcceptFails, ClientWrites, Served, RecvCompletes,
         SendCompletes, OpFails
<1>2. /\ Len(sq) <= 2 /\ ready <= 1 /\ (pc = "wait" \/ (pc = "cqe" /\ ready > 0) => sq = << >>)
      /\ visible = 0 /\ ready \in Nat
  BY <1>0, <1>1 DEF NaiveBatch, ServerTypeOK
<1>3. CASE LoopStep
  <2>1. CASE WaitOne
    BY <1>0, <1>2, <2>1 DEF WaitOne
  <2>2. CASE SubmitAll
    BY <1>0, <1>2, <2>2 DEF SubmitAll, Submit
  <2>3. CASE EndBatch
    BY <1>0, <1>2, <2>3 DEF EndBatch
  <2> QED
    BY <1>1, <1>3, <2>1, <2>2, <2>3 DEF LoopStep, WaitBatch
<1>4. ASSUME NEW kind, Peek(kind), Seen, \/ UNCHANGED <<up, sq>>
                                         \/ \E ops : Len(ops) <= 2 /\ Prepare(ops) /\ << >> \o ops = ops
      PROVE  /\ Len(sq') <= 2 /\ ready' <= 1
             /\ up' /\ (pc' = "wait" \/ (pc' = "cqe" /\ ready' > 0)) => sq' = << >>
  <2>1. pc = "cqe" /\ ready = 1 /\ sq = << >>
    BY <1>2, <1>4 DEF Peek
  <2>2. pc' = "cqe" /\ ready' = 0
    BY <1>4, <2>1 DEF Seen
  <2>3. Len(sq') <= 2
    BY <1>4, <2>1 DEF Prepare
  <2> QED
    BY <2>2, <2>3
<1>5. \A a, b : /\ Len(<<a, b>>) <= 2 /\ << >> \o <<a, b>> = <<a, b>>
                /\ Len(<<a>>) <= 2 /\ << >> \o <<a>> = <<a>>
  OBVIOUS
<1>6. CASE HandleAccept \/ HandleAcceptFailed
  BY <1>4, <1>5, <1>6 DEF HandleAccept, HandleAcceptFailed
<1>7. ASSUME NEW kind, HandleFailed(kind)
      PROVE  /\ Len(sq') <= 2 /\ ready' <= 1
             /\ up' /\ (pc' = "wait" \/ (pc' = "cqe" /\ ready' > 0)) => sq' = << >>
  BY <1>4, <1>7 DEF HandleFailed
<1>8. CASE HandleRecv
  BY <1>4, <1>5, <1>8 DEF HandleRecv
<1>9. CASE HandleSend
  <2>1. PICK op : Prepare(<<op>>)
    BY <1>9 DEF HandleSend
  <2> QED
    BY <1>4, <1>5, <1>9, <2>1 DEF HandleSend
<1>10. CASE UNCHANGED <<up, pc, sq, ready>>
  BY <1>0, <1>2, <1>10
<1>11. ASSUME \/ AcceptFails
              \/ \E fd \in Fds : \/ AcceptCompletes(fd) \/ ClientWrites(fd) \/ Served(fd)
                                 \/ \E res \in {0, FAILED} :
                                      OpFails(Recv(fd), res) \/ OpFails(Send(fd), res)
       PROVE UNCHANGED <<up, pc, sq, ready>>
  BY <1>11 DEF AcceptFails, AcceptCompletes, ClientWrites, ring, Served, RecvCompletes, SendCompletes,
               OpFails, Complete
<1>12. ~Publish /\ ~PollerTakes
  BY <1>1, <1>2 DEF Publish, PollerTakes
<1> QED
  BY <1>3, <1>6, <1>7, <1>8, <1>9, <1>10, <1>11, <1>12 DEF Next, Server

\* The invariant holds when the event loop is entered: the accept is queued.
LEMMA InitServerInv == ASSUME Init PROVE ServerInv
<1>0. /\ up = TRUE /\ pc = "submit" /\ sq = <<Acceptor>> /\ flight = {} /\ cq = << >> /\ ready = 0
      /\ clients = {} /\ conns = {} /\ visible = 0 /\ accepted = 0
      /\ submission \in {"batched", "naive", "sqpoll"}
      /\ buf = [fd \in Fds |-> << >>] /\ offset = [fd \in Fds |-> 0]
      /\ wrote = [fd \in Fds |-> 0] /\ read = [fd \in Fds |-> 0] /\ echoed = [fd \in Fds |-> << >>]
  BY DEF Init, RingInit
<1>1. <<Acceptor>> \in Seq(Operation) /\ Len(<<Acceptor>>) = 1 /\ << >> \in Seq(Completion)
  <2>1. Acceptor \in Operation
    BY OperationKinds
  <2> QED
    BY <2>1
<1>2. ServerTypeOK
  <2>1. RingTypeOK(Operation, Completion) /\ Len(sq) = 1 /\ Len(cq) = 0
    BY <1>0, <1>1 DEF RingTypeOK
  <2>2. up \in BOOLEAN
    BY <1>0
  <2> QED
    BY <1>0, <2>1, <2>2, SqDepthAssumption, BoundAssumption, BufAssumption DEF ServerTypeOK
<1>3. NaiveBatch
  BY <1>0, <1>1 DEF NaiveBatch
<1>4. \A M : DoneAt(cq, M) = {} /\ flight \cap M = {} /\ OpsAt(sq, M) = IF Acceptor \in M THEN {1} ELSE {}
  BY <1>0, PlaceOfOne DEF DoneAt
<1>5. OnePending
  <2>1. Once({Acceptor})
    BY <1>4 DEF Once
  <2>2. \A fd \in Fds : Once(Client(fd)) /\ Absent(Client(fd))
    BY <1>4, OperationKinds DEF Once, Absent
  <2> QED
    BY <1>0, <2>1, <2>2 DEF OnePending
<1>6. NotYetClient
  BY <1>0 DEF NotYetClient
<1>7. \A fd \in Fds : InStep(fd)
  BY <1>0, <1>5, AbsentInStep DEF OnePending
<1> QED
  BY <1>2, <1>3, <1>5, <1>6, <1>7 DEF ServerInv

\* The inductive invariant of the three servers.
THEOREM ServerInvariance == Spec => []ServerInv
<1>1. Init => ServerInv
  BY InitServerInv
<1>2. ServerInv /\ [Next]_vars => ServerInv'
  <2> SUFFICES ASSUME ServerInv, [Next]_vars PROVE ServerInv'
    OBVIOUS
  <2>1. CASE Next
    <3>1. ServerTypeOK' /\ NaiveBatch'
      BY <2>1, NextServerTypeOK, NextNaiveBatch
    <3>2. up' => OnePending' /\ NotYetClient' /\ \A fd \in Fds : InStep(fd)'
      BY <2>1, NextOnePending, NextNotYetClient, NextInStep
    <3> QED
      BY <3>1, <3>2 DEF ServerInv
  <2>2. CASE UNCHANGED vars
    <3> USE <2>2 DEF vars, ring, client, network
    <3>1. ServerTypeOK' /\ NaiveBatch'
      BY DEF ServerInv, ServerTypeOK, RingTypeOK, NaiveBatch
    <3>2. up' => up
      OBVIOUS
    <3>3. OnePending => OnePending'
      BY DEF OnePending, Once, Absent
    <3>4. NotYetClient => NotYetClient'
      BY DEF NotYetClient
    <3>5. \A fd \in Fds : InStep(fd) => InStep(fd)'
      BY SMTT(40), ZenonT(40) DEF InStep, AskedFor, Numbered
    <3> QED
      BY <3>1, <3>2, <3>3, <3>4, <3>5 DEF ServerInv
  <2> QED
    BY <2>1, <2>2
<1> QED
  BY <1>1, <1>2, PTL DEF Spec

----
\* Whose an operation is: the descriptor of a client, or -1 for the accept.
Owner(op) == IF op = Acceptor THEN -1 ELSE op.fd

\* Everybody is told apart by it.
LEMMA OwnerFacts ==
  /\ -1 \notin Fds
  /\ \A op \in Operation : \/ op = Acceptor /\ Owner(op) = -1
                           \/ op # Acceptor /\ Owner(op) \in Fds /\ op \in Client(Owner(op))
<1>1. -1 \notin Fds
  BY FdsAssumption
<1>2. Owner(Acceptor) = -1
  BY DEF Owner
<1>3. ASSUME NEW fd \in Fds, NEW op \in Client(fd)
      PROVE  op # Acceptor /\ Owner(op) = fd
  <2>1. op # Acceptor
    BY <1>3, OperationKinds
  <2>2. op.fd = fd
    BY <1>3 DEF Client, Recv, Send
  <2> QED
    BY <2>1, <2>2 DEF Owner
<1>4. \A op \in Operation : op = Acceptor \/ \E fd \in Fds : op \in Client(fd)
  BY DEF Operation
<1> QED
  BY <1>1, <1>2, <1>3, <1>4

\* The queue holds at most one operation of everybody who has one in it.
LEMMA QueueFits ==
  ASSUME ServerTypeOK, OnePending, NEW K \in SUBSET (Fds \cup {-1}), IsFiniteSet(K),
         \A k \in 1 .. Len(sq) : Owner(sq[k]) \in K
  PROVE  Len(sq) <= Cardinality(K)
<1> DEFINE g == [k \in 1 .. Len(sq) |-> Owner(sq[k])]
<1>1. sq \in Seq(Operation) /\ Len(sq) \in Nat /\ \A k \in 1 .. Len(sq) : sq[k] \in Operation
  BY DEF ServerTypeOK, RingTypeOK
<1>2. g \in [1 .. Len(sq) -> K]
  OBVIOUS
<1>3. /\ -1 \notin Fds
      /\ \A op \in Operation : \/ op = Acceptor /\ Owner(op) = -1
                               \/ Owner(op) \in Fds /\ op \in Client(Owner(op))
  BY OwnerFacts
<1>4. ASSUME NEW j \in 1 .. Len(sq), NEW k \in 1 .. Len(sq), g[j] = g[k] PROVE j = k
  <2>1. Owner(sq[j]) = Owner(sq[k])
    BY <1>4
  <2>2. CASE Owner(sq[j]) = -1
    <3>1. sq[j] = Acceptor /\ sq[k] = Acceptor
      BY <1>1, <1>3, <2>1, <2>2
    <3> QED
      BY <3>1 DEF OnePending, Once, OpsAt
  <2>3. CASE Owner(sq[j]) # -1
    <3>1. PICK f \in Fds : f = Owner(sq[j])
      BY <1>1, <1>3, <2>3
    <3>2. sq[j] \in Client(f) /\ sq[k] \in Client(f)
      BY <1>1, <1>3, <2>1, <2>3, <3>1
    <3> QED
      BY <3>2 DEF OnePending, Once, OpsAt
  <2> QED
    BY <2>2, <2>3
<1> HIDE DEF g
<1> QED
  BY <1>1, <1>2, <1>4, OwnersBound

\* With a place for every descriptor and one for the accept, a handler always
\* finds the room it needs: the completion it handles has left the queue.
LEMMA NextStaysUp ==
  ASSUME ServerInv, Next, SqDepth >= Cardinality(Fds) + 1
  PROVE  up'
<1>0. /\ up /\ ServerTypeOK /\ NotYetClient /\ OnePending /\ Once({Acceptor})
      /\ \A fd \in Fds : Once(Client(fd)) /\ (Absent(Client(fd)) <=> fd \notin clients)
  BY UpToStep, InvParts DEF OnePending
<1>t. /\ sq \in Seq(Operation) /\ cq \in Seq(Completion) /\ Len(sq) \in Nat
      /\ \A k \in 1 .. Len(sq) : sq[k] \in Operation
  BY <1>0 DEF ServerTypeOK, RingTypeOK
<1>f. IsFiniteSet(Fds) /\ Cardinality(Fds) \in Nat /\ SqDepth \in Nat /\ -1 \notin Fds
  BY FdsAssumption, FS_CardinalityType, SqDepthAssumption
<1>w. \A op \in Operation : \/ op = Acceptor /\ Owner(op) = -1
                            \/ op # Acceptor /\ Owner(op) \in Fds /\ op \in Client(Owner(op))
  BY OwnerFacts
<1> USE DEF client, network
<1>1. ASSUME HandleAccept \/ HandleAcceptFailed PROVE up'
  <2>1. /\ Peek("accept") /\ Op = Acceptor /\ Op = cq[1].op /\ Res = cq[1].res /\ 1 \in 1 .. Len(cq)
    BY <1>0, <1>1, PeekFacts, OperationKinds DEF HandleAccept, HandleAcceptFailed
  <2>2. \A k \in 1 .. Len(sq) : sq[k] # Acceptor
    BY <1>0, <2>1 DEF Once, DoneAt, OpsAt
  <2>3. CASE HandleAcceptFailed
    <3>1. Len(sq) <= Cardinality(Fds)
      BY <1>0, <1>f, <1>t, <1>w, <2>2, QueueFits
    <3>2. Len(sq) + Len(<<Acceptor>>) <= SqDepth
      BY <1>f, <1>t, <3>1
    <3> QED
      BY <1>0, <2>3, <3>2 DEF HandleAcceptFailed, Prepare
  <2>4. CASE HandleAccept
    <3>1. PICK r \in Fds : r = Res /\ r \notin clients
      BY <1>0, <2>1, <2>4 DEF NotYetClient, ServerTypeOK, HandleAccept
    <3>2. \A k \in 1 .. Len(sq) : sq[k] \notin Client(r)
      BY <1>0, <3>1 DEF Absent, OpsAt
    <3>3. \A k \in 1 .. Len(sq) : Owner(sq[k]) \in Fds \ {r}
      BY <1>t, <1>w, <2>2, <3>2
    <3>4. IsFiniteSet(Fds \ {r}) /\ Cardinality(Fds \ {r}) = Cardinality(Fds) - 1
      BY <1>f, FS_RemoveElement
    <3>5. Len(sq) <= Cardinality(Fds) - 1
      BY <1>0, <3>3, <3>4, QueueFits
    <3>6. Len(<<Recv(r), Acceptor>>) = 2
      OBVIOUS
    <3>7. Prepare(<<Recv(r), Acceptor>>)
      BY <2>4, <3>1 DEF HandleAccept
    <3>8. Len(sq) + Len(<<Recv(r), Acceptor>>) <= SqDepth
      BY <1>f, <1>t, <3>5, <3>6
    <3> QED
      BY <1>0, <3>7, <3>8 DEF Prepare
  <2> QED
    BY <1>1, <2>3, <2>4
<1>2. ASSUME HandleRecv \/ HandleSend PROVE up'
  <2>1. PICK f \in Fds : f = Op.fd /\ 1 \in 1 .. Len(cq) /\ cq[1].op \in Client(f)
    <3>1. /\ Op.fd \in Fds /\ Op = cq[1].op /\ 1 \in 1 .. Len(cq)
          /\ Op \in Client(Op.fd)
      BY <1>0, <1>2, PeekFacts, OperationKinds DEF HandleRecv, HandleSend, Client
    <3> QED
      BY <3>1
  <2>2. PICK op : Prepare(<<op>>)
    BY <1>2 DEF HandleRecv, HandleSend
  <2>3. \A k \in 1 .. Len(sq) : sq[k] \notin Client(f)
    BY <1>0, <2>1 DEF Once, DoneAt, OpsAt
  <2>4. \A k \in 1 .. Len(sq) : Owner(sq[k]) \in (Fds \ {f}) \cup {-1}
    BY <1>t, <1>w, <2>3
  <2>5. PICK K \in SUBSET (Fds \cup {-1}) : K = (Fds \ {f}) \cup {-1}
    OBVIOUS
  <2>6. IsFiniteSet(K) /\ Cardinality(K) = Cardinality(Fds)
    <3>1. IsFiniteSet(Fds \ {f}) /\ Cardinality(Fds \ {f}) = Cardinality(Fds) - 1
      BY <1>f, FS_RemoveElement
    <3>2. -1 \notin Fds \ {f}
      BY <1>f
    <3>3. IsFiniteSet(K) /\ Cardinality(K) = Cardinality(Fds \ {f}) + 1
      BY <2>5, <3>1, <3>2, FS_AddElement
    <3> QED
      BY <1>f, <3>1, <3>3
  <2>7. Len(sq) <= Cardinality(Fds)
    BY <1>0, <2>4, <2>5, <2>6, QueueFits
  <2>8. Len(sq) + Len(<<op>>) <= SqDepth
    BY <1>f, <1>t, <2>7
  <2> QED
    BY <1>0, <2>2, <2>8 DEF Prepare
<1>3. ASSUME NEW kind, HandleFailed(kind) PROVE up'
  BY <1>0, <1>3 DEF HandleFailed
<1>4. ASSUME \/ LoopStep \/ Publish \/ PollerTakes \/ AcceptFails
             \/ \E fd \in Fds : \/ AcceptCompletes(fd) \/ ClientWrites(fd) \/ Served(fd)
                                \/ \E res \in {0, FAILED} :
                                     OpFails(Recv(fd), res) \/ OpFails(Send(fd), res)
      PROVE up'
  BY <1>0, <1>4
     DEF LoopStep, WaitOne, WaitBatch, Wait, SubmitAll, Submit, EndBatch, Publish, PollerTakes,
         AcceptFails, AcceptCompletes, ClientWrites, ring, Served, RecvCompletes, SendCompletes,
         OpFails, Complete
<1> QED
  BY <1>1, <1>2, <1>3, <1>4 DEF Next, Server

\* A client has exactly one recv or send under way, and the server does not
\* run into a full submission queue, for any number of descriptors and any
\* queue with a place for each of them and one for the accept.
THEOREM OneOperationAlways == Spec => []OneOperation
<1> DEFINE RoomInv == SqDepth >= Cardinality(Fds) + 1 => up
<1>1. Init => RoomInv
  BY DEF Init, RingInit
<1>2. ServerInv /\ RoomInv /\ [Next]_vars => RoomInv'
  <2>1. ServerInv /\ RoomInv /\ Next => RoomInv'
    BY NextStaysUp
  <2>2. RoomInv /\ UNCHANGED vars => RoomInv'
    BY DEF vars, ring
  <2> QED
    BY <2>1, <2>2
<1>3. ServerInv /\ RoomInv => OneOperation
  <2> SUFFICES ASSUME ServerInv, RoomInv PROVE OneOperation
    OBVIOUS
  <2>1. ServerTypeOK /\ NaiveBatch
    BY DEF ServerInv
  <2>2. TypeOK
    BY <2>1 DEF ServerTypeOK, TypeOK
  <2>3. StaysUp
    BY <2>1 DEF StaysUp, NaiveBatch
  <2>4. ASSUME up, NEW fd \in Fds PROVE Operations(fd) = (IF fd \in clients THEN 1 ELSE 0)
    <3>1. OnePending /\ RingTypeOK(Operation, Completion)
      BY <2>1, <2>4, InvParts DEF ServerTypeOK
    <3>2. Once({Recv(fd), Send(fd)}) /\ (Absent({Recv(fd), Send(fd)}) <=> fd \notin clients)
      BY <3>1 DEF OnePending, Client
    <3>3. Recv(fd) # Send(fd)
      BY OperationKinds
    <3> QED
      BY <3>1, <3>2, <3>3, OnceCounts DEF Operations
  <2> QED
    BY <2>2, <2>3, <2>4 DEF OneOperation
<1> QED
  BY <1>1, <1>2, <1>3, ServerInvariance, PTL DEF Spec

----
\* What a step of a server is to its clients: a step of the echo service, or
\* nothing.
LEMMA StepServes == ServerInv /\ [Next]_vars => [Service!Next]_(Service!vars)
<1> SUFFICES ASSUME ServerInv, Next PROVE [Service!Next]_(Service!vars)
  BY DEF vars, network, Service!vars
<1>0. /\ up /\ ServerTypeOK /\ OnePending /\ \A fd \in Fds : InStep(fd)
      /\ \A fd \in Fds : Once(Client(fd)) /\ (Absent(Client(fd)) <=> fd \notin clients)
  BY UpToStep, InvParts DEF OnePending
<1>t. /\ conns \subseteq Fds /\ clients \subseteq conns
      /\ buf \in [Fds -> Seq(Nat)] /\ offset \in [Fds -> Nat] /\ wrote \in [Fds -> Nat]
      /\ read \in [Fds -> Nat] /\ echoed \in [Fds -> Seq(Nat)]
      /\ \A fd \in Fds : read[fd] <= wrote[fd] /\ wrote[fd] <= MaxBytes
  BY <1>0 DEF ServerTypeOK
<1> USE DEF client, network
<1>1. ASSUME UNCHANGED <<conns, wrote, echoed>> PROVE [Service!Next]_(Service!vars)
  BY <1>1 DEF Service!vars
<1>2. ASSUME \/ LoopStep \/ Publish \/ PollerTakes \/ AcceptFails
             \/ HandleAccept \/ HandleAcceptFailed \/ HandleRecv \/ HandleSend
             \/ \E fd \in Fds : \/ \E n \in 1 .. BufSize : RecvCompletes(fd, n)
                                \/ \E res \in {0, FAILED} :
                                     OpFails(Recv(fd), res) \/ OpFails(Send(fd), res)
      PROVE [Service!Next]_(Service!vars)
  BY <1>1, <1>2 DEF LoopStep, Publish, PollerTakes, AcceptFails, HandleAccept, HandleAcceptFailed,
                    HandleRecv, HandleSend, RecvCompletes, OpFails
<1>3. ASSUME NEW kind \in {"recv", "send"}, HandleFailed(kind) PROVE Service!Next
  <2>1. /\ Op.fd \in Fds /\ Op = cq[1].op /\ 1 \in 1 .. Len(cq) /\ Op \in Client(Op.fd)
    BY <1>0, <1>3, PeekFacts, OperationKinds DEF HandleFailed, Client
  <2>2. ~Absent(Client(Op.fd))
    BY <2>1 DEF Absent, DoneAt
  <2>3. Op.fd \in conns
    BY <1>0, <1>t, <2>1, <2>2
  <2>4. Service!Close(Op.fd)
    BY <1>3, <2>3 DEF HandleFailed, Close, Service!Close
  <2> QED
    BY <2>1, <2>4 DEF Service!Next
<1>4. ASSUME NEW fd \in Fds, AcceptCompletes(fd) PROVE Service!Next
  <2>1. Service!Connect(fd)
    BY <1>4 DEF AcceptCompletes, Service!Connect
  <2> QED
    BY <2>1 DEF Service!Next
<1>5. ASSUME NEW fd \in Fds, ClientWrites(fd) PROVE Service!Next
  <2>1. 1 \in 1 .. MaxBytes /\ wrote[fd] + 1 <= MaxBytes
    BY <1>5, <1>t, BoundAssumption DEF ClientWrites
  <2>2. Service!Write(fd, 1)
    BY <1>5, <2>1 DEF ClientWrites, Service!Write
  <2> QED
    BY <2>1, <2>2 DEF Service!Next
<1>6. ASSUME NEW fd \in Fds, NEW n \in 1 .. BufSize, SendCompletes(fd, n) PROVE Service!Next
  <2>1. Send(fd) \in flight \cap Client(fd)
    BY <1>6 DEF SendCompletes, Complete, Client
  <2>2. fd \in conns
    BY <1>0, <1>t, <2>1 DEF Absent
  <2>3. Numbered(fd) /\ Len(echoed[fd]) + Len(buf[fd]) = read[fd] + offset[fd]
    BY <1>0, <2>1 DEF InStep, AskedFor
  <2>4. /\ offset[fd] + n <= Len(buf[fd]) /\ UNCHANGED <<conns, wrote>>
        /\ echoed' = [echoed EXCEPT ![fd] = @ \o SubSeq(buf[fd], offset[fd] + 1, offset[fd] + n)]
    BY <1>6 DEF SendCompletes
  <2>5. /\ n \in Nat \ {0} /\ buf[fd] \in Seq(Nat) /\ offset[fd] \in Nat /\ read[fd] \in Nat
        /\ Len(buf[fd]) \in Nat /\ Len(echoed[fd]) \in Nat /\ wrote[fd] \in Nat
        /\ read[fd] <= wrote[fd] /\ wrote[fd] <= MaxBytes
    BY <1>t, BufAssumption
  <2>6. PICK e \in Nat, b \in Nat, r \in Nat, o \in Nat, w \in Nat :
          /\ e = Len(echoed[fd]) /\ b = Len(buf[fd]) /\ r = read[fd] /\ o = offset[fd]
          /\ w = wrote[fd]
    BY <2>5
  <2>7. /\ o + n <= b /\ e + b = r + o /\ r <= w /\ w <= MaxBytes
        /\ \A m \in 1 .. b : buf[fd][m] = r - b + m
    BY <2>3, <2>4, <2>5, <2>6 DEF Numbered
  <2>8. n \in 1 .. MaxBytes /\ e + n <= w /\ \A k \in 1 .. n : o + k \in 1 .. b /\ r - b + (o + k) = e + k
    BY <2>5, <2>7, BoundAssumption
  <2>9. SubSeq(buf[fd], o + 1, o + n) = [k \in 1 .. n |-> e + k]
    <3>1. PICK s \in Seq(Nat) : s = SubSeq(buf[fd], o + 1, o + n)
      BY <2>5, <2>6, <2>7, SubSeqFacts
    <3>2. Len(s) = n /\ \A k \in 1 .. n : s[k] = buf[fd][o + k]
      <4>1. PICK t \in Seq(Nat) : t = buf[fd]
        BY <2>5
      <4>2. s = SubSeq(t, o + 1, o + n) /\ o + n <= Len(t)
        BY <2>6, <2>7, <3>1, <4>1
      <4>3. Len(s) = n /\ \A k \in 1 .. n : s[k] = t[o + k]
        BY <2>5, <4>2, SubSeqFacts
      <4> QED
        BY <4>1, <4>3
    <3>3. \A k \in 1 .. n : s[k] = e + k
      BY <2>7, <2>8, <3>2
    <3>4. s = [k \in 1 .. n |-> s[k]]
      BY <3>2
    <3> QED
      BY <3>1, <3>3, <3>4
  <2>10. echoed' = [echoed EXCEPT ![fd] = @ \o [k \in 1 .. n |-> Len(@) + k]]
    BY <1>t, <2>4, <2>6, <2>9
  <2>11. Service!Echo(fd, n)
    BY <2>2, <2>4, <2>6, <2>8, <2>10 DEF Service!Echo
  <2> QED
    BY <2>8, <2>11 DEF Service!Next
<1> QED
  BY <1>2, <1>3, <1>4, <1>5, <1>6 DEF Next, Server, Served

\* The three servers implement the echo service: on every connection the bytes
\* come back in order, unchanged and each once, however the kernel cuts the
\* receives and the sends.
THEOREM ServersImplementService == Spec => ImplementsService
<1>1. Init => Service!Init
  BY DEF Init, Service!Init
<1> QED
  BY <1>1, StepServes, ServerInvariance, PTL DEF Spec, ImplementsService, Service!Spec
====
