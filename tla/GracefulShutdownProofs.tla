---- MODULE GracefulShutdownProofs ----
(***************************************************************************)
(* Proofs about the graceful shutdown, for any number of descriptors: the  *)
(* registry of clients is exact whatever is cancelled, and the             *)
(* cancellations fit into a queue with twice as many places as there are   *)
(* descriptors, and two.                                                   *)
(***************************************************************************)
EXTENDS GracefulShutdown, IoRingProofs

Client(fd) == {Recv(fd), Send(fd)}
Watched == {Poll, CancelFd(listen_fd)}
Operation == {Acceptor} \cup Watched \cup (UNION {Client(fd) : fd \in Fds})
             \cup {CancelFd(fd) : fd \in Fds}
Completion == [op : Operation, res : Int]

ShutdownTypeOK ==
  /\ up \in BOOLEAN /\ pc \in {"submit", "wait", "cqe", "exited"}
  /\ RingTypeOK(Operation, Completion) /\ flight \subseteq Ops
  /\ Len(sq) <= SqDepth /\ ready \in Nat /\ ready <= Len(cq)
  /\ client_fds \subseteq open /\ open \subseteq Fds
  /\ co \in [Fds -> {"none", "recv", "send"}]

\* signal_watcher polls, and then cancels once for the listening socket and
\* once for every client.
WatchedOnce ==
  /\ Once(Watched) /\ \A fd \in Fds : Once({CancelFd(fd)})
  /\ ~Absent({Poll}) => \A fd \in Fds : Absent({CancelFd(fd)})

\* accept_loop accepts once at a time, and every client has one operation.
OnePending ==
  /\ Once({Acceptor})
  /\ \A fd \in Fds : Once(Client(fd)) /\ (Absent(Client(fd)) <=> fd \notin client_fds)

\* A new connection whose completion has not been handled is not registered.
NotYetClient ==
  \A k \in 1 .. Len(cq) :
    cq[k].op = Acceptor /\ cq[k].res \in Fds => cq[k].res \in open \ client_fds

ShutdownInv ==
  /\ ShutdownTypeOK
  /\ \A fd \in Fds : fd \in client_fds <=> co[fd] # "none"
  /\ up => WatchedOnce /\ OnePending /\ NotYetClient

----
\* What the fields of an operation are.
LEMMA Fields ==
  /\ Acceptor.op = "accept" /\ Poll.op = "poll"
  /\ CancelFd(listen_fd).op = "cancel" /\ CancelFd(listen_fd).fd = 0
  /\ \A fd \in Fds : /\ Recv(fd).op = "recv" /\ Recv(fd).fd = fd
                     /\ Send(fd).op = "send" /\ Send(fd).fd = fd
                     /\ CancelFd(fd).op = "cancel" /\ CancelFd(fd).fd = fd
  /\ 0 \notin Fds
BY FdsAssumption DEF Acceptor, Poll, Recv, Send, CancelFd, listen_fd

\* They say which group it is of.
LEMMA Groups ==
  /\ \A op \in Operation : /\ op = Acceptor <=> op.op = "accept"
                           /\ op = Poll <=> op.op = "poll"
                           /\ op \in Watched <=> op.op = "poll" \/ (op.op = "cancel" /\ op.fd = 0)
                           /\ op.op \in {"recv", "send"} => op.fd \in Fds /\ op \in Client(op.fd)
                           /\ op.op # "cancel" => op \in Ops
  /\ \A op \in Operation, fd \in Fds :
       /\ op \in Client(fd) <=> op.op \in {"recv", "send"} /\ op.fd = fd
       /\ op = CancelFd(fd) <=> op.op = "cancel" /\ op.fd = fd
       /\ op = Recv(fd) <=> op.op = "recv" /\ op.fd = fd
       /\ op = Send(fd) <=> op.op = "send" /\ op.fd = fd
  /\ \A fd \in Fds : Recv(fd) \in Operation /\ Send(fd) \in Operation /\ CancelFd(fd) \in Operation
  /\ Acceptor \in Operation /\ Poll \in Operation /\ CancelFd(listen_fd) \in Operation
  /\ Ops \subseteq Operation /\ \A op \in Ops : op.op # "cancel"
<1>0. \A op : op \in Operation <=> \/ op = Acceptor \/ op \in Watched
                                   \/ \E f \in Fds : op \in Client(f)
                                   \/ \E f \in Fds : op = CancelFd(f)
  BY DEF Operation
<1>1. \A op \in Operation : \/ op = Acceptor \/ op = Poll \/ op = CancelFd(listen_fd)
                            \/ \E f \in Fds : op = Recv(f) \/ op = Send(f) \/ op = CancelFd(f)
  BY <1>0 DEF Watched, Client
<1>2. /\ \A op \in Operation : /\ op = Acceptor <=> op.op = "accept"
                               /\ op = Poll <=> op.op = "poll"
                               /\ op \in Watched <=> op.op = "poll" \/ (op.op = "cancel" /\ op.fd = 0)
                               /\ op.op \in {"recv", "send"} => op.fd \in Fds /\ op \in Client(op.fd)
  BY <1>1, Fields DEF Watched, Client
<1>3. \A op \in Operation : op.op # "cancel" => op \in Ops
  BY <1>1, Fields DEF Ops
<1>4. \A op \in Operation, fd \in Fds :
       /\ op \in Client(fd) <=> op.op \in {"recv", "send"} /\ op.fd = fd
       /\ op = CancelFd(fd) <=> op.op = "cancel" /\ op.fd = fd
       /\ op = Recv(fd) <=> op.op = "recv" /\ op.fd = fd
       /\ op = Send(fd) <=> op.op = "send" /\ op.fd = fd
  BY <1>1, Fields DEF Client
<1>5. /\ \A fd \in Fds : Recv(fd) \in Operation /\ Send(fd) \in Operation /\ CancelFd(fd) \in Operation
      /\ Acceptor \in Operation /\ Poll \in Operation /\ CancelFd(listen_fd) \in Operation
      /\ Ops \subseteq Operation
  BY <1>0 DEF Watched, Client, Ops
<1>6. \A op \in Ops : op.op # "cancel"
  BY Fields DEF Ops
<1> QED
  BY <1>2, <1>3, <1>4, <1>5, <1>6

\* One sequence after the other.
LEMMA Joined ==
  ASSUME NEW T, NEW s \in Seq(T), NEW t \in Seq(T)
  PROVE  /\ Len(s \o t) = Len(s) + Len(t) /\ Len(t) \in Nat
         /\ \A k \in 1 .. Len(s \o t) : \/ k \in 1 .. Len(s) /\ (s \o t)[k] = s[k]
                                       \/ \E j \in 1 .. Len(t) : (s \o t)[k] = t[j]
<1>1. Len(s) \in Nat /\ Len(t) \in Nat /\ Len(s \o t) = Len(s) + Len(t)
  OBVIOUS
<1>2. \A k \in 1 .. Len(s) : (s \o t)[k] = s[k]
  OBVIOUS
<1>3. \A k \in 1 .. Len(s) + Len(t) : k \notin 1 .. Len(s) =>
        k - Len(s) \in 1 .. Len(t) /\ (s \o t)[k] = t[k - Len(s)]
  OBVIOUS
<1> QED
  BY <1>1, <1>2, <1>3

\* What a handler finds.
LEMMA PeekFacts ==
  ASSUME ShutdownTypeOK, NEW kind, Peek(kind)
  PROVE  /\ up /\ pc = "cqe" /\ ready \in Nat \ {0} /\ cq # << >> /\ cq \in Seq(Completion)
         /\ Head(cq) = cq[1] /\ 1 \in 1 .. Len(cq)
         /\ Op \in Operation /\ Res \in Int /\ Op = cq[1].op /\ Res = cq[1].res /\ Op.op = kind
<1>1. /\ RingTypeOK(Operation, [op : Operation, res : Int]) /\ ready \in Nat /\ ready <= Len(cq)
      /\ cq \in Seq(Completion)
  BY DEF ShutdownTypeOK, RingTypeOK, Completion
<1> QED
  BY <1>1, PeekRing

\* What an operation returns; an accept returns a descriptor that is not open.
LEMMA ResultFacts ==
  ASSUME NEW op \in Ops, NEW res \in Results(op)
  PROVE  /\ res \in Int /\ (op = Acceptor /\ res \in Fds => res \notin open)
         /\ op.op = "accept" /\ res # FAILED => res \in Fds
<1>1. op \in Operation
  BY Groups
<1>2. op = Acceptor \/ op = Poll \/ \E fd \in Fds : op = Recv(fd) \/ op = Send(fd)
  BY DEF Ops
<1>3. op.op \in {"accept", "poll", "recv", "send"}
  BY <1>2, Fields
<1>4. CASE op.op = "accept"
  <2>1. res \in (Fds \ open) \cup {FAILED}
    BY <1>4 DEF Results
  <2> QED
    BY <2>1, FdsAssumption DEF FAILED
<1>5. CASE op.op # "accept"
  <2>1. res \in {0, PART, ALL, 1}
    BY <1>3, <1>5 DEF Results
  <2>2. op # Acceptor
    BY <1>1, <1>5, Groups
  <2> QED
    BY <1>5, <2>1, <2>2 DEF PART, ALL
<1> QED
  BY <1>4, <1>5

\* What the cancellation at the head of the queue hits, and the completions of that.
Hit == {op \in flight : op.fd = Head(sq).fd}
Cancelled == {[op |-> op, res |-> ECANCELED] : op \in Hit}

\* list has one completion for each operation of hit.
OneForEach(list, hit) ==
  /\ list \in Seq(Completion) /\ Cardinality(hit) \in Nat
  /\ \A j, k \in 1 .. Len(list) : list[j].op = list[k].op => j = k
  /\ \A k \in 1 .. Len(list) : list[k].op \in hit /\ list[k].res = ECANCELED
  /\ \A op \in hit : \E k \in 1 .. Len(list) : list[k].op = op

\* The completions a cancellation causes: one for every operation in flight on
\* its descriptor.
LEMMA CancelledList ==
  ASSUME ShutdownTypeOK, sq # << >>, Head(sq).op = "cancel",
         NEW hit, hit = Hit, NEW list, list = SetToSeq(Cancelled)
  PROVE  OneForEach(list, hit)
<1> DEFINE S == {[op |-> op, res |-> ECANCELED] : op \in hit}
           f == [op \in hit |-> [op |-> op, res |-> ECANCELED]]
<1>1. IsFiniteSet(hit)
  <2>1. PICK x : x = Head(sq).fd
    OBVIOUS
  <2>2. IsFiniteSet({Acceptor, Poll, Recv(x), Send(x)})
    <3>1. {Acceptor, Poll, Recv(x), Send(x)} = {} \cup {Acceptor} \cup {Poll} \cup {Recv(x)} \cup {Send(x)}
      OBVIOUS
    <3>2. IsFiniteSet({} \cup {Acceptor})
      BY FS_EmptySet, FS_AddElement
    <3>3. IsFiniteSet({} \cup {Acceptor} \cup {Poll})
      BY <3>2, FS_AddElement
    <3>4. IsFiniteSet({} \cup {Acceptor} \cup {Poll} \cup {Recv(x)})
      BY <3>3, FS_AddElement
    <3> QED
      BY <3>1, <3>4, FS_AddElement
  <2>3. hit \subseteq {Acceptor, Poll, Recv(x), Send(x)}
    <3>1. \A op \in Ops : op = Acceptor \/ op = Poll \/ (op.fd \in Fds /\ (op = Recv(op.fd) \/ op = Send(op.fd)))
      BY Fields DEF Ops
    <3> QED
      BY <2>1, <3>1 DEF ShutdownTypeOK, Hit
  <2> QED
    BY <2>2, <2>3, FS_Subset
<1>2. IsFiniteSet(S)
  <2>1. f \in [hit -> S] /\ \A t \in S : \E x \in hit : f[x] = t
    OBVIOUS
  <2>2. \A x, y \in hit : f[x] = f[y] => x = y
    <3>1. \A x \in hit : f[x].op = x
      OBVIOUS
    <3> QED
      BY <3>1
  <2> HIDE DEF f, S
  <2> QED
    BY <1>1, <2>1, <2>2, ImageOneToOne
<1>3. \A x \in S : x \in Completion /\ x.op \in hit /\ x.res = ECANCELED
                   /\ x = [op |-> x.op, res |-> ECANCELED]
  BY DEF Completion, ShutdownTypeOK, RingTypeOK, ECANCELED, Hit
<1>4. \A op \in hit : f[op] \in S /\ f[op].op = op
  OBVIOUS
<1>5. list = SetToSeq(S)
  BY DEF Cancelled
<1> HIDE DEF S, f
<1>6. /\ list \in Seq(S) /\ \A j, k \in 1 .. Len(list) : list[j] = list[k] => j = k
      /\ \A k \in 1 .. Len(list) : list[k] \in S
      /\ \A x \in S : \E k \in 1 .. Len(list) : list[k] = x
  <2>1. /\ SetToSeq(S) \in Seq(S) /\ Len(SetToSeq(S)) = Cardinality(S)
        /\ \A j, k \in 1 .. Len(SetToSeq(S)) : SetToSeq(S)[j] = SetToSeq(S)[k] => j = k
        /\ \A k \in 1 .. Len(SetToSeq(S)) : SetToSeq(S)[k] \in S
        /\ \A x \in S : \E k \in 1 .. Len(SetToSeq(S)) : SetToSeq(S)[k] = x
    BY <1>2, SetToSeqLists
  <2> QED
    BY <1>5, <2>1
<1>7. list \in Seq(Completion)
  BY <1>3, <1>6
<1>8. \A j, k \in 1 .. Len(list) : list[j].op = list[k].op => j = k
  <2>1. \A x, y \in S : x.op = y.op => x = y
    BY <1>3
  <2> QED
    BY <1>6, <2>1
<1>9. ASSUME NEW op \in hit PROVE \E k \in 1 .. Len(list) : list[k].op = op
  <2>1. PICK k \in 1 .. Len(list) : list[k] = f[op]
    BY <1>4, <1>6
  <2> QED
    BY <1>4, <2>1
<1> QED
  BY <1>1, <1>3, <1>6, <1>7, <1>8, <1>9, FS_CardinalityType DEF OneForEach

----
\* A process that has been ended does nothing.
LEMMA UpToStep == Next => up
BY DEF Next, Server, SubmitWaits, SubmitCompletes, SubmitCancel, Submitted, WaitReturns, Wait, BatchDone,
       Handle, CancelCqe, Accepted, AcceptFailed, AcceptCancelled, ClientGoesOn, ClientEnds, SignalCqe,
       Peek, Signal, Completes

\* The parts of the invariant that hold while the process is up.
LEMMA InvParts ==
  ASSUME ShutdownInv, up
  PROVE  /\ ShutdownTypeOK /\ WatchedOnce /\ OnePending /\ NotYetClient
         /\ \A fd \in Fds : fd \in client_fds <=> co[fd] # "none"
BY DEF ShutdownInv

\* The steps of the kernel that take an entry or complete an operation.
KernelStep == SubmitWaits \/ SubmitCompletes \/ SubmitCancel \/ \E op \in Ops : Completes(op)

\* They keep the types of the ring, and move operations on: every operation
\* that was pending still is, and no other.
LEMMA KernelMoves ==
  ASSUME ShutdownTypeOK, KernelStep
  PROVE  /\ RingTypeOK(Operation, Completion)' /\ flight' \subseteq Ops
         /\ Len(sq') <= SqDepth /\ ready' = ready /\ ready <= Len(cq')
         /\ UNCHANGED <<up, pc, co, client_fds, shutting_down, raced, signalled>>
         /\ open \subseteq open' /\ open' \subseteq Fds
         /\ \A M : Once(M) => Once(M)' /\ (Absent(M)' <=> Absent(M))
         /\ \A k \in 1 .. Len(cq') :
              \/ k \in 1 .. Len(cq) /\ cq'[k] = cq[k]
              \/ cq'[k].op = Acceptor /\ cq'[k].res \in Fds => cq'[k].res \in open' \ open
<1>0. /\ sq \in Seq(Operation) /\ cq \in Seq(Completion) /\ flight \subseteq Ops /\ flight \subseteq Operation
      /\ Len(sq) \in Nat /\ Len(cq) \in Nat /\ ready \in Nat /\ ready <= Len(cq) /\ Len(sq) <= SqDepth
      /\ open \subseteq Fds /\ RingTypeOK(Operation, Completion) /\ SqDepth \in Nat
  BY SqDepthAssumption DEF ShutdownTypeOK, RingTypeOK
<1> USE DEF state
<1>1. ASSUME sq # << >>
      PROVE  /\ Head(sq) \in Operation /\ Tail(sq) \in Seq(Operation) /\ Len(Tail(sq)) <= SqDepth
             /\ Head(sq).op # "cancel" => Head(sq) \in Ops
  <2>1. Head(sq) \in Operation /\ Tail(sq) \in Seq(Operation) /\ Len(Tail(sq)) = Len(sq) - 1
    BY <1>0, <1>1
  <2> QED
    BY <1>0, <2>1, Groups
<1>2. ASSUME NEW op \in Ops, NEW res \in Results(op), Returns(op, res)
      PROVE  /\ [op |-> op, res |-> res] \in Completion
             /\ cq' = Append(cq, [op |-> op, res |-> res]) /\ cq' \in Seq(Completion)
             /\ Len(cq') = Len(cq) + 1
             /\ open \subseteq open' /\ open' \subseteq Fds
             /\ \A k \in 1 .. Len(cq') :
                  \/ k \in 1 .. Len(cq) /\ cq'[k] = cq[k]
                  \/ cq'[k].op = Acceptor /\ cq'[k].res \in Fds => cq'[k].res \in open' \ open
  <2>1. /\ op \in Operation /\ res \in Int /\ (op = Acceptor <=> op.op = "accept")
        /\ op = Acceptor /\ res \in Fds => res \notin open
        /\ op.op = "accept" /\ res # FAILED => res \in Fds
    BY Groups, ResultFacts
  <2>2. PICK c \in Completion : c = [op |-> op, res |-> res]
    BY <2>1 DEF Completion
  <2>3. /\ cq' = Append(cq, c) /\ c.op = op /\ c.res = res
        /\ open' = IF op.op = "accept" /\ res # FAILED THEN open \cup {res} ELSE open
    BY <1>2, <2>2 DEF Returns
  <2>4. open \subseteq open' /\ open' \subseteq Fds
    BY <1>0, <2>1, <2>3
  <2>5. op = Acceptor /\ res \in Fds => res \in open' \ open
    BY <2>1, <2>3, FdsAssumption DEF FAILED
  <2>6. \A k \in 1 .. Len(cq') : (k \in 1 .. Len(cq) /\ cq'[k] = cq[k]) \/ cq'[k] = c
    BY <1>0, <2>3, AppendEntries
  <2>7. cq' \in Seq(Completion) /\ Len(cq') = Len(cq) + 1
    BY <1>0, <2>3
  <2> QED
    BY <2>2, <2>3, <2>4, <2>5, <2>6, <2>7
<1>3. CASE SubmitWaits
  <2>1. /\ sq # << >> /\ Head(sq).op # "cancel" /\ flight' = flight \cup {Head(sq)} /\ sq' = Tail(sq)
        /\ UNCHANGED <<up, pc, cq, ready, co, client_fds, shutting_down, raced, open, signalled>>
    BY <1>3 DEF SubmitWaits
  <2>2. RingTypeOK(Operation, Completion)' /\ flight' \subseteq Ops /\ Len(sq') <= SqDepth
    BY <1>0, <1>1, <2>1 DEF RingTypeOK
  <2>3. \A M : Once(M) => Once(M)' /\ (Absent(M)' <=> Absent(M))
    BY <1>0, <2>1, TakeOnce
  <2> QED
    BY <1>0, <2>1, <2>2, <2>3
<1>4. CASE SubmitCompletes
  <2>1. /\ sq # << >> /\ Head(sq).op # "cancel" /\ flight' = flight /\ sq' = Tail(sq)
        /\ UNCHANGED <<up, pc, ready, co, client_fds, shutting_down, raced, signalled>>
    BY <1>4 DEF SubmitCompletes
  <2>2. PICK op \in Ops : op = Head(sq)
    BY <1>1, <2>1
  <2>3. PICK res \in Results(op) : Returns(op, res)
    BY <1>4, <2>2 DEF SubmitCompletes
  <2>4. PICK c \in Completion : c = [op |-> op, res |-> res] /\ cq' = Append(cq, c) /\ c.op = Head(sq)
    BY <1>2, <2>2, <2>3
  <2>5. RingTypeOK(Operation, Completion)' /\ flight' \subseteq Ops /\ Len(sq') <= SqDepth
    BY <1>0, <1>1, <1>2, <2>1, <2>3 DEF RingTypeOK
  <2>6. \A M : Once(M) => Once(M)' /\ (Absent(M)' <=> Absent(M))
    BY <1>0, <2>1, <2>4, CompleteAtOnce
  <2>7. /\ cq' \in Seq(Completion) /\ Len(cq') = Len(cq) + 1 /\ open \subseteq open' /\ open' \subseteq Fds
        /\ \A k \in 1 .. Len(cq') :
             \/ k \in 1 .. Len(cq) /\ cq'[k] = cq[k]
             \/ cq'[k].op = Acceptor /\ cq'[k].res \in Fds => cq'[k].res \in open' \ open
    BY <1>2, <2>3
  <2>8. ready <= Len(cq')
    BY <1>0, <2>7
  <2> QED
    BY <2>1, <2>5, <2>6, <2>7, <2>8
<1>5. CASE SubmitCancel
  <2>1. PICK hit : hit = Hit
    OBVIOUS
  <2>2. PICK list : list = SetToSeq(Cancelled)
    OBVIOUS
  <2>3. /\ sq # << >> /\ Head(sq).op = "cancel" /\ flight' = flight \ hit /\ sq' = Tail(sq)
        /\ cq' = Append(cq \o list, [op |-> Head(sq), res |-> Cardinality(hit)])
        /\ UNCHANGED <<up, pc, ready, co, client_fds, shutting_down, raced, open, signalled>>
    BY <1>5, <2>1, <2>2 DEF SubmitCancel, Hit, Cancelled
  <2>4. /\ list \in Seq(Completion) /\ Cardinality(hit) \in Nat
        /\ \A j, k \in 1 .. Len(list) : list[j].op = list[k].op => j = k
        /\ \A k \in 1 .. Len(list) : list[k].op \in hit /\ list[k].res = ECANCELED
        /\ \A op \in hit : \E k \in 1 .. Len(list) : list[k].op = op
    <3>1. OneForEach(list, hit)
      BY <2>1, <2>2, <2>3, CancelledList
    <3> QED
      BY <3>1 DEF OneForEach
  <2>5. PICK c \in Completion : /\ c = [op |-> Head(sq), res |-> Cardinality(hit)]
                                /\ c.op = Head(sq) /\ cq' = Append(cq \o list, c)
    <3>1. [op |-> Head(sq), res |-> Cardinality(hit)] \in Completion
      BY <1>1, <2>3, <2>4 DEF Completion
    <3> QED
      BY <2>3, <3>1
  <2>6. hit \in SUBSET flight
    BY <2>1 DEF Hit
  <2>7. \A M : Once(M) => Once(M)' /\ (Absent(M)' <=> Absent(M))
    <3>1. Lists(list, hit)
      BY <2>4 DEF Lists
    <3>4. list \in Seq(Completion) /\ RingTypeOK(Operation, Completion)
      BY <1>0, <2>4
    <3>5. sq # << >> /\ flight' = flight \ hit /\ sq' = Tail(sq) /\ c.op = Head(sq)
          /\ cq' = Append(cq \o list, c)
      BY <2>3, <2>5
    <3> QED
      BY <2>6, <3>1, <3>4, <3>5, CancelOnce
  <2>8. PICK both \in Seq(Completion) : both = cq \o list
    <3>1. cq \in Seq(Completion) /\ list \in Seq(Completion)
      BY <1>0, <2>4
    <3>2. cq \o list \in Seq(Completion)
      BY <3>1
    <3> QED
      BY <3>2
  <2>9. /\ Len(both) = Len(cq) + Len(list) /\ Len(list) \in Nat
        /\ \A k \in 1 .. Len(both) : \/ k \in 1 .. Len(cq) /\ both[k] = cq[k]
                                     \/ \E j \in 1 .. Len(list) : both[k] = list[j]
    <3>1. cq \in Seq(Completion) /\ list \in Seq(Completion)
      BY <1>0, <2>4
    <3> QED
      BY <2>8, <3>1, Joined
  <2>10. /\ cq' = Append(both, c) /\ cq' \in Seq(Completion) /\ Len(cq') = Len(both) + 1
         /\ \A k \in 1 .. Len(cq') : (k \in 1 .. Len(both) /\ cq'[k] = both[k]) \/ cq'[k] = c
    BY <2>5, <2>8
  <2>11. c.op # Acceptor /\ ECANCELED \notin Fds
    BY <2>3, <2>5, Fields, FdsAssumption DEF ECANCELED
  <2>12. \A k \in 1 .. Len(cq') :
           \/ k \in 1 .. Len(cq) /\ cq'[k] = cq[k]
           \/ cq'[k].op = Acceptor /\ cq'[k].res \in Fds => cq'[k].res \in open' \ open
    BY <2>4, <2>9, <2>10, <2>11
  <2>13. RingTypeOK(Operation, Completion)' /\ flight' \subseteq Ops /\ Len(sq') <= SqDepth
    BY <1>0, <1>1, <2>3, <2>10 DEF RingTypeOK
  <2>14. ready <= Len(cq')
    BY <1>0, <2>9, <2>10
  <2> QED
    BY <1>0, <2>3, <2>7, <2>12, <2>13, <2>14
<1>6. ASSUME NEW op \in Ops, Completes(op)
      PROVE  /\ RingTypeOK(Operation, Completion)' /\ flight' \subseteq Ops
             /\ Len(sq') <= SqDepth /\ ready' = ready /\ ready <= Len(cq')
             /\ UNCHANGED <<up, pc, co, client_fds, shutting_down, raced, signalled>>
             /\ open \subseteq open' /\ open' \subseteq Fds
             /\ \A M : Once(M) => Once(M)' /\ (Absent(M)' <=> Absent(M))
             /\ \A k \in 1 .. Len(cq') :
                  \/ k \in 1 .. Len(cq) /\ cq'[k] = cq[k]
                  \/ cq'[k].op = Acceptor /\ cq'[k].res \in Fds => cq'[k].res \in open' \ open
  <2>1. /\ op \in flight /\ flight' = flight \ {op} /\ sq' = sq
        /\ UNCHANGED <<up, pc, ready, co, client_fds, shutting_down, raced, signalled>>
    BY <1>6 DEF Completes
  <2>2. PICK res \in Results(op) : Returns(op, res)
    BY <1>6 DEF Completes
  <2>3. PICK c \in Completion : c = [op |-> op, res |-> res] /\ cq' = Append(cq, c) /\ c.op = op
    BY <1>2, <2>2
  <2>4. RingTypeOK(Operation, Completion)' /\ flight' \subseteq Ops
    BY <1>0, <1>2, <2>1, <2>2 DEF RingTypeOK
  <2>5. \A M : Once(M) => Once(M)' /\ (Absent(M)' <=> Absent(M))
    BY <1>0, <2>1, <2>3, CompleteOnce
  <2>6. /\ cq' \in Seq(Completion) /\ Len(cq') = Len(cq) + 1 /\ open \subseteq open' /\ open' \subseteq Fds
        /\ \A k \in 1 .. Len(cq') :
             \/ k \in 1 .. Len(cq) /\ cq'[k] = cq[k]
             \/ cq'[k].op = Acceptor /\ cq'[k].res \in Fds => cq'[k].res \in open' \ open
    BY <1>2, <2>2
  <2>7. ready <= Len(cq') /\ Len(sq') <= SqDepth
    BY <1>0, <2>1, <2>6
  <2> QED
    BY <2>1, <2>4, <2>5, <2>6, <2>7
<1> QED
  BY <1>3, <1>4, <1>5, <1>6 DEF KernelStep

----
\* The cancellations signal_watcher prepares.
ClientCancels == {CancelFd(fd) : fd \in client_fds}
CancelAll == <<CancelFd(listen_fd)>> \o SetToSeq(ClientCancels)

\* One for the listening socket and one for each client.
LEMMA CancelAllList ==
  ASSUME ShutdownTypeOK, NEW ops, ops = CancelAll
  PROVE  /\ ops \in Seq(Operation) /\ Len(ops) = 1 + Cardinality(client_fds)
         /\ IsFiniteSet(client_fds) /\ Cardinality(client_fds) \in Nat
         /\ 1 \in 1 .. Len(ops) /\ ops[1] = CancelFd(listen_fd)
         /\ \A k \in 1 .. Len(ops) : k # 1 => \E fd \in client_fds : ops[k] = CancelFd(fd)
         /\ \A j, k \in 1 .. Len(ops) : ops[j] = ops[k] => j = k
<1> DEFINE f == [fd \in client_fds |-> CancelFd(fd)]
<1>1. client_fds \subseteq Fds
  BY DEF ShutdownTypeOK
<1>2. IsFiniteSet(client_fds) /\ Cardinality(client_fds) \in Nat
  BY <1>1, FS_Subset, FS_CardinalityType, FdsAssumption
<1>3. PICK S : S = ClientCancels
  OBVIOUS
<1>4. \A x \in S : \E fd \in client_fds : x = CancelFd(fd)
  BY <1>3 DEF ClientCancels
<1>5. IsFiniteSet(S) /\ Cardinality(S) = Cardinality(client_fds)
  <2>1. f \in [client_fds -> S] /\ \A t \in S : \E x \in client_fds : f[x] = t
    BY <1>3 DEF ClientCancels
  <2>2. \A x, y \in client_fds : f[x] = f[y] => x = y
    <3>1. \A x \in client_fds : f[x].fd = x
      BY <1>1, Fields
    <3> QED
      BY <3>1
  <2> HIDE DEF f
  <2> QED
    BY <1>2, <2>1, <2>2, ImageOneToOne
<1>6. PICK s : s = SetToSeq(S)
  OBVIOUS
<1>7. /\ s \in Seq(S) /\ Len(s) = Cardinality(client_fds)
      /\ \A j, k \in 1 .. Len(s) : s[j] = s[k] => j = k
      /\ \A k \in 1 .. Len(s) : s[k] \in S
  <2>1. /\ SetToSeq(S) \in Seq(S) /\ Len(SetToSeq(S)) = Cardinality(S)
        /\ \A j, k \in 1 .. Len(SetToSeq(S)) : SetToSeq(S)[j] = SetToSeq(S)[k] => j = k
        /\ \A k \in 1 .. Len(SetToSeq(S)) : SetToSeq(S)[k] \in S
    BY <1>5, SetToSeqLists
  <2> QED
    BY <1>5, <1>6, <2>1
<1>8. PICK first \in Operation : first = CancelFd(listen_fd) /\ first.fd = 0
  BY Groups, Fields
<1>9. ops = <<first>> \o s
  BY <1>3, <1>6, <1>8 DEF CancelAll
<1>10. s \in Seq(Operation) /\ \A k \in 1 .. Len(s) : s[k].fd # 0 /\ \E fd \in client_fds : s[k] = CancelFd(fd)
  <2>1. \A x \in S : x \in Operation /\ x.fd # 0
    BY <1>1, <1>4, Groups, Fields
  <2> QED
    BY <1>4, <1>7, <2>1
<1>11. <<first>> \in Seq(Operation) /\ Len(<<first>>) = 1 /\ <<first>>[1] = first
  OBVIOUS
<1>12. /\ ops \in Seq(Operation) /\ Len(ops) = 1 + Len(s) /\ ops[1] = first
       /\ \A k \in 1 .. Len(ops) : k # 1 => k - 1 \in 1 .. Len(s) /\ ops[k] = s[k - 1]
  BY <1>9, <1>10, <1>11
<1>13. \A k \in 1 .. Len(ops) : k # 1 => ops[k].fd # 0 /\ \E fd \in client_fds : ops[k] = CancelFd(fd)
  BY <1>10, <1>12
<1>14. \A j, k \in 1 .. Len(ops) : ops[j] = ops[k] => j = k
  <2> SUFFICES ASSUME NEW j \in 1 .. Len(ops), NEW k \in 1 .. Len(ops), ops[j] = ops[k] PROVE j = k
    OBVIOUS
  <2>1. j = 1 <=> k = 1
    BY <1>8, <1>12, <1>13
  <2>2. CASE j # 1 /\ k # 1
    <3>1. j - 1 = k - 1
      BY <1>7, <1>12, <2>2
    <3> QED
      BY <3>1
  <2> QED
    BY <2>1, <2>2
<1>15. 1 \in 1 .. Len(ops) /\ Len(ops) = 1 + Cardinality(client_fds)
  BY <1>2, <1>7, <1>12
<1> QED
  BY <1>2, <1>8, <1>12, <1>13, <1>14, <1>15

\* The handlers, and what each of them prepares.
LEMMA HandlerOps ==
  ASSUME ShutdownInv, up, Handle
  PROVE  /\ Seen /\ \E kind : Peek(kind)
         /\ \/ UNCHANGED <<up, sq>> \/ \E ops \in Seq(Operation) : Prepare(ops)
<1>0. ShutdownTypeOK
  BY InvParts
<1>1. /\ Seen /\ \E kind : Peek(kind)
  BY DEF Handle, CancelCqe, Accepted, AcceptFailed, AcceptCancelled, ClientGoesOn, ClientEnds, SignalCqe
<1>2. CASE CancelCqe \/ AcceptCancelled \/ ClientEnds
  BY <1>1, <1>2 DEF CancelCqe, AcceptCancelled, ClientEnds
<1>3. CASE Accepted
  <2>1. Recv(Res) \in Operation /\ Acceptor \in Operation
    BY <1>3, Groups DEF Accepted
  <2>2. <<Recv(Res), Acceptor>> \in Seq(Operation)
    BY <2>1
  <2> QED
    BY <1>1, <1>3, <2>2 DEF Accepted
<1>4. CASE AcceptFailed
  <2>1. <<Acceptor>> \in Seq(Operation)
    BY Groups
  <2> QED
    BY <1>1, <1>4, <2>1 DEF AcceptFailed
<1>5. CASE ClientGoesOn
  <2>1. Op.fd \in Fds
    BY <1>0, <1>5, PeekFacts, Groups DEF ClientGoesOn
  <2>2. Recv(Op.fd) \in Operation /\ Send(Op.fd) \in Operation
    BY <2>1, Groups
  <2>3. <<Recv(Op.fd)>> \in Seq(Operation) /\ <<Send(Op.fd)>> \in Seq(Operation)
    BY <2>2
  <2>4. Prepare(<<Recv(Op.fd)>>) \/ Prepare(<<Send(Op.fd)>>)
    BY <1>5 DEF ClientGoesOn, Recv, Send
  <2> QED
    BY <1>1, <2>3, <2>4
<1>6. CASE SignalCqe
  <2>1. Prepare(CancelAll) /\ CancelAll \in Seq(Operation)
    BY <1>0, <1>6, CancelAllList DEF SignalCqe, CancelAll, ClientCancels
  <2> QED
    BY <1>1, <2>1
<1> QED
  BY <1>2, <1>3, <1>4, <1>5, <1>6 DEF Handle

\* A handler keeps the types of the ring.
LEMMA HandlerTypes ==
  ASSUME ShutdownInv, up, Handle
  PROVE  /\ RingTypeOK(Operation, Completion)' /\ up' \in BOOLEAN /\ Len(sq') <= SqDepth
         /\ ready' \in Nat /\ ready' <= Len(cq') /\ UNCHANGED <<pc, flight>>
         /\ cq # << >> /\ cq' = Tail(cq) /\ cq \in Seq(Completion)
<1>0. ShutdownTypeOK
  BY InvParts
<1>1. PICK kind : Peek(kind)
  BY HandlerOps
<1>2. /\ cq \in Seq(Completion) /\ cq # << >> /\ ready \in Nat \ {0} /\ ready <= Len(cq)
      /\ sq \in Seq(Operation) /\ flight \subseteq Operation /\ Len(sq) <= SqDepth
  BY <1>0, <1>1, PeekFacts DEF ShutdownTypeOK, RingTypeOK
<1>3. cq' = Tail(cq) /\ ready' = ready - 1 /\ UNCHANGED <<pc, flight>>
  BY HandlerOps DEF Seen
<1>4. cq' \in Seq(Completion) /\ ready' \in Nat /\ ready' <= Len(cq')
  BY <1>2, <1>3
<1>5. up' \in BOOLEAN /\ sq' \in Seq(Operation) /\ Len(sq') <= SqDepth
  <2>1. CASE UNCHANGED <<up, sq>>
    BY <1>0, <1>2, <2>1 DEF ShutdownTypeOK
  <2>2. ASSUME NEW ops \in Seq(Operation), Prepare(ops)
        PROVE  up' \in BOOLEAN /\ sq' \in Seq(Operation) /\ Len(sq') <= SqDepth
    BY <1>2, <2>2, PrepareRing
  <2> QED
    BY <2>1, <2>2, HandlerOps
<1> QED
  BY <1>2, <1>3, <1>4, <1>5 DEF RingTypeOK

\* Every action keeps every variable in its type, and the registry in step with
\* the coroutines.
LEMMA NextShutdownTypeOK ==
  ASSUME ShutdownInv, Next
  PROVE  ShutdownTypeOK' /\ \A fd \in Fds : fd \in client_fds' <=> co'[fd] # "none"
<1>0. /\ up /\ ShutdownTypeOK /\ NotYetClient
      /\ \A fd \in Fds : fd \in client_fds <=> co[fd] # "none"
  BY UpToStep, InvParts
<1>t. /\ cq \in Seq(Completion) /\ ready \in Nat /\ client_fds \subseteq open /\ open \subseteq Fds
      /\ co \in [Fds -> {"none", "recv", "send"}] /\ up \in BOOLEAN
  BY <1>0 DEF ShutdownTypeOK, RingTypeOK
<1> USE DEF state
<1>1. CASE KernelStep
  <2>1. /\ RingTypeOK(Operation, Completion)' /\ flight' \subseteq Ops
        /\ Len(sq') <= SqDepth /\ ready' = ready /\ ready <= Len(cq')
        /\ UNCHANGED <<up, pc, co, client_fds>>
        /\ open \subseteq open' /\ open' \subseteq Fds
    BY <1>0, <1>1, KernelMoves
  <2> QED
    BY <1>0, <2>1 DEF ShutdownTypeOK
<1>2. CASE Submitted \/ BatchDone \/ Signal
  <2>1. /\ UNCHANGED <<up, sq, flight, cq, ready, co, client_fds, open>>
        /\ pc' \in {pc, "wait", "exited", "submit"}
    BY <1>2 DEF Submitted, BatchDone, Signal, ring
  <2> QED
    BY <1>0, <2>1 DEF ShutdownTypeOK, RingTypeOK
<1>3. CASE WaitReturns
  <2>1. /\ UNCHANGED <<up, sq, flight, cq, co, client_fds, open>>
        /\ pc' = "cqe" /\ ready' = Len(cq)
    BY <1>3 DEF WaitReturns, Wait
  <2>2. Len(cq) \in Nat
    BY <1>t
  <2>3. ready' \in Nat /\ ready' <= Len(cq')
    BY <2>1, <2>2
  <2> QED
    BY <1>0, <2>1, <2>3 DEF ShutdownTypeOK, RingTypeOK
<1>4. CASE Handle
  <2>1. /\ RingTypeOK(Operation, Completion)' /\ up' \in BOOLEAN /\ Len(sq') <= SqDepth
        /\ ready' \in Nat /\ ready' <= Len(cq') /\ UNCHANGED <<pc, flight>>
    BY <1>0, <1>4, HandlerTypes
  <2>2. /\ client_fds' \subseteq open' /\ open' \subseteq Fds
        /\ co' \in [Fds -> {"none", "recv", "send"}]
        /\ \A fd \in Fds : fd \in client_fds' <=> co'[fd] # "none"
    <3>1. CASE CancelCqe \/ AcceptFailed \/ AcceptCancelled \/ SignalCqe
      BY <1>0, <1>t, <3>1 DEF CancelCqe, AcceptFailed, AcceptCancelled, SignalCqe
    <3>2. CASE Accepted
      <4>1. Op = cq[1].op /\ Op = Acceptor /\ 1 \in 1 .. Len(cq) /\ Res = cq[1].res /\ Res \in Fds
        BY <1>0, <3>2, PeekFacts, Groups DEF Accepted
      <4>2. Res \in open
        BY <1>0, <4>1 DEF NotYetClient
      <4>3. /\ client_fds' = client_fds \cup {Res} /\ co' = [co EXCEPT ![Res] = "recv"] /\ open' = open
        BY <3>2 DEF Accepted
      <4> QED
        BY <1>0, <1>t, <4>1, <4>2, <4>3
    <3>3. CASE ClientGoesOn
      <4>1. Op.fd \in Fds /\ Op = cq[1].op /\ 1 \in 1 .. Len(cq) /\ Op \in Client(Op.fd)
        BY <1>0, <3>3, PeekFacts, Groups DEF ClientGoesOn
      <4>2. Op.fd \in client_fds
        <5>1. PICK f \in Fds : f = Op.fd
          BY <4>1
        <5>2. 1 \in DoneAt(cq, Client(f))
          BY <4>1, <5>1 DEF DoneAt
        <5>3. ~Absent(Client(f))
          BY <5>2 DEF Absent
        <5> QED
          BY <1>0, <5>1, <5>3, InvParts DEF OnePending
      <4>3. PICK next \in {"recv", "send"} : co' = [co EXCEPT ![Op.fd] = next]
        BY <3>3 DEF ClientGoesOn
      <4>4. UNCHANGED <<client_fds, open>>
        BY <3>3 DEF ClientGoesOn
      <4> QED
        BY <1>0, <1>t, <4>1, <4>2, <4>3, <4>4
    <3>4. CASE ClientEnds
      <4>1. Op.fd \in Fds
        BY <1>0, <3>4, PeekFacts, Groups DEF ClientEnds
      <4>2. /\ co' = [co EXCEPT ![Op.fd] = "none"] /\ open' = open \ {Op.fd}
            /\ client_fds' = client_fds \ {Op.fd}
        BY <3>4 DEF ClientEnds
      <4> QED
        BY <1>0, <1>t, <4>1, <4>2
    <3> QED
      BY <1>4, <3>1, <3>2, <3>3, <3>4 DEF Handle
  <2> QED
    BY <1>0, <2>1, <2>2 DEF ShutdownTypeOK
<1> QED
  BY <1>1, <1>2, <1>3, <1>4 DEF Next, Server, KernelStep

----
\* The ring after a handler that has not ended the process.
LEMMA HandlerRing ==
  ASSUME ShutdownInv, up, up', Handle,
         NEW ops \in Seq(Operation), Prepare(ops) \/ (ops = << >> /\ UNCHANGED sq)
  PROVE  /\ RingTypeOK(Operation, Completion) /\ cq # << >>
         /\ flight' = flight /\ cq' = Tail(cq) /\ sq' = sq \o ops
<1>1. ShutdownTypeOK /\ sq \in Seq(Operation) /\ Len(sq) <= SqDepth /\ RingTypeOK(Operation, Completion)
  BY InvParts DEF ShutdownTypeOK, RingTypeOK
<1>2. sq' = sq \o ops
  <2>1. CASE Prepare(ops)
    BY <1>1, <2>1, PrepareRing
  <2>2. CASE ops = << >> /\ UNCHANGED sq
    BY <1>1, <2>2
  <2> QED
    BY <2>1, <2>2
<1> QED
  BY <1>1, <1>2, HandlerTypes

\* No handler but signal_watcher's polls or cancels.
LEMMA WatchedKept ==
  ASSUME ShutdownInv, up, cq # << >>, NEW ops \in Seq(Operation),
         \A k \in 1 .. Len(ops) : ops[k].op \notin {"poll", "cancel"},
         RingTypeOK(Operation, Completion), flight' = flight, cq' = Tail(cq), sq' = sq \o ops
  PROVE  WatchedOnce'
<1>0. WatchedOnce
  BY InvParts
<1>1. \A k \in 1 .. Len(ops) : ops[k] \in Operation
  OBVIOUS
<1>2. ASSUME NEW M, Once(M), \A k \in 1 .. Len(ops) : ops[k] \notin M
      PROVE  Once(M)' /\ (Absent(M) => Absent(M)')
  <2>1. OpsAt(ops, M) = {}
    BY <1>2 DEF OpsAt
  <2> QED
    BY <1>2, <2>1, SeenOnce
<1>3. Once(Watched)'
  <2>1. PICK M : M = Watched
    OBVIOUS
  <2>2. \A k \in 1 .. Len(ops) : ops[k] \notin M
    BY <1>1, <2>1, Groups
  <2>3. Once(M)'
    BY <1>0, <1>2, <2>1, <2>2 DEF WatchedOnce
  <2>4. UNCHANGED Watched
    BY DEF Watched, Poll, CancelFd, listen_fd
  <2> QED
    BY <2>1, <2>3, <2>4
<1>4. ASSUME NEW fd \in Fds
      PROVE  Once({CancelFd(fd)})' /\ (Absent({CancelFd(fd)}) => Absent({CancelFd(fd)})')
  <2>1. PICK M : M = {CancelFd(fd)}
    OBVIOUS
  <2>2. \A k \in 1 .. Len(ops) : ops[k] \notin M
    <3>1. CancelFd(fd).op = "cancel"
      BY Fields
    <3> QED
      BY <2>1, <3>1
  <2>3. Once(M)' /\ (Absent(M) => Absent(M)')
    BY <1>0, <1>2, <2>1, <2>2 DEF WatchedOnce
  <2> QED
    BY <2>1, <2>3
<1>5. Absent({Poll}) => Absent({Poll})'
  <2>1. PICK M : M = {Poll}
    OBVIOUS
  <2>2. \A k \in 1 .. Len(ops) : ops[k] \notin M
    BY <1>1, <2>1, Groups
  <2>3. Once(M)
    BY <1>0, <2>1, OncePart DEF WatchedOnce, Watched
  <2>4. Absent(M) => Absent(M)'
    BY <1>2, <2>2, <2>3
  <2> QED
    BY <2>1, <2>4
<1> QED
  BY <1>0, <1>3, <1>4, <1>5 DEF WatchedOnce

\* The poll is not armed again, and everybody is cancelled once.
LEMMA NextWatchedOnce == ASSUME ShutdownInv, Next, up' PROVE WatchedOnce'
<1>0. /\ up /\ ShutdownTypeOK /\ WatchedOnce
  BY UpToStep, InvParts
<1> USE DEF state
<1>m. ASSUME \A M : Once(M) => Once(M)' /\ (Absent(M)' <=> Absent(M)) PROVE WatchedOnce'
  <2>1. Once({Poll})
    BY <1>0, OncePart DEF WatchedOnce, Watched
  <2>2. PICK W : W = Watched
    OBVIOUS
  <2>3. UNCHANGED Watched
    BY DEF Watched, Poll, CancelFd, listen_fd
  <2>4. Once(Watched)'
    BY <1>0, <1>m, <2>2, <2>3 DEF WatchedOnce
  <2>5. \A fd \in Fds : Once({CancelFd(fd)})' /\ (Absent({CancelFd(fd)})' <=> Absent({CancelFd(fd)}))
    BY <1>0, <1>m DEF WatchedOnce
  <2>6. Absent({Poll})' <=> Absent({Poll})
    BY <1>m, <2>1
  <2> QED
    BY <1>0, <2>4, <2>5, <2>6 DEF WatchedOnce
<1>1. CASE KernelStep
  BY <1>0, <1>1, <1>m, KernelMoves
<1>2. CASE Submitted \/ BatchDone \/ Signal \/ WaitReturns
  <2>1. UNCHANGED <<sq, flight, cq>>
    BY <1>2 DEF Submitted, BatchDone, Signal, ring, WaitReturns, Wait
  <2>2. \A M : Once(M) => Once(M)' /\ (Absent(M)' <=> Absent(M))
    BY <2>1 DEF Once, Absent
  <2> QED
    BY <1>m, <2>2
<1>3. CASE Handle /\ ~SignalCqe
  <2>1. PICK ops \in Seq(Operation) :
          /\ Prepare(ops) \/ (ops = << >> /\ UNCHANGED sq)
          /\ \A k \in 1 .. Len(ops) : ops[k].op \notin {"poll", "cancel"}
    <3>1. CASE CancelCqe \/ AcceptCancelled \/ ClientEnds
      <4>1. << >> \in Seq(Operation) /\ \A k \in 1 .. Len(<< >>) : FALSE
        OBVIOUS
      <4>2. UNCHANGED sq
        BY <3>1 DEF CancelCqe, AcceptCancelled, ClientEnds
      <4> QED
        BY <4>1, <4>2
    <3>2. CASE Accepted
      <4>1. Recv(Res) \in Operation /\ Acceptor \in Operation /\ Recv(Res).op = "recv" /\ Acceptor.op = "accept"
        BY <3>2, Groups, Fields DEF Accepted
      <4>2. /\ <<Recv(Res), Acceptor>> \in Seq(Operation)
            /\ \A k \in 1 .. Len(<<Recv(Res), Acceptor>>) :
                 <<Recv(Res), Acceptor>>[k].op \in {"recv", "accept"}
        BY <4>1
      <4> QED
        BY <3>2, <4>2 DEF Accepted
    <3>3. CASE AcceptFailed
      <4>1. Acceptor \in Operation /\ Acceptor.op = "accept"
        BY Groups, Fields
      <4>2. <<Acceptor>> \in Seq(Operation) /\ \A k \in 1 .. Len(<<Acceptor>>) : <<Acceptor>>[k].op = "accept"
        BY <4>1
      <4> QED
        BY <3>3, <4>2 DEF AcceptFailed
    <3>4. CASE ClientGoesOn
      <4>1. Op.fd \in Fds
        BY <1>0, <3>4, PeekFacts, Groups DEF ClientGoesOn
      <4>2. PICK op \in Operation : Prepare(<<op>>) /\ op.op \in {"recv", "send"}
        <5>1. /\ Recv(Op.fd) \in Operation /\ Send(Op.fd) \in Operation
              /\ Recv(Op.fd).op = "recv" /\ Send(Op.fd).op = "send"
          BY <4>1, Groups, Fields
        <5>2. Prepare(<<Recv(Op.fd)>>) \/ Prepare(<<Send(Op.fd)>>)
          BY <3>4 DEF ClientGoesOn, Recv, Send
        <5> QED
          BY <5>1, <5>2
      <4>3. <<op>> \in Seq(Operation) /\ \A k \in 1 .. Len(<<op>>) : <<op>>[k] = op
        OBVIOUS
      <4> QED
        BY <4>2, <4>3
    <3> QED
      BY <1>3, <3>1, <3>2, <3>3, <3>4 DEF Handle
  <2>2. /\ RingTypeOK(Operation, Completion) /\ cq # << >>
        /\ flight' = flight /\ cq' = Tail(cq) /\ sq' = sq \o ops
    BY <1>0, <1>3, <2>1, HandlerRing
  <2> QED
    BY <1>0, <2>1, <2>2, WatchedKept
<1>4. CASE SignalCqe
  <2>1. PICK ops : ops = CancelAll
    OBVIOUS
  <2>2. /\ ops \in Seq(Operation) /\ 1 \in 1 .. Len(ops) /\ ops[1] = CancelFd(listen_fd)
        /\ \A k \in 1 .. Len(ops) : k # 1 => \E fd \in client_fds : ops[k] = CancelFd(fd)
        /\ \A j, k \in 1 .. Len(ops) : ops[j] = ops[k] => j = k
    BY <1>0, <2>1, CancelAllList
  <2>3. Prepare(ops) /\ Handle
    BY <1>4, <2>1 DEF SignalCqe, CancelAll, ClientCancels, Handle
  <2>4. /\ RingTypeOK(Operation, Completion) /\ cq # << >>
        /\ flight' = flight /\ cq' = Tail(cq) /\ sq' = sq \o ops
    BY <1>0, <2>2, <2>3, HandlerRing
  <2>5. Head(cq).op = Poll /\ 1 \in DoneAt(cq, {Poll})
    <3>1. Op = Poll /\ Op = cq[1].op /\ Head(cq) = cq[1] /\ 1 \in 1 .. Len(cq)
      BY <1>0, <1>4, PeekFacts, Groups DEF SignalCqe
    <3> QED
      BY <3>1 DEF DoneAt
  <2>6. \A k \in 1 .. Len(ops) : /\ ops[k] \in Operation /\ ops[k].op = "cancel"
                                 /\ k # 1 => ops[k].fd \in Fds
                                 /\ k = 1 => ops[k].fd = 0
    <3>1. client_fds \subseteq Fds
      BY <1>0 DEF ShutdownTypeOK
    <3> QED
      BY <2>2, <3>1, Fields
  <2>7. Once(Watched)'
    <3>1. PICK M : M = Watched
      OBVIOUS
    <3>2. OpsAt(ops, M) = {1}
      <4>1. \A k \in 1 .. Len(ops) : ops[k] \in M <=> k = 1
        BY <2>6, <3>1, Groups, Fields
      <4> QED
        BY <2>2, <4>1 DEF OpsAt
    <3>3. Once(M) /\ Head(cq).op \in M
      BY <1>0, <2>5, <3>1 DEF WatchedOnce, Watched
    <3>4. Once(M)'
      BY <2>2, <2>4, <3>2, <3>3, SeenOnce
    <3>5. UNCHANGED Watched
      BY DEF Watched, Poll, CancelFd, listen_fd
    <3> QED
      BY <3>1, <3>4, <3>5
  <2>8. ASSUME NEW fd \in Fds PROVE Once({CancelFd(fd)})'
    <3>1. PICK M : M = {CancelFd(fd)}
      OBVIOUS
    <3>2. \A j, k \in OpsAt(ops, M) : j = k
      BY <2>2, <3>1 DEF OpsAt
    <3>3. Once(M) /\ Absent(M)
      <4>1. ~Absent({Poll})
        BY <2>5 DEF Absent
      <4> QED
        BY <1>0, <3>1, <4>1 DEF WatchedOnce
    <3>4. Once(M)'
      BY <2>2, <2>4, <3>2, <3>3, SeenOnce
    <3> QED
      BY <3>1, <3>4
  <2>9. Absent({Poll})'
    <3>1. PICK M : M = {Poll}
      OBVIOUS
    <3>2. OpsAt(ops, M) = {}
      BY <2>6, <3>1, Groups, Fields DEF OpsAt
    <3>3. Once(M) /\ Head(cq).op \in M
      BY <1>0, <2>5, <3>1, OncePart DEF WatchedOnce, Watched
    <3>4. Absent(M)'
      BY <2>2, <2>4, <3>2, <3>3, SeenOnce
    <3> QED
      BY <3>1, <3>4
  <2> QED
    BY <2>7, <2>8, <2>9 DEF WatchedOnce
<1> QED
  BY <1>1, <1>2, <1>3, <1>4 DEF Next, Server, KernelStep

\* A handler prepares the next operation of what it handles, or none.
LEMMA NextOnePending == ASSUME ShutdownInv, Next, up' PROVE OnePending'
<1>0. /\ up /\ ShutdownTypeOK /\ OnePending /\ NotYetClient
      /\ Once({Acceptor})
      /\ \A fd \in Fds : Once(Client(fd)) /\ (Absent(Client(fd)) <=> fd \notin client_fds)
  BY UpToStep, InvParts DEF OnePending
<1> USE DEF state
<1>u. UNCHANGED {Acceptor} /\ \A fd \in Fds : UNCHANGED Client(fd)
  BY DEF Acceptor, Client, Recv, Send
<1>m. ASSUME \A M : Once(M) => Once(M)' /\ (Absent(M)' <=> Absent(M)), client_fds' = client_fds
      PROVE  OnePending'
  <2>1. Once({Acceptor})'
    BY <1>0, <1>m
  <2>2. \A fd \in Fds : Once(Client(fd))' /\ (Absent(Client(fd))' <=> Absent(Client(fd)))
    BY <1>0, <1>m
  <2> QED
    BY <1>0, <1>m, <2>1, <2>2 DEF OnePending
<1>1. CASE KernelStep
  BY <1>0, <1>1, <1>m, KernelMoves
<1>2. CASE Submitted \/ BatchDone \/ Signal \/ WaitReturns
  <2>1. UNCHANGED <<sq, flight, cq, client_fds>>
    BY <1>2 DEF Submitted, BatchDone, Signal, ring, WaitReturns, Wait
  <2>2. \A M : Once(M) => Once(M)' /\ (Absent(M)' <=> Absent(M))
    BY <2>1 DEF Once, Absent
  <2> QED
    BY <1>m, <2>1, <2>2
\* A handler, seen from the group M.
<1>3. ASSUME Handle, NEW ops \in Seq(Operation), Prepare(ops) \/ (ops = << >> /\ UNCHANGED sq),
             NEW M, Once(M), \A j, k \in OpsAt(ops, M) : j = k,
             OpsAt(ops, M) # {} => Op \in M \/ Absent(M)
      PROVE  /\ Once(M)'
             /\ OpsAt(ops, M) # {} => ~Absent(M)'
             /\ OpsAt(ops, M) = {} /\ Op \in M => Absent(M)'
             /\ OpsAt(ops, M) = {} /\ Op \notin M => (Absent(M)' <=> Absent(M))
  <2>1. /\ RingTypeOK(Operation, Completion) /\ cq # << >>
        /\ flight' = flight /\ cq' = Tail(cq) /\ sq' = sq \o ops
    BY <1>0, <1>3, HandlerRing
  <2> QED
    BY <1>3, <2>1, SeenOnce DEF Op
\* One that prepares nothing for a client, and handles nothing of one.
<1>4. ASSUME Handle, NEW ops \in Seq(Operation), Prepare(ops) \/ (ops = << >> /\ UNCHANGED sq),
             \A k \in 1 .. Len(ops) : ops[k].op \notin {"recv", "send"},
             Op \in Operation, Op.op \notin {"recv", "send"}, client_fds' = client_fds,
             OpsAt(ops, {Acceptor}) = {} \/ (OpsAt(ops, {Acceptor}) = {1} /\ Op = Acceptor)
      PROVE  OnePending'
  <2>1. Once({Acceptor})'
    <3>1. PICK M : M = {Acceptor}
      OBVIOUS
    <3>2. Once(M) /\ (OpsAt(ops, M) = {} \/ (OpsAt(ops, M) = {1} /\ Op \in M))
      BY <1>0, <1>4, <3>1
    <3>3. Once(M)'
      BY <1>3, <1>4, <3>2
    <3> QED
      BY <1>u, <3>1, <3>3
  <2>2. ASSUME NEW fd \in Fds PROVE Once(Client(fd))' /\ (Absent(Client(fd))' <=> fd \notin client_fds')
    <3>1. PICK M : M = Client(fd)
      OBVIOUS
    <3>2. Once(M) /\ (Absent(M) <=> fd \notin client_fds)
      BY <1>0, <3>1
    <3>3. Op \notin M
      BY <1>4, <3>1, Groups
    <3>4. OpsAt(ops, M) = {}
      <4>1. \A k \in 1 .. Len(ops) : ops[k] \in Operation
        OBVIOUS
      <4> QED
        BY <1>4, <3>1, <4>1, Groups DEF OpsAt
    <3>5. Once(M)' /\ (Absent(M)' <=> Absent(M))
      BY <1>3, <1>4, <3>2, <3>3, <3>4
    <3> QED
      BY <1>4, <1>u, <3>1, <3>2, <3>5
  <2> QED
    BY <2>1, <2>2 DEF OnePending
<1>5. CASE CancelCqe \/ AcceptCancelled
  <2>1. << >> \in Seq(Operation) /\ \A k \in 1 .. Len(<< >>) : FALSE
    OBVIOUS
  <2>2. UNCHANGED <<sq, client_fds>> /\ Handle /\ Op \in Operation /\ Op.op \in {"cancel", "accept"}
    BY <1>0, <1>5, PeekFacts DEF CancelCqe, AcceptCancelled, Handle
  <2>3. OpsAt(<< >>, {Acceptor}) = {}
    BY PlacesOfNone
  <2> QED
    BY <1>4, <2>1, <2>2, <2>3
<1>6. CASE AcceptFailed
  <2>1. Acceptor \in Operation /\ Acceptor.op = "accept"
    BY Groups, Fields
  <2>2. <<Acceptor>> \in Seq(Operation) /\ \A k \in 1 .. Len(<<Acceptor>>) : <<Acceptor>>[k].op = "accept"
    BY <2>1
  <2>3. /\ Prepare(<<Acceptor>>) /\ client_fds' = client_fds /\ Handle /\ Op \in Operation
        /\ Op.op = "accept" /\ Op = Acceptor
    BY <1>0, <1>6, PeekFacts, Groups DEF AcceptFailed, Handle
  <2>4. OpsAt(<<Acceptor>>, {Acceptor}) = {1}
    BY PlaceOfOne
  <2> QED
    BY <1>4, <2>2, <2>3, <2>4
<1>7. CASE SignalCqe
  <2>1. PICK ops : ops = CancelAll
    OBVIOUS
  <2>2. /\ ops \in Seq(Operation) /\ \A k \in 1 .. Len(ops) : ops[k].op = "cancel"
    <3>1. /\ ops \in Seq(Operation) /\ ops[1] = CancelFd(listen_fd)
          /\ \A k \in 1 .. Len(ops) : k # 1 => \E fd \in client_fds : ops[k] = CancelFd(fd)
      BY <1>0, <2>1, CancelAllList
    <3>2. client_fds \subseteq Fds
      BY <1>0 DEF ShutdownTypeOK
    <3> QED
      BY <3>1, <3>2, Fields
  <2>3. /\ Prepare(ops) /\ Handle /\ client_fds' = client_fds /\ Op \in Operation /\ Op.op = "poll"
    BY <1>0, <1>7, <2>1, PeekFacts DEF SignalCqe, CancelAll, ClientCancels, Handle
  <2>4. OpsAt(ops, {Acceptor}) = {}
    BY <2>2, Fields DEF OpsAt
  <2> QED
    BY <1>4, <2>2, <2>3, <2>4
<1>8. CASE Accepted
  <2>1. Op = cq[1].op /\ Op = Acceptor /\ 1 \in 1 .. Len(cq) /\ Res = cq[1].res /\ Res \in Fds
    BY <1>0, <1>8, PeekFacts, Groups DEF Accepted
  <2>2. PICK r \in Fds : r = Res /\ r \notin client_fds
    BY <1>0, <2>1 DEF NotYetClient
  <2>3. PICK ops \in Seq(Operation) : ops = <<Recv(r), Acceptor>>
    <3>1. Recv(r) \in Operation /\ Acceptor \in Operation
      BY Groups
    <3>2. <<Recv(r), Acceptor>> \in Seq(Operation)
      BY <3>1
    <3> QED
      BY <3>2
  <2>4. Handle /\ Prepare(ops) /\ client_fds' = client_fds \cup {r}
    BY <1>8, <2>2, <2>3 DEF Handle, Accepted
  <2>5. Once({Acceptor})'
    <3>1. PICK M : M = {Acceptor}
      OBVIOUS
    <3>2. OpsAt(ops, M) = {2}
      <4>1. Recv(r) \notin M
        BY <3>1 DEF Recv, Acceptor
      <4> QED
        BY <2>3, <3>1, <4>1, PlacesOfTwo
    <3>3. Once(M)'
      BY <1>0, <1>3, <2>1, <2>4, <3>1, <3>2
    <3> QED
      BY <1>u, <3>1, <3>3
  <2>6. ASSUME NEW fd \in Fds PROVE Once(Client(fd))' /\ (Absent(Client(fd))' <=> fd \notin client_fds')
    <3>1. PICK M : M = Client(fd)
      OBVIOUS
    <3>2. Once(M) /\ (Absent(M) <=> fd \notin client_fds) /\ (fd = r => Absent(M))
      BY <1>0, <2>2, <3>1
    <3>3. Acceptor \notin M /\ (Recv(r) \in M <=> fd = r)
      BY <3>1, Groups, Fields
    <3>4. OpsAt(ops, M) = IF fd = r THEN {1} ELSE {}
      BY <2>3, <3>3, PlacesOfTwo
    <3>5. Once(M)' /\ (fd = r => ~Absent(M)') /\ (fd # r => (Absent(M)' <=> Absent(M)))
      BY <1>3, <2>1, <2>4, <3>2, <3>3, <3>4
    <3> QED
      BY <1>u, <2>4, <3>1, <3>2, <3>5
  <2> QED
    BY <2>5, <2>6 DEF OnePending
<1>9. ASSUME Handle, NEW f \in Fds, f = Op.fd, Op \in Operation, Op.op \in {"recv", "send"}, f \in client_fds,
             NEW ops \in Seq(Operation),
             \/ ops = << >> /\ UNCHANGED sq /\ client_fds' = client_fds \ {f}
             \/ Prepare(ops) /\ client_fds' = client_fds /\ \E op \in Client(f) : ops = <<op>>
      PROVE  OnePending'
  <2>0. \A op \in Client(f) : op \in Operation /\ op.op \in {"recv", "send"} /\ op.fd = f
    BY Groups, Fields DEF Client
  <2>1. Once({Acceptor})'
    <3>1. PICK M : M = {Acceptor}
      OBVIOUS
    <3>2. Op \notin M /\ \A op \in Client(f) : op \notin M
      BY <1>9, <2>0, <3>1, Fields
    <3>3. OpsAt(ops, M) = {}
      BY <1>9, <3>2, PlacesOfNone, PlaceOfOne
    <3>4. Once(M)'
      BY <1>0, <1>3, <1>9, <3>1, <3>3
    <3> QED
      BY <1>u, <3>1, <3>4
  <2>2. ASSUME NEW fd \in Fds PROVE Once(Client(fd))' /\ (Absent(Client(fd))' <=> fd \notin client_fds')
    <3>1. PICK M : M = Client(fd)
      OBVIOUS
    <3>2. Once(M) /\ (Absent(M) <=> fd \notin client_fds) /\ (Op \in M <=> fd = f)
      BY <1>0, <1>9, <3>1, Groups
    <3>3. \A op \in Client(f) : op \in M <=> fd = f
      BY <2>0, <3>1, Groups
    <3>4. CASE ops = << >> /\ UNCHANGED sq /\ client_fds' = client_fds \ {f}
      <4>1. OpsAt(ops, M) = {}
        BY <3>4, PlacesOfNone
      <4>2. Once(M)' /\ (fd = f => Absent(M)') /\ (fd # f => (Absent(M)' <=> Absent(M)))
        BY <1>3, <1>9, <3>2, <3>4, <4>1
      <4> QED
        BY <1>u, <3>1, <3>2, <3>4, <4>2
    <3>5. CASE Prepare(ops) /\ client_fds' = client_fds /\ \E op \in Client(f) : ops = <<op>>
      <4>1. OpsAt(ops, M) = IF fd = f THEN {1} ELSE {}
        BY <3>3, <3>5, PlaceOfOne
      <4>2. Once(M)' /\ (fd = f => ~Absent(M)') /\ (fd # f => (Absent(M)' <=> Absent(M)))
        BY <1>3, <1>9, <3>2, <3>5, <4>1
      <4> QED
        BY <1>9, <1>u, <3>1, <3>2, <3>5, <4>2
    <3> QED
      BY <1>9, <3>4, <3>5
  <2> QED
    BY <2>1, <2>2 DEF OnePending
<1>10. ASSUME ClientGoesOn \/ ClientEnds
       PROVE  /\ Handle /\ Op.fd \in Fds /\ Op \in Operation /\ Op.op \in {"recv", "send"}
              /\ Op.fd \in client_fds
  <2>1. /\ Op.fd \in Fds /\ Op = cq[1].op /\ 1 \in 1 .. Len(cq) /\ Op \in Client(Op.fd)
        /\ Op \in Operation /\ Op.op \in {"recv", "send"}
    BY <1>0, <1>10, PeekFacts, Groups DEF ClientGoesOn, ClientEnds
  <2>2. PICK f \in Fds : f = Op.fd
    BY <2>1
  <2>3. 1 \in DoneAt(cq, Client(f))
    BY <2>1, <2>2 DEF DoneAt
  <2>4. ~Absent(Client(f))
    BY <2>3 DEF Absent
  <2> QED
    BY <1>0, <1>10, <2>1, <2>2, <2>4 DEF Handle
<1>11. CASE ClientGoesOn
  <2>1. PICK f \in Fds : f = Op.fd
    BY <1>10, <1>11
  <2>2. PICK op \in Client(f) : Prepare(<<op>>)
    BY <1>11, <2>1 DEF ClientGoesOn, Client, Recv, Send
  <2>3. op \in Operation /\ client_fds' = client_fds
    BY <1>11, <2>2, Groups DEF Client, ClientGoesOn
  <2>4. <<op>> \in Seq(Operation)
    BY <2>3
  <2>5. PICK ops \in Seq(Operation) : ops = <<op>>
    BY <2>4
  <2> QED
    BY <1>9, <1>10, <1>11, <2>1, <2>2, <2>3, <2>5
<1>12. CASE ClientEnds
  <2>1. PICK f \in Fds : f = Op.fd
    BY <1>10, <1>12
  <2>2. client_fds' = client_fds \ {f} /\ UNCHANGED sq
    BY <1>12, <2>1 DEF ClientEnds
  <2>3. << >> \in Seq(Operation)
    OBVIOUS
  <2>4. PICK ops \in Seq(Operation) : ops = << >>
    BY <2>3
  <2> QED
    BY <1>9, <1>10, <1>12, <2>1, <2>2, <2>4
<1> QED
  BY <1>1, <1>2, <1>5, <1>6, <1>7, <1>8, <1>11, <1>12 DEF Next, Server, KernelStep, Handle

\* accept returns a descriptor that is not open, and it stays unregistered until
\* its completion is handled: nobody else closes it.
LEMMA NextNotYetClient == ASSUME ShutdownInv, Next, up' PROVE NotYetClient'
<1>0. /\ up /\ ShutdownTypeOK /\ NotYetClient /\ Once({Acceptor})
      /\ \A fd \in Fds : Absent(Client(fd)) <=> fd \notin client_fds
  BY UpToStep, InvParts DEF OnePending
<1>t. cq \in Seq(Completion) /\ client_fds \subseteq open
  BY <1>0 DEF ShutdownTypeOK, RingTypeOK
<1> USE DEF state
<1>c. UNCHANGED Acceptor
  BY DEF Acceptor
<1>1. CASE KernelStep
  <2>1. /\ client_fds' = client_fds /\ open \subseteq open'
        /\ \A k \in 1 .. Len(cq') :
             \/ k \in 1 .. Len(cq) /\ cq'[k] = cq[k]
             \/ cq'[k].op = Acceptor /\ cq'[k].res \in Fds => cq'[k].res \in open' \ open
    BY <1>0, <1>1, KernelMoves
  <2> QED
    BY <1>0, <1>c, <1>t, <2>1 DEF NotYetClient
<1>2. CASE Submitted \/ BatchDone \/ Signal \/ WaitReturns
  <2>1. UNCHANGED <<cq, client_fds, open>>
    BY <1>2 DEF Submitted, BatchDone, Signal, ring, WaitReturns, Wait
  <2> QED
    BY <1>0, <1>c, <2>1 DEF NotYetClient
<1>3. CASE Handle
  <2>1. cq # << >> /\ cq' = Tail(cq)
    BY <1>0, <1>3, HandlerTypes
  <2>2. \A k \in 1 .. Len(cq') : k + 1 \in 1 .. Len(cq) /\ cq'[k] = cq[k + 1] /\ k + 1 # 1
    BY <1>t, <2>1, TailEntries
  <2>3. CASE Accepted \/ AcceptFailed \/ AcceptCancelled
    <3>1. 1 \in 1 .. Len(cq) /\ cq[1].op = Acceptor
      BY <1>0, <2>3, PeekFacts, Groups DEF Accepted, AcceptFailed, AcceptCancelled
    <3>2. \A k \in 1 .. Len(cq) : cq[k].op = Acceptor => k = 1
      BY <1>0, <3>1 DEF Once, DoneAt
    <3>3. \A k \in 1 .. Len(cq') : cq'[k].op # Acceptor
      BY <2>2, <3>2
    <3> QED
      BY <1>c, <3>3 DEF NotYetClient
  <2>4. CASE CancelCqe \/ ClientGoesOn \/ SignalCqe
    <3>1. UNCHANGED <<client_fds, open>>
      BY <2>4 DEF CancelCqe, ClientGoesOn, SignalCqe
    <3> QED
      BY <1>0, <1>c, <2>2, <3>1 DEF NotYetClient
  <2>5. CASE ClientEnds
    <3>1. Op.fd \in Fds /\ Op = cq[1].op /\ 1 \in 1 .. Len(cq) /\ Op \in Client(Op.fd)
      BY <1>0, <2>5, PeekFacts, Groups DEF ClientEnds
    <3>2. PICK f \in Fds : f = Op.fd
      BY <3>1
    <3>3. 1 \in DoneAt(cq, Client(f))
      BY <3>1, <3>2 DEF DoneAt
    <3>4. f \in client_fds
      BY <1>0, <3>3 DEF Absent
    <3>5. open' = open \ {f} /\ client_fds' = client_fds \ {f}
      BY <2>5, <3>2 DEF ClientEnds
    <3> QED
      BY <1>0, <1>c, <2>2, <3>4, <3>5 DEF NotYetClient
  <2> QED
    BY <1>3, <2>3, <2>4, <2>5 DEF Handle
<1> QED
  BY <1>1, <1>2, <1>3 DEF Next, Server, KernelStep

\* main has prepared the accept and the poll.
LEMMA InitShutdownInv == ASSUME Init PROVE ShutdownInv
<1>0. /\ up = TRUE /\ pc = "submit" /\ sq = <<Acceptor, Poll>> /\ flight = {} /\ cq = << >> /\ ready = 0
      /\ co = [fd \in Fds |-> "none"] /\ client_fds = {} /\ open = {}
  BY DEF Init
<1>1. <<Acceptor, Poll>> \in Seq(Operation) /\ Len(<<Acceptor, Poll>>) = 2 /\ << >> \in Seq(Completion)
  <2>1. Acceptor \in Operation /\ Poll \in Operation
    BY Groups
  <2> QED
    BY <2>1
<1>2. ShutdownTypeOK
  <2>1. RingTypeOK(Operation, Completion) /\ Len(sq) = 2 /\ Len(cq) = 0
    BY <1>0, <1>1 DEF RingTypeOK
  <2>2. up \in BOOLEAN /\ flight \subseteq Ops /\ Len(sq) <= SqDepth /\ ready \in Nat /\ ready <= Len(cq)
    BY <1>0, <2>1, SqDepthAssumption, DepthAssumption
  <2>3. co \in [Fds -> {"none", "recv", "send"}]
    BY <1>0
  <2> QED
    BY <1>0, <2>1, <2>2, <2>3 DEF ShutdownTypeOK
<1>3. \A M : /\ DoneAt(cq, M) = {} /\ flight \cap M = {}
             /\ OpsAt(sq, M) = (IF Acceptor \in M THEN {1} ELSE {}) \cup (IF Poll \in M THEN {2} ELSE {})
  BY <1>0, PlacesOfTwo DEF DoneAt
<1>4. ASSUME NEW M, ~(Acceptor \in M /\ Poll \in M)
      PROVE  Once(M) /\ (Acceptor \notin M /\ Poll \notin M => Absent(M))
  BY <1>3, <1>4 DEF Once, Absent
<1>5. \A fd \in Fds : /\ Acceptor \notin Client(fd) /\ Poll \notin Client(fd)
                      /\ Acceptor # CancelFd(fd) /\ Poll # CancelFd(fd)
  BY Groups, Fields
<1>6. Acceptor # Poll /\ Acceptor \notin Watched
  BY Groups, Fields
<1>7. WatchedOnce
  <2>1. Once(Watched)
    BY <1>4, <1>6
  <2>2. \A fd \in Fds : Once({CancelFd(fd)}) /\ Absent({CancelFd(fd)})
    BY <1>4, <1>5
  <2> QED
    BY <2>1, <2>2 DEF WatchedOnce
<1>8. OnePending
  <2>1. Once({Acceptor})
    BY <1>4, <1>6
  <2>2. \A fd \in Fds : Once(Client(fd)) /\ Absent(Client(fd))
    BY <1>4, <1>5
  <2> QED
    BY <1>0, <2>1, <2>2 DEF OnePending
<1>9. NotYetClient
  BY <1>0 DEF NotYetClient
<1> QED
  BY <1>0, <1>2, <1>7, <1>8, <1>9 DEF ShutdownInv

\* The inductive invariant of the server with a signal.
THEOREM ShutdownInvariance == Spec => []ShutdownInv
<1>1. Init => ShutdownInv
  BY InitShutdownInv
<1>2. ShutdownInv /\ [Next]_vars => ShutdownInv'
  <2> SUFFICES ASSUME ShutdownInv, [Next]_vars PROVE ShutdownInv'
    OBVIOUS
  <2>1. CASE Next
    <3>1. ShutdownTypeOK' /\ \A fd \in Fds : fd \in client_fds' <=> co'[fd] # "none"
      BY <2>1, NextShutdownTypeOK
    <3>2. up' => WatchedOnce' /\ OnePending' /\ NotYetClient'
      BY <2>1, NextWatchedOnce, NextOnePending, NextNotYetClient
    <3> QED
      BY <3>1, <3>2 DEF ShutdownInv
  <2>2. CASE UNCHANGED vars
    <3>0. UNCHANGED <<up, pc, sq, flight, cq, ready, co, client_fds, open>>
      BY <2>2 DEF vars, ring, state
    <3>1. ShutdownTypeOK' /\ \A fd \in Fds : fd \in client_fds' <=> co'[fd] # "none"
      BY <3>0 DEF ShutdownInv, ShutdownTypeOK, RingTypeOK
    <3>2. \A M : (Once(M)' <=> Once(M)) /\ (Absent(M)' <=> Absent(M))
      BY <3>0 DEF Once, Absent
    <3>3. UNCHANGED <<Acceptor, Poll, Watched>> /\ \A fd \in Fds : UNCHANGED <<Client(fd), CancelFd(fd)>>
      BY DEF Acceptor, Poll, Watched, Client, Recv, Send, CancelFd, listen_fd
    <3>4. WatchedOnce => WatchedOnce'
      BY <3>2, <3>3 DEF WatchedOnce
    <3>5. OnePending => OnePending'
      BY <3>0, <3>2, <3>3 DEF OnePending
    <3>6. NotYetClient => NotYetClient'
      BY <3>0, <3>3 DEF NotYetClient
    <3> QED
      BY <3>0, <3>1, <3>4, <3>5, <3>6 DEF ShutdownInv
  <2> QED
    BY <2>1, <2>2
<1> QED
  BY <1>1, <1>2, PTL DEF Spec

\* In every interleaving of closes, reused descriptors and cancellations a
\* client is in client_fds exactly while its coroutine lives, with one operation
\* under way, on an open descriptor.
THEOREM RegistryExactAlways == Spec => []RegistryExact
<1>1. ShutdownInv => RegistryExact
  <2> SUFFICES ASSUME ShutdownInv PROVE RegistryExact
    OBVIOUS
  <2>1. ShutdownTypeOK /\ \A fd \in Fds : fd \in client_fds <=> co[fd] # "none"
    BY DEF ShutdownInv
  <2>2. TypeOK
    BY <2>1 DEF ShutdownTypeOK, TypeOK
  <2>3. ASSUME up, NEW fd \in Fds
        PROVE  /\ PendingTimes(Recv(fd)) + PendingTimes(Send(fd)) = (IF fd \in client_fds THEN 1 ELSE 0)
               /\ fd \in client_fds <=> co[fd] # "none"
               /\ fd \in client_fds => fd \in open
    <3>1. OnePending /\ RingTypeOK(Operation, Completion) /\ client_fds \subseteq open
      BY <2>1, <2>3, InvParts DEF ShutdownTypeOK
    <3>2. Once({Recv(fd), Send(fd)}) /\ (Absent({Recv(fd), Send(fd)}) <=> fd \notin client_fds)
      BY <3>1 DEF OnePending, Client
    <3>3. Recv(fd) # Send(fd)
      BY Fields
    <3>4. PendingTimes(Recv(fd)) + PendingTimes(Send(fd)) = (IF fd \in client_fds THEN 1 ELSE 0)
      BY <3>1, <3>2, <3>3, OnceCounts
    <3> QED
      BY <2>1, <3>1, <3>4
  <2> QED
    BY <2>2, <2>3 DEF RegistryExact
<1> QED
  BY <1>1, ShutdownInvariance, PTL

----
\* Whose an operation is: a client's, the cancellation of a client, the
\* accept, or signal_watcher's.
Owner(op) == IF op.op = "accept" THEN -1
             ELSE IF op.op \in {"recv", "send"} THEN op.fd
             ELSE IF op.op = "poll" \/ op.fd = 0 THEN 0
             ELSE -1 - op.fd
Cancellers == {-1 - fd : fd \in Fds}
Owners == Fds \cup Cancellers \cup {-1} \cup {0}

\* Everybody is told apart by it, and who has a place in the queue has one.
LEMMA OwnerFacts ==
  ASSUME NEW op \in Operation
  PROVE  \/ op = Acceptor /\ Owner(op) = -1
         \/ op \in Watched /\ Owner(op) = 0
         \/ Owner(op) \in Fds /\ op \in Client(Owner(op))
         \/ \E fd \in Fds : Owner(op) = -1 - fd /\ op = CancelFd(fd)
<1>1. \/ op = Acceptor \/ op = Poll \/ op = CancelFd(listen_fd)
      \/ \E f \in Fds : op \in Client(f) \/ op = CancelFd(f)
  BY DEF Operation, Watched
<1>2. CASE op = Acceptor
  BY <1>2, Fields DEF Owner
<1>3. CASE op = Poll \/ op = CancelFd(listen_fd)
  BY <1>3, Fields DEF Owner, Watched
<1>4. ASSUME NEW f \in Fds, op \in Client(f) PROVE Owner(op) = f
  BY <1>4, Fields DEF Owner, Client
<1>5. ASSUME NEW f \in Fds, op = CancelFd(f) PROVE Owner(op) = -1 - f
  BY <1>5, Fields DEF Owner
<1> QED
  BY <1>1, <1>2, <1>3, <1>4, <1>5

\* How many owners there are.
LEMMA OwnerCounts ==
  /\ IsFiniteSet(Owners) /\ Cardinality(Owners) = 2 * Cardinality(Fds) + 2
  /\ IsFiniteSet(Fds \cup {-1}) /\ Cardinality(Fds \cup {-1}) = Cardinality(Fds) + 1
  /\ Cardinality(Fds) \in Nat /\ SqDepth \in Nat
  /\ -1 \notin Fds /\ -1 \notin Cancellers /\ 0 \notin Fds /\ 0 \notin Cancellers
  /\ \A fd \in Fds : fd \in Int /\ -1 - fd \notin Fds
<1> DEFINE f == [fd \in Fds |-> -1 - fd]
<1>0. Fds \subseteq Nat \ {0} /\ IsFiniteSet(Fds) /\ Cardinality(Fds) \in Nat /\ SqDepth \in Nat
  BY FdsAssumption, FS_CardinalityType, SqDepthAssumption
<1>1. IsFiniteSet(Cancellers) /\ Cardinality(Cancellers) = Cardinality(Fds)
  <2>1. f \in [Fds -> Cancellers] /\ \A t \in Cancellers : \E x \in Fds : f[x] = t
    BY DEF Cancellers
  <2>2. \A x, y \in Fds : f[x] = f[y] => x = y
    BY <1>0
  <2> HIDE DEF f
  <2> QED
    BY <1>0, <2>1, <2>2, ImageOneToOne
<1>2. \A t \in Cancellers : t \in Int /\ t < -1
  BY <1>0 DEF Cancellers
<1>3. Fds \cap Cancellers = {}
  BY <1>0, <1>2
<1>4. IsFiniteSet(Fds \cup Cancellers) /\ Cardinality(Fds \cup Cancellers) = 2 * Cardinality(Fds)
  <2>1. /\ IsFiniteSet(Fds \cup Cancellers)
        /\ Cardinality(Fds \cup Cancellers)
             = Cardinality(Fds) + Cardinality(Cancellers) - Cardinality(Fds \cap Cancellers)
    BY <1>0, <1>1, FS_Union
  <2>2. Cardinality(Fds \cap Cancellers) = 0
    BY <1>3, FS_EmptySet
  <2> QED
    BY <1>0, <1>1, <2>1, <2>2
<1>5. /\ -1 \notin Fds /\ -1 \notin Cancellers /\ 0 \notin Fds /\ 0 \notin Cancellers
      /\ \A fd \in Fds : fd \in Int /\ -1 - fd \notin Fds
  BY <1>0, <1>2
<1>6. /\ IsFiniteSet(Fds \cup Cancellers \cup {-1})
      /\ Cardinality(Fds \cup Cancellers \cup {-1}) = 2 * Cardinality(Fds) + 1
  BY <1>4, <1>5, FS_AddElement
<1>7. IsFiniteSet(Owners) /\ Cardinality(Owners) = 2 * Cardinality(Fds) + 2
  <2>1. PICK S : S = Fds \cup Cancellers \cup {-1}
    OBVIOUS
  <2>2. 0 \notin S /\ Owners = S \cup {0}
    BY <1>5, <2>1 DEF Owners
  <2>3. IsFiniteSet(S \cup {0}) /\ Cardinality(S \cup {0}) = Cardinality(S) + 1
    BY <1>6, <2>1, <2>2, FS_AddElement
  <2> QED
    BY <1>0, <1>6, <2>1, <2>2, <2>3
<1>8. IsFiniteSet(Fds \cup {-1}) /\ Cardinality(Fds \cup {-1}) = Cardinality(Fds) + 1
  BY <1>0, <1>5, FS_AddElement
<1> QED
  BY <1>0, <1>5, <1>7, <1>8

\* The queue holds at most one operation of everybody who has one in it.
LEMMA QueueFits ==
  ASSUME ShutdownTypeOK, WatchedOnce, OnePending, NEW K, IsFiniteSet(K),
         \A k \in 1 .. Len(sq) : Owner(sq[k]) \in K
  PROVE  Len(sq) <= Cardinality(K)
<1> DEFINE g == [k \in 1 .. Len(sq) |-> Owner(sq[k])]
<1>1. sq \in Seq(Operation) /\ Len(sq) \in Nat /\ \A k \in 1 .. Len(sq) : sq[k] \in Operation
  BY DEF ShutdownTypeOK, RingTypeOK
<1>2. g \in [1 .. Len(sq) -> K]
  OBVIOUS
<1>3. ASSUME NEW j \in 1 .. Len(sq), NEW k \in 1 .. Len(sq), NEW M, Once(M), sq[j] \in M, sq[k] \in M
      PROVE  j = k
  BY <1>3 DEF Once, OpsAt
<1>4. ASSUME NEW j \in 1 .. Len(sq), NEW k \in 1 .. Len(sq), g[j] = g[k] PROVE j = k
  <2>1. PICK a \in Operation : a = sq[j]
    BY <1>1
  <2>2. PICK b \in Operation : b = sq[k]
    BY <1>1
  <2>3. Owner(a) = Owner(b)
    BY <1>4, <2>1, <2>2
  <2>4. \/ a = Acceptor /\ b = Acceptor
        \/ a \in Watched /\ b \in Watched
        \/ \E fd \in Fds : a \in Client(fd) /\ b \in Client(fd)
        \/ \E fd \in Fds : a = CancelFd(fd) /\ b = CancelFd(fd)
    <3>1. \/ a = Acceptor /\ Owner(a) = -1
          \/ a \in Watched /\ Owner(a) = 0
          \/ Owner(a) \in Fds /\ a \in Client(Owner(a))
          \/ \E fd \in Fds : Owner(a) = -1 - fd /\ a = CancelFd(fd)
      BY OwnerFacts
    <3>2. \/ b = Acceptor /\ Owner(b) = -1
          \/ b \in Watched /\ Owner(b) = 0
          \/ Owner(b) \in Fds /\ b \in Client(Owner(b))
          \/ \E fd \in Fds : Owner(b) = -1 - fd /\ b = CancelFd(fd)
      BY OwnerFacts
    <3>3. Fds \subseteq Nat \ {0}
      BY FdsAssumption
    <3>4. PICK o : o = Owner(a) /\ o = Owner(b)
      BY <2>3
    <3>5. CASE o = -1 \/ o = 0
      BY <3>1, <3>2, <3>3, <3>4, <3>5
    <3>6. CASE o \in Fds
      BY <3>1, <3>2, <3>3, <3>4, <3>6
    <3>7. ASSUME NEW f \in Fds, o = -1 - f, a = CancelFd(f) PROVE a = CancelFd(f) /\ b = CancelFd(f)
      <4>1. PICK h \in Fds : o = -1 - h /\ b = CancelFd(h)
        BY <3>2, <3>3, <3>4, <3>7
      <4>2. h = f
        BY <3>3, <3>7, <4>1
      <4> QED
        BY <3>7, <4>1, <4>2
    <3> QED
      BY <3>1, <3>4, <3>5, <3>6, <3>7
  <2> QED
    BY <1>3, <2>1, <2>2, <2>4 DEF WatchedOnce, OnePending
<1> HIDE DEF g
<1> QED
  BY <1>1, <1>2, <1>4, OwnersBound

\* The cancellations come on top of the batch's own entries, once: with twice as
\* many places as descriptors, and two, every handler finds room.
LEMMA NextStaysUp ==
  ASSUME ShutdownInv, Next, SqDepth >= 2 * Cardinality(Fds) + 2
  PROVE  up'
<1>0. /\ up /\ ShutdownTypeOK /\ WatchedOnce /\ OnePending /\ NotYetClient /\ Once({Acceptor})
      /\ \A fd \in Fds : Once(Client(fd)) /\ (Absent(Client(fd)) <=> fd \notin client_fds)
  BY UpToStep, InvParts DEF OnePending
<1>t. /\ sq \in Seq(Operation) /\ Len(sq) \in Nat /\ \A k \in 1 .. Len(sq) : sq[k] \in Operation
      /\ client_fds \subseteq Fds
  BY <1>0 DEF ShutdownTypeOK, RingTypeOK
<1>f. /\ IsFiniteSet(Owners) /\ Cardinality(Owners) = 2 * Cardinality(Fds) + 2
      /\ IsFiniteSet(Fds \cup {-1}) /\ Cardinality(Fds \cup {-1}) = Cardinality(Fds) + 1
      /\ Cardinality(Fds) \in Nat /\ SqDepth \in Nat
  BY OwnerCounts
<1>o. \A op \in Operation : Owner(op) \in Owners
  BY OwnerFacts DEF Owners, Cancellers
\* Who has nothing in the queue leaves a place.
<1>a. \A op \in Operation : op # Acceptor => Owner(op) # -1
  BY OwnerFacts, OwnerCounts
<1>b. ASSUME NEW f \in Fds, NEW op \in Operation, op \notin Client(f) PROVE Owner(op) # f
  BY <1>b, OwnerFacts, OwnerCounts
<1>r. ASSUME NEW x \in Owners
      PROVE  IsFiniteSet(Owners \ {x}) /\ Cardinality(Owners \ {x}) = 2 * Cardinality(Fds) + 1
  <2>1. IsFiniteSet(Owners \ {x}) /\ Cardinality(Owners \ {x}) = Cardinality(Owners) - 1
    BY <1>f, <1>r, FS_RemoveElement
  <2> QED
    BY <1>f, <2>1
<1>i. -1 \in Owners /\ Fds \subseteq Owners
  BY DEF Owners
<1> USE DEF state
<1>p. ASSUME NEW ops, Prepare(ops), NEW n \in Nat, Len(ops) = n, Len(sq) + n <= 2 * Cardinality(Fds) + 2
      PROVE  up'
  <2>1. Len(sq) + Len(ops) <= SqDepth
    BY <1>f, <1>p, <1>t
  <2> QED
    BY <1>0, <1>p, <2>1 DEF Prepare
<1>1. ASSUME Accepted \/ AcceptFailed
      PROVE  \A k \in 1 .. Len(sq) : sq[k] # Acceptor
  <2>1. Op = cq[1].op /\ Op = Acceptor /\ 1 \in 1 .. Len(cq)
    BY <1>0, <1>1, PeekFacts, Groups DEF Accepted, AcceptFailed
  <2> QED
    BY <1>0, <2>1 DEF Once, DoneAt, OpsAt
<1>2. CASE AcceptFailed
  <2>1. PICK K : K = Owners \ {-1}
    OBVIOUS
  <2>2. IsFiniteSet(K) /\ Cardinality(K) = 2 * Cardinality(Fds) + 1
    BY <1>i, <1>r, <2>1
  <2>3. Len(sq) <= Cardinality(K)
    BY <1>0, <1>1, <1>2, <1>a, <1>o, <1>t, <2>1, <2>2, QueueFits
  <2>4. Prepare(<<Acceptor>>) /\ Len(<<Acceptor>>) = 1
    BY <1>2 DEF AcceptFailed
  <2>5. Len(sq) + 1 <= 2 * Cardinality(Fds) + 2
    BY <1>f, <1>t, <2>2, <2>3
  <2> QED
    BY <1>p, <2>4, <2>5
<1>3. CASE Accepted
  <2>1. Op = cq[1].op /\ Op = Acceptor /\ 1 \in 1 .. Len(cq) /\ Res = cq[1].res /\ Res \in Fds
    BY <1>0, <1>3, PeekFacts, Groups DEF Accepted
  <2>2. PICK r \in Fds : r = Res /\ r \notin client_fds
    BY <1>0, <2>1 DEF NotYetClient
  <2>3. \A k \in 1 .. Len(sq) : sq[k] \notin Client(r)
    BY <1>0, <2>2 DEF Absent, OpsAt
  <2>4. PICK K : K = (Owners \ {-1}) \ {r}
    OBVIOUS
  <2>5. IsFiniteSet(K) /\ Cardinality(K) = 2 * Cardinality(Fds)
    <3>1. PICK L : L = Owners \ {-1}
      OBVIOUS
    <3>2. IsFiniteSet(L) /\ Cardinality(L) = 2 * Cardinality(Fds) + 1
      BY <1>i, <1>r, <3>1
    <3>3. r \in L
      BY <3>1, OwnerCounts DEF Owners
    <3>4. IsFiniteSet(L \ {r}) /\ Cardinality(L \ {r}) = Cardinality(L) - 1
      BY <3>2, <3>3, FS_RemoveElement
    <3> QED
      BY <1>f, <2>4, <3>1, <3>2, <3>4
  <2>6. Len(sq) <= Cardinality(K)
    <3>1. \A k \in 1 .. Len(sq) : Owner(sq[k]) \in K
      BY <1>1, <1>3, <1>a, <1>b, <1>o, <1>t, <2>3, <2>4
    <3> QED
      BY <1>0, <2>5, <3>1, QueueFits
  <2>7. Prepare(<<Recv(r), Acceptor>>) /\ Len(<<Recv(r), Acceptor>>) = 2
    BY <1>3, <2>2 DEF Accepted
  <2>8. Len(sq) + 2 <= 2 * Cardinality(Fds) + 2
    BY <1>f, <1>t, <2>5, <2>6
  <2> QED
    BY <1>p, <2>7, <2>8
<1>4. CASE ClientGoesOn
  <2>1. Op.fd \in Fds /\ Op = cq[1].op /\ 1 \in 1 .. Len(cq) /\ Op \in Client(Op.fd)
    BY <1>0, <1>4, PeekFacts, Groups DEF ClientGoesOn
  <2>2. PICK f \in Fds : f = Op.fd
    BY <2>1
  <2>3. \A k \in 1 .. Len(sq) : sq[k] \notin Client(f)
    BY <1>0, <2>1, <2>2 DEF Once, DoneAt, OpsAt
  <2>4. PICK K : K = Owners \ {f}
    OBVIOUS
  <2>5. IsFiniteSet(K) /\ Cardinality(K) = 2 * Cardinality(Fds) + 1
    BY <1>i, <1>r, <2>4
  <2>6. Len(sq) <= Cardinality(K)
    <3>1. \A k \in 1 .. Len(sq) : Owner(sq[k]) \in K
      BY <1>b, <1>o, <1>t, <2>3, <2>4
    <3> QED
      BY <1>0, <2>5, <3>1, QueueFits
  <2>7. PICK op : Prepare(<<op>>)
    BY <1>4 DEF ClientGoesOn
  <2>8. Len(<<op>>) = 1
    OBVIOUS
  <2>9. Len(sq) + 1 <= 2 * Cardinality(Fds) + 2
    BY <1>f, <1>t, <2>5, <2>6
  <2> QED
    BY <1>p, <2>7, <2>8, <2>9
<1>5. CASE SignalCqe
  <2>1. Op = Poll /\ Op = cq[1].op /\ 1 \in 1 .. Len(cq)
    BY <1>0, <1>5, PeekFacts, Groups DEF SignalCqe
  <2>2. 1 \in DoneAt(cq, {Poll}) /\ 1 \in DoneAt(cq, Watched)
    BY <2>1 DEF DoneAt, Watched
  <2>3. OpsAt(sq, Watched) = {} /\ ~Absent({Poll})
    BY <1>0, <2>2 DEF WatchedOnce, Once, Absent
  <2>4. \A fd \in Fds : OpsAt(sq, {CancelFd(fd)}) = {}
    BY <1>0, <2>3 DEF WatchedOnce, Absent
  <2>5. ASSUME NEW k \in 1 .. Len(sq) PROVE Owner(sq[k]) \in Fds \cup {-1}
    <3>1. sq[k] \notin Watched /\ \A fd \in Fds : sq[k] # CancelFd(fd)
      BY <2>3, <2>4 DEF OpsAt
    <3> QED
      BY <1>t, <3>1, OwnerFacts
  <2>6. Len(sq) <= Cardinality(Fds \cup {-1})
    BY <1>0, <1>f, <2>5, QueueFits
  <2>7. PICK ops : ops = CancelAll
    OBVIOUS
  <2>8. Prepare(ops) /\ Len(ops) = 1 + Cardinality(client_fds) /\ Cardinality(client_fds) \in Nat
    BY <1>0, <1>5, <2>7, CancelAllList DEF SignalCqe, CancelAll, ClientCancels
  <2>9. Cardinality(client_fds) <= Cardinality(Fds)
    BY <1>t, FdsAssumption, FS_Subset
  <2>10. Len(ops) \in Nat /\ Len(sq) + Len(ops) <= 2 * Cardinality(Fds) + 2
    BY <1>f, <1>t, <2>6, <2>8, <2>9
  <2> QED
    BY <1>p, <2>8, <2>10
<1>6. CASE CancelCqe \/ AcceptCancelled \/ ClientEnds
  BY <1>0, <1>6 DEF CancelCqe, AcceptCancelled, ClientEnds
<1>7. CASE Submitted \/ BatchDone \/ Signal \/ WaitReturns
  BY <1>0, <1>7 DEF Submitted, BatchDone, Signal, ring, WaitReturns, Wait
<1>8. CASE KernelStep
  BY <1>0, <1>8, KernelMoves
<1> QED
  BY <1>2, <1>3, <1>4, <1>5, <1>6, <1>7, <1>8 DEF Next, Server, KernelStep, Handle

\* The server never overflows its submission queue, however many clients there
\* are to be cancelled, when the queue has twice as many places and two.
THEOREM ShutdownFitsAlways == Spec => []ShutdownFits
<1>1. Init => ShutdownFits
  BY DEF Init, ShutdownFits
<1>2. ShutdownInv /\ ShutdownFits /\ [Next]_vars => ShutdownFits'
  <2>1. ShutdownInv /\ Next => ShutdownFits'
    BY NextStaysUp DEF ShutdownFits
  <2>2. ShutdownFits /\ UNCHANGED vars => ShutdownFits'
    BY DEF vars, ring, ShutdownFits
  <2> QED
    BY <2>1, <2>2
<1> QED
  BY <1>1, <1>2, ShutdownInvariance, PTL DEF Spec
====
