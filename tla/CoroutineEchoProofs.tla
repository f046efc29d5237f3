---- MODULE CoroutineEchoProofs ----
(***************************************************************************)
(* Proofs about the servers with one coroutine per client, for any number  *)
(* of descriptors and any buffer, queue and file size: a coroutine awaits  *)
(* one operation, the submission queue does not overflow, the echo servers *)
(* implement the echo service, and a reply of the file server is its file. *)
(***************************************************************************)
EXTENDS MCCoroutines, IoRingProofs, SequenceTheorems

ClientKinds == {"recv", "send", "read", "close"}

\* The operations of a client, those of another kind than the awaited one,
\* and its timeouts.
Client(fd) == [op : ClientKinds, fd : {fd}, ev : Nat]
Other(fd, kind) == [op : ClientKinds \ {kind}, fd : {fd}, ev : Nat]
Timeouts(fd) == [op : {"timeout"}, fd : {fd}, ev : Nat]

Operation == {Acceptor} \cup UNION {Client(fd) \cup Timeouts(fd) : fd \in Fds}
Completion == [op : Operation, res : Int]

\* What comes k-th to a client of the file server, and how much does.
Byte(k) == IF k <= 2 THEN 0 ELSE k - 2
ReplyLen(fd) == 2 + (IF file_size[fd] < 0 THEN 0 ELSE file_size[fd])

RingOK == /\ variant \in Variants /\ up \in BOOLEAN /\ pc \in {"submit", "wait", "cqe"}
          /\ RingTypeOK(Operation, Completion) /\ IsFiniteSet(flight)
          /\ Len(sq) <= SqDepth /\ ready \in Nat /\ ready <= Len(cq)
          /\ co \in [Fds -> {"none"} \cup ClientKinds] /\ conns \subseteq Fds

BytesOK == /\ buf \in [Fds -> Seq(Nat)] /\ sent \in [Fds -> Nat]
           /\ read \in [Fds -> Nat] /\ echoed \in [Fds -> Seq(Nat)]
           /\ \A fd \in Fds : /\ Len(buf[fd]) <= BufSize /\ sent[fd] <= BufSize
                              /\ read[fd] <= MaxBytes

\* What has come to a client of the file server is right whatever it is told next.
ReplyOK(fd) ==
  /\ Len(served[fd]) <= ReplyLen(fd)
  /\ \A k \in 1 .. Len(served[fd]) : served[fd][k] = Byte(k)
  /\ ending[fd] = "done" => Len(served[fd]) = ReplyLen(fd)
  /\ ending[fd] # "none" => co[fd] = "none"
  /\ fd \in file_fds => co[fd] \in {"send", "read"}
  /\ variant # "files" => /\ fd \notin file_fds /\ file_size[fd] = -1
                          /\ served[fd] = << >> /\ ending[fd] = "none"

FilesOK ==
  /\ file_fds \subseteq Fds /\ file_size \in [Fds -> Nat \cup {-1}] /\ file_offset \in [Fds -> Nat]
  /\ served \in [Fds -> Seq(Nat)] /\ ending \in [Fds -> {"none", "done", "cut"}]
  /\ \A fd \in Fds : ReplyOK(fd)

\* The accept is pending once, one operation of every client a coroutine serves,
\* and it is of the kind the coroutine awaits.
AwaitsOne(fd) == /\ Once(Client(fd)) /\ Absent(Other(fd, co[fd]))
                 /\ Absent(Client(fd)) <=> co[fd] = "none"
OnePending == Once({Acceptor}) /\ \A fd \in Fds : AwaitsOne(fd)

\* A timeout is queued with its recv.
TimeoutsQueued ==
  \A fd \in Fds : /\ \A j, k \in OpsAt(sq, Timeouts(fd)) : j = k
                  /\ OpsAt(sq, Timeouts(fd)) # {} => OpsAt(sq, Client(fd)) # {}

\* A new connection whose completion has not been handled has no coroutine, or
\* the completion that ends the one of the slot's last client comes first.
NotYetClient ==
  \A k \in DoneAt(cq, {Acceptor}) :
    LET fd == cq[k].res
    IN  \/ fd = FAILED
        \/ /\ fd \in conns /\ read[fd] = 0 /\ echoed[fd] = << >>
           /\ served[fd] = << >> /\ file_size[fd] = -1 /\ ending[fd] = "none"
           /\ \/ co[fd] = "none"
              \/ co[fd] = "close" /\ \E j \in DoneAt(cq, Client(fd)) : j < k

\* The buffer holds the last bytes that were read.
Numbered(fd) ==
  /\ Len(buf[fd]) <= read[fd]
  /\ \A n \in 1 .. Len(buf[fd]) : buf[fd][n] = read[fd] - Len(buf[fd]) + n

\* n bytes of the buffer, which holds the header or a chunk of the file, have
\* come to the client.
Replying(fd, n) ==
  /\ n <= Len(buf[fd])
  /\ \/ /\ buf[fd] = Header /\ Len(served[fd]) = n
        /\ fd \in file_fds => file_offset[fd] = 0 /\ file_size[fd] >= 0
        /\ fd \notin file_fds => file_size[fd] = -1
     \/ /\ buf[fd] # Header /\ fd \in file_fds
        /\ Len(served[fd]) = 2 + file_offset[fd] + n
        /\ file_offset[fd] + Len(buf[fd]) <= file_size[fd]
        /\ \A k \in 1 .. Len(buf[fd]) : buf[fd][k] = file_offset[fd] + k

\* Where the coroutine of a client is when the operation it awaits has been
\* asked for ...
Asked(fd) ==
  /\ co[fd] # "none" => fd \in conns
  /\ variant # "files" =>
       /\ co[fd] = "recv" => Len(echoed[fd]) = read[fd]
       /\ co[fd] = "send" => Numbered(fd) /\ Len(echoed[fd]) + Len(buf[fd]) = read[fd] + sent[fd]
  /\ variant = "files" =>
       /\ co[fd] = "recv" => served[fd] = << >> /\ file_size[fd] = -1
       /\ co[fd] = "send" => Replying(fd, sent[fd])
       /\ co[fd] = "read" => /\ fd \in file_fds /\ file_size[fd] >= 0
                             /\ Len(served[fd]) = 2 + file_offset[fd]

\* ... and when it has been done with result res.
Answered(fd, res) ==
  /\ co[fd] \in {"recv", "send", "read"} => fd \in conns
  /\ res > 0 /\ co[fd] = "send" => sent[fd] + res <= Len(buf[fd])
  /\ res > 0 /\ variant # "files" =>
       /\ co[fd] = "recv" =>
            Numbered(fd) /\ Len(buf[fd]) = res /\ Len(echoed[fd]) + res = read[fd]
       /\ co[fd] = "send" =>
            Numbered(fd) /\ Len(echoed[fd]) + Len(buf[fd]) = read[fd] + sent[fd] + res
  /\ res > 0 /\ variant = "files" =>
       /\ co[fd] = "recv" => served[fd] = << >> /\ file_size[fd] = -1
       /\ co[fd] = "send" => Replying(fd, sent[fd] + res)
       /\ co[fd] = "read" => /\ fd \in file_fds /\ Len(served[fd]) = 2 + file_offset[fd]
                             /\ Len(buf[fd]) > 0 /\ file_offset[fd] + Len(buf[fd]) <= file_size[fd]
                             /\ \A k \in 1 .. Len(buf[fd]) : buf[fd][k] = file_offset[fd] + k

InPhase(fd) ==
  /\ DoneAt(cq, Client(fd)) = {} => Asked(fd)
  /\ \A k \in DoneAt(cq, Client(fd)) : Answered(fd, cq[k].res)

ServerInv ==
  /\ RingOK /\ BytesOK /\ FilesOK
  /\ up => /\ OnePending /\ TimeoutsQueued /\ NotYetClient
           /\ \A fd \in Fds : InPhase(fd)

----
\* The kinds of operations are told apart, and so are the clients.
LEMMA OperationKinds ==
  /\ Acceptor \in Operation
  /\ \A fd \in Fds : Client(fd) \subseteq Operation /\ Timeouts(fd) \subseteq Operation
  /\ \A fd : Acceptor \notin Client(fd) /\ Acceptor \notin Timeouts(fd)
  /\ \A fd, kind : Other(fd, kind) \subseteq Client(fd)
  /\ \A fd, op : op \in Client(fd) => /\ op.op \in ClientKinds /\ op.fd = fd /\ op \notin Timeouts(fd)
                                      /\ \A kind : op \in Other(fd, kind) <=> op.op # kind
  /\ \A fd, op : op \in Timeouts(fd) => op.op = "timeout" /\ op.fd = fd
  /\ \A op \in Operation :
       /\ \/ op = Acceptor /\ op.op = "accept"
          \/ op.op \in ClientKinds /\ op.fd \in Fds /\ op \in Client(op.fd)
          \/ op.op = "timeout" /\ op.fd \in Fds /\ op \in Timeouts(op.fd)
       /\ op.op = "accept" => op = Acceptor
       /\ op.op \in ClientKinds => op.fd \in Fds /\ op \in Client(op.fd)
       /\ op.op = "timeout" => op.fd \in Fds /\ op \in Timeouts(op.fd)
<1>1. /\ Acceptor \in Operation
      /\ \A fd \in Fds : Client(fd) \subseteq Operation /\ Timeouts(fd) \subseteq Operation
  BY DEF Operation
<1>2. \A fd, op : op \in Client(fd) => op.op \in ClientKinds /\ op.fd = fd
  BY DEF Client
<1>3. \A fd, op : op \in Timeouts(fd) => op.op = "timeout" /\ op.fd = fd
  BY DEF Timeouts
<1>4. Acceptor.op = "accept"
  BY DEF Acceptor
<1>5. \A fd : Acceptor \notin Client(fd) /\ Acceptor \notin Timeouts(fd)
  BY <1>2, <1>3, <1>4 DEF ClientKinds
<1>6. \A fd, op : op \in Client(fd) => op \notin Timeouts(fd)
  BY <1>2, <1>3 DEF ClientKinds
<1>7. \A fd, kind : Other(fd, kind) \subseteq Client(fd)
  BY DEF Other, Client
<1>8. \A fd, op, kind : op \in Client(fd) => (op \in Other(fd, kind) <=> op.op # kind)
  BY DEF Other, Client
<1>9. \A op \in Operation : op = Acceptor \/ \E fd \in Fds : op \in Client(fd) \/ op \in Timeouts(fd)
  BY DEF Operation
<1>10. ASSUME NEW op \in Operation
       PROVE  /\ \/ op = Acceptor /\ op.op = "accept"
                 \/ op.op \in ClientKinds /\ op.fd \in Fds /\ op \in Client(op.fd)
                 \/ op.op = "timeout" /\ op.fd \in Fds /\ op \in Timeouts(op.fd)
              /\ op.op = "accept" => op = Acceptor
              /\ op.op \in ClientKinds => op.fd \in Fds /\ op \in Client(op.fd)
              /\ op.op = "timeout" => op.fd \in Fds /\ op \in Timeouts(op.fd)
  <2>1. "accept" \notin ClientKinds /\ "timeout" \notin ClientKinds
    BY DEF ClientKinds
  <2>2. CASE op = Acceptor
    BY <1>4, <2>1, <2>2
  <2>3. ASSUME NEW fd \in Fds, op \in Client(fd) PROVE op.op \in ClientKinds /\ op.fd = fd
    BY <1>2, <2>3
  <2>4. ASSUME NEW fd \in Fds, op \in Timeouts(fd) PROVE op.op = "timeout" /\ op.fd = fd
    BY <1>3, <2>4
  <2> QED
    BY <1>9, <2>1, <2>2, <2>3, <2>4
<1> QED
  BY <1>1, <1>2, <1>3, <1>5, <1>6, <1>7, <1>8, <1>10

\* What the servers ask for, with a tag that is a number.
LEMMA TaggedKinds ==
  ASSUME NEW fd \in Fds, NEW n \in Nat
  PROVE  /\ \A kind \in ClientKinds : Tagged(kind, fd, n) \in Client(fd) /\ Tagged(kind, fd, n).op = kind
         /\ Tagged("timeout", fd, n) \in Timeouts(fd)
         /\ Send(fd) \in Client(fd) /\ Send(fd).op = "send"
         /\ CloseSlot(fd) \in Client(fd) /\ CloseSlot(fd).op = "close"
         /\ Read(fd) \in Client(fd) /\ Read(fd).op = "read"
<1>1. \A kind \in ClientKinds : Tagged(kind, fd, n) \in Client(fd) /\ Tagged(kind, fd, n).op = kind
  BY DEF Tagged, Client
<1>2. \A kind \in ClientKinds : Tagged(kind, fd, 0) \in Client(fd) /\ Tagged(kind, fd, 0).op = kind
  BY DEF Tagged, Client
<1>3. Tagged("timeout", fd, n) \in Timeouts(fd)
  BY DEF Tagged, Timeouts
<1> QED
  BY <1>1, <1>2, <1>3 DEF Send, CloseSlot, Read, ClientKinds

\* What a handler finds at the head of the completion queue.
LEMMA PeekFacts ==
  ASSUME RingOK, NEW kind, Peek(kind)
  PROVE  /\ up /\ pc = "cqe" /\ ready \in Nat \ {0} /\ cq # << >> /\ cq \in Seq(Completion)
         /\ Head(cq) = cq[1] /\ 1 \in 1 .. Len(cq) /\ Op = Head(cq).op
         /\ Op \in Operation /\ Res \in Int /\ Op = cq[1].op /\ Res = cq[1].res /\ Op.op = kind
<1>1. /\ RingTypeOK(Operation, [op : Operation, res : Int]) /\ ready \in Nat /\ ready <= Len(cq)
      /\ cq \in Seq(Completion)
  BY DEF RingOK, RingTypeOK, Completion
<1> QED
  BY <1>1, PeekRing DEF Op

\* A function with a finite domain has finitely many values.
LEMMA FiniteValues ==
  ASSUME NEW S, IsFiniteSet(S), NEW f, f = [x \in S |-> f[x]]
  PROVE  IsFiniteSet({f[x] : x \in S})
<1>1. PICK T : T = {f[x] : x \in S}
  OBVIOUS
<1>2. f \in [S -> T]
  BY <1>1
<1>3. \A t \in T : \E x \in S : f[x] = t
  BY <1>1
<1>4. f \in Surjection(S, T)
  BY <1>2, <1>3 DEF Surjection
<1> QED
  BY <1>1, <1>4, FS_Surjection

\* A recv and its timeout get a tag that no pending timeout of the client has.
LEMMA FreshEvIsFresh ==
  ASSUME RingOK, NEW fd
  PROVE  FreshEv(fd) \in Nat /\ Tagged("timeout", fd, FreshEv(fd)) \notin Pending
<1> DEFINE old == {op \in Pending : op.op = "timeout" /\ op.fd = fd}
           used == {op.ev : op \in old}
<1>1. sq \in Seq(Operation) /\ cq \in Seq(Completion) /\ IsFiniteSet(flight)
  BY DEF RingOK, RingTypeOK
<1>2. IsFiniteSet(Pending)
  <2>1. IsFiniteSet(ToSet(sq))
    <3>1. ToSet(sq) = {sq[k] : k \in 1 .. Len(sq)} /\ sq = [k \in 1 .. Len(sq) |-> sq[k]]
      BY <1>1 DEF ToSet
    <3>2. IsFiniteSet(1 .. Len(sq))
      BY <1>1, FS_Interval
    <3> QED
      BY <3>1, <3>2, FiniteValues
  <2>2. IsFiniteSet({cq[k].op : k \in DOMAIN cq})
    <3>1. IsFiniteSet(DOMAIN cq)
      <4>1. DOMAIN cq = 1 .. Len(cq) /\ Len(cq) \in Nat
        BY <1>1
      <4> QED
        BY <4>1, FS_Interval
    <3>2. PICK f : f = [k \in DOMAIN cq |-> cq[k].op]
      OBVIOUS
    <3>3. IsFiniteSet({f[k] : k \in DOMAIN cq})
      BY <3>1, <3>2, FiniteValues
    <3> QED
      BY <3>2, <3>3
  <2>3. IsFiniteSet(ToSet(sq) \cup flight)
    BY <1>1, <2>1, FS_Union
  <2>4. IsFiniteSet(ToSet(sq) \cup flight \cup {cq[k].op : k \in DOMAIN cq})
    BY <2>2, <2>3, FS_Union
  <2> QED
    BY <2>4 DEF Pending
<1>3. IsFiniteSet(old)
  BY <1>2, FS_Subset
<1>4. IsFiniteSet(used)
  <2>1. PICK f : f = [op \in old |-> op.ev]
    OBVIOUS
  <2>2. IsFiniteSet({f[op] : op \in old})
    BY <1>3, <2>1, FiniteValues
  <2>3. {f[op] : op \in old} = used
    BY <2>1
  <2> QED
    BY <2>2, <2>3
<1>5. Cardinality(used) \in Nat
  BY <1>4, FS_CardinalityType
<1>6. \E n \in 0 .. Cardinality(used) : n \notin used
  <2> SUFFICES ASSUME 0 .. Cardinality(used) \subseteq used PROVE FALSE
    OBVIOUS
  <2>1. Cardinality(0 .. Cardinality(used)) <= Cardinality(used)
    BY <1>4, FS_Subset
  <2>2. Cardinality(0 .. Cardinality(used)) = Cardinality(used) + 1
    BY <1>5, FS_Interval
  <2> QED
    BY <1>5, <2>1, <2>2
<1>7. FreshEv(fd) \in 0 .. Cardinality(used) /\ FreshEv(fd) \notin used
  BY <1>6 DEF FreshEv
<1>8. Tagged("timeout", fd, FreshEv(fd)) \notin Pending
  <2>1. ASSUME Tagged("timeout", fd, FreshEv(fd)) \in Pending PROVE FreshEv(fd) \in used
    BY <2>1 DEF Tagged
  <2> QED
    BY <1>7, <2>1
<1> QED
  BY <1>5, <1>7, <1>8

\* What a coroutine of client f prepares to await kind next: that operation, and
\* perhaps a timeout.
OpsOf(ops, f, next) ==
  \E op \in Client(f) : /\ op.op = next
                        /\ ops = <<op>> \/ \E t \in Timeouts(f) : ops = <<op, t>>

\* A recv is one, with its timeout or without.
LEMMA RecvOpsFacts ==
  ASSUME RingOK, NEW f \in Fds
  PROVE  OpsOf(RecvOps(f), f, "recv")
<1>1. FreshEv(f) \in Nat
  BY FreshEvIsFresh
<1>2. PICK n \in Nat : n = FreshEv(f)
  BY <1>1
<1>3. /\ Tagged("recv", f, n) \in Client(f) /\ Tagged("recv", f, n).op = "recv"
      /\ Tagged("timeout", f, n) \in Timeouts(f)
  BY TaggedKinds DEF ClientKinds
<1>4. RecvOps(f) = <<Tagged("recv", f, n)>> \/ RecvOps(f) = <<Tagged("recv", f, n), Tagged("timeout", f, n)>>
  BY <1>2 DEF RecvOps
<1> QED
  BY <1>3, <1>4 DEF OpsOf

\* Where in what is prepared for a client there is what.
LEMMA OpsOfFacts ==
  ASSUME NEW f \in Fds, NEW next, NEW ops, OpsOf(ops, f, next)
  PROVE  /\ ops \in Seq(Operation) /\ Len(ops) \in 1 .. 2
         /\ OpsAt(ops, {Acceptor}) = {}
         /\ \A g : OpsAt(ops, Client(g)) = IF g = f THEN {1} ELSE {}
         /\ \A g, kind : g # f \/ kind = next => OpsAt(ops, Other(g, kind)) = {}
         /\ \A g : OpsAt(ops, Timeouts(g)) \subseteq IF g = f THEN {2} ELSE {}
<1>1. PICK op \in Client(f) : /\ op.op = next
                              /\ ops = <<op>> \/ \E t \in Timeouts(f) : ops = <<op, t>>
  BY DEF OpsOf
<1>2. /\ op \in Operation /\ op # Acceptor
      /\ \A g : op \in Client(g) <=> g = f
      /\ \A g : op \notin Timeouts(g)
      /\ \A g, kind : g # f \/ kind = next => op \notin Other(g, kind)
  <2>1. op.fd = f /\ op.op \in ClientKinds /\ op \in Operation /\ op # Acceptor
    BY OperationKinds
  <2>2. \A g : op \in Client(g) => g = f
    BY <2>1, OperationKinds
  <2>3. \A g : op \notin Timeouts(g)
    BY <2>1, OperationKinds DEF ClientKinds
  <2>4. \A g, kind : op \in Other(g, kind) => op \in Client(g) /\ op.op # kind
    BY OperationKinds
  <2> QED
    BY <1>1, <2>1, <2>2, <2>3, <2>4
<1>3. ASSUME NEW t \in Timeouts(f)
      PROVE  /\ t \in Operation /\ t # Acceptor
             /\ \A g : t \notin Client(g) /\ (t \in Timeouts(g) <=> g = f)
             /\ \A g, kind : t \notin Other(g, kind)
  <2>1. t.fd = f /\ t.op = "timeout" /\ t \in Operation /\ t # Acceptor
    BY OperationKinds
  <2>2. \A g : t \notin Client(g)
    BY <2>1, OperationKinds DEF ClientKinds
  <2>3. \A g : t \in Timeouts(g) => g = f
    BY <2>1, OperationKinds
  <2> QED
    BY <2>1, <2>2, <2>3, OperationKinds
<1>4. CASE ops = <<op>>
  <2>1. ops \in Seq(Operation) /\ Len(ops) = 1
    BY <1>2, <1>4
  <2>2. \A M : OpsAt(ops, M) = IF op \in M THEN {1} ELSE {}
    BY <1>4, PlaceOfOne
  <2> QED
    BY <1>2, <2>1, <2>2
<1>5. ASSUME NEW t \in Timeouts(f), ops = <<op, t>>
      PROVE  /\ ops \in Seq(Operation) /\ Len(ops) \in 1 .. 2
             /\ OpsAt(ops, {Acceptor}) = {}
             /\ \A g : OpsAt(ops, Client(g)) = IF g = f THEN {1} ELSE {}
             /\ \A g, kind : g # f \/ kind = next => OpsAt(ops, Other(g, kind)) = {}
             /\ \A g : OpsAt(ops, Timeouts(g)) \subseteq IF g = f THEN {2} ELSE {}
  <2>1. ops \in Seq(Operation) /\ Len(ops) \in 1 .. 2
    BY <1>2, <1>3, <1>5
  <2>2. \A M : OpsAt(ops, M) = (IF op \in M THEN {1} ELSE {}) \cup (IF t \in M THEN {2} ELSE {})
    BY <1>5, PlacesOfTwo
  <2>3. OpsAt(ops, {Acceptor}) = {}
    BY <1>2, <1>3, <2>2
  <2>4. \A g : OpsAt(ops, Client(g)) = IF g = f THEN {1} ELSE {}
    BY <1>2, <1>3, <2>2
  <2>5. \A g, kind : g # f \/ kind = next => OpsAt(ops, Other(g, kind)) = {}
    BY <1>2, <1>3, <2>2
  <2>6. \A g : OpsAt(ops, Timeouts(g)) \subseteq IF g = f THEN {2} ELSE {}
    BY <1>2, <1>3, <2>2
  <2> QED
    BY <2>1, <2>3, <2>4, <2>5, <2>6
<1> QED
  BY <1>1, <1>4, <1>5

----
\* The kernel completes op, perhaps with the timeout linked to it just before.
Completed(op, res) ==
  /\ up /\ op \in flight /\ UNCHANGED <<up, pc, sq, ready>>
  /\ \/ /\ flight' = flight \ {op}
        /\ cq' = Append(cq, [op |-> op, res |-> res])
     \/ \E t \in flight :
          /\ t.op = "timeout" /\ op.op # "timeout"
          /\ flight' = flight \ {op, t}
          /\ cq' = cq \o <<[op |-> t, res |-> ECANCELED], [op |-> op, res |-> res]>>

\* In the queue of completions the new one is the last.
LEMMA CompletedQueue ==
  ASSUME RingOK, NEW op, NEW res \in Int, Completed(op, res)
  PROVE  /\ op \in Operation /\ flight' \subseteq Operation /\ IsFiniteSet(flight')
         /\ cq' \in Seq(Completion) /\ Len(cq) < Len(cq')
         /\ \A k \in 1 .. Len(cq) : k \in 1 .. Len(cq') /\ cq'[k] = cq[k]
         /\ Len(cq') \in 1 .. Len(cq') /\ cq'[Len(cq')] = [op |-> op, res |-> res]
         /\ \A k \in 1 .. Len(cq') : \/ k \in 1 .. Len(cq) /\ cq'[k] = cq[k]
                                     \/ k = Len(cq') /\ cq'[k] = [op |-> op, res |-> res]
                                     \/ cq'[k].op.op = "timeout"
<1>0. cq \in Seq(Completion) /\ flight \subseteq Operation /\ IsFiniteSet(flight) /\ op \in Operation
  BY DEF RingOK, RingTypeOK, Completed
<1>1. PICK c \in Completion : c = [op |-> op, res |-> res]
  BY <1>0 DEF Completion
<1>2. IsFiniteSet(flight')
  <2>1. flight' \subseteq flight
    BY DEF Completed
  <2> QED
    BY <1>0, <2>1, FS_Subset
<1>3. CASE flight' = flight \ {op} /\ cq' = Append(cq, c)
  <2>1. /\ cq' \in Seq(Completion) /\ Len(cq') = Len(cq) + 1 /\ Len(cq) \in Nat
        /\ \A k \in 1 .. Len(cq) : cq'[k] = cq[k]
        /\ cq'[Len(cq) + 1] = c
    BY <1>0, <1>3
  <2> QED
    BY <1>0, <1>1, <1>2, <1>3, <2>1
<1>4. ASSUME NEW t \in flight, t.op = "timeout", flight' = flight \ {op, t},
             cq' = cq \o <<[op |-> t, res |-> ECANCELED], c>>
      PROVE  /\ flight' \subseteq Operation /\ cq' \in Seq(Completion) /\ Len(cq') = Len(cq) + 2
             /\ Len(cq) \in Nat
             /\ \A k \in 1 .. Len(cq) : cq'[k] = cq[k]
             /\ cq'[Len(cq) + 1].op.op = "timeout" /\ cq'[Len(cq) + 2] = c
  <2>0. t \in Operation /\ ECANCELED \in Int
    BY <1>0 DEF ECANCELED
  <2>1. PICK d \in Completion : d = [op |-> t, res |-> ECANCELED]
    BY <2>0 DEF Completion
  <2>2. PICK list : list = <<d, c>> /\ list \in Seq(Completion) /\ Len(list) = 2 /\ list[1] = d /\ list[2] = c
    <3> DEFINE l == <<d, c>>
    <3>1. l \in Seq(Completion) /\ Len(l) = 2 /\ l[1] = d /\ l[2] = c
      OBVIOUS
    <3> QED
      BY <3>1
  <2>3. cq' = cq \o list
    BY <1>4, <2>1, <2>2
  <2>4. /\ cq' \in Seq(Completion) /\ Len(cq') = Len(cq) + 2 /\ Len(cq) \in Nat
        /\ \A k \in 1 .. Len(cq) : cq'[k] = cq[k]
        /\ cq'[Len(cq) + 1] = list[1] /\ cq'[Len(cq) + 2] = list[2]
    BY <1>0, <2>2, <2>3
  <2>5. d.op = t /\ flight' \subseteq Operation
    BY <1>0, <1>4, <2>1
  <2> QED
    BY <1>4, <2>2, <2>4, <2>5
<1>5. ASSUME NEW t \in flight, t.op = "timeout", flight' = flight \ {op, t},
             cq' = cq \o <<[op |-> t, res |-> ECANCELED], c>>
      PROVE  /\ op \in Operation /\ flight' \subseteq Operation
             /\ cq' \in Seq(Completion) /\ Len(cq) < Len(cq')
             /\ \A k \in 1 .. Len(cq) : k \in 1 .. Len(cq') /\ cq'[k] = cq[k]
             /\ Len(cq') \in 1 .. Len(cq') /\ cq'[Len(cq')] = c
             /\ \A k \in 1 .. Len(cq') : \/ k \in 1 .. Len(cq) /\ cq'[k] = cq[k]
                                         \/ k = Len(cq') /\ cq'[k] = c
                                         \/ cq'[k].op.op = "timeout"
  <2>1. /\ flight' \subseteq Operation /\ cq' \in Seq(Completion) /\ Len(cq') = Len(cq) + 2
        /\ Len(cq) \in Nat
        /\ \A k \in 1 .. Len(cq) : cq'[k] = cq[k]
        /\ cq'[Len(cq) + 1].op.op = "timeout" /\ cq'[Len(cq) + 2] = c
    BY <1>4, <1>5
  <2>2. \A k \in 1 .. Len(cq') : k \in 1 .. Len(cq) \/ k = Len(cq) + 1 \/ k = Len(cq')
    BY <2>1
  <2> QED
    BY <1>0, <2>1, <2>2
<1> QED
  BY <1>0, <1>1, <1>2, <1>3, <1>5 DEF Completed

\* For a group of operations without timeouts, something has moved on at most.
LEMMA CompletedOnce ==
  ASSUME RingOK, NEW op, NEW res \in Int, Completed(op, res),
         NEW M, \A m \in M : m.op # "timeout"
  PROVE  /\ DoneAt(cq', M) = DoneAt(cq, M) \cup (IF op \in M THEN {Len(cq')} ELSE {})
         /\ Once(M) => Once(M)' /\ (Absent(M)' <=> Absent(M))
<1>0. /\ Len(cq) < Len(cq') /\ Len(cq) \in Nat
      /\ \A k \in 1 .. Len(cq) : k \in 1 .. Len(cq') /\ cq'[k] = cq[k]
      /\ Len(cq') \in 1 .. Len(cq') /\ cq'[Len(cq')].op = op
      /\ \A k \in 1 .. Len(cq') : \/ k \in 1 .. Len(cq) /\ cq'[k] = cq[k]
                                  \/ k = Len(cq') /\ cq'[k].op = op
                                  \/ cq'[k].op.op = "timeout"
  <2>1. Len(cq) \in Nat
    BY DEF RingOK, RingTypeOK
  <2>2. PICK c : c = [op |-> op, res |-> res]
    OBVIOUS
  <2>3. /\ Len(cq) < Len(cq')
        /\ \A k \in 1 .. Len(cq) : k \in 1 .. Len(cq') /\ cq'[k] = cq[k]
        /\ Len(cq') \in 1 .. Len(cq') /\ cq'[Len(cq')] = c
        /\ \A k \in 1 .. Len(cq') : \/ k \in 1 .. Len(cq) /\ cq'[k] = cq[k]
                                    \/ k = Len(cq') /\ cq'[k] = c
                                    \/ cq'[k].op.op = "timeout"
    BY <2>2, CompletedQueue
  <2>4. c.op = op
    BY <2>2
  <2> QED
    BY <2>1, <2>3, <2>4
<1>1. DoneAt(cq', M) = DoneAt(cq, M) \cup (IF op \in M THEN {Len(cq')} ELSE {})
  <2>1. ASSUME NEW k \in DoneAt(cq', M) PROVE k \in DoneAt(cq, M) \/ (k = Len(cq') /\ op \in M)
    BY <1>0, <2>1 DEF DoneAt
  <2>2. DoneAt(cq, M) \subseteq DoneAt(cq', M)
    BY <1>0 DEF DoneAt
  <2>3. op \in M => Len(cq') \in DoneAt(cq', M)
    BY <1>0 DEF DoneAt
  <2> QED
    BY <2>1, <2>2, <2>3
<1>2. sq' = sq /\ op \in flight /\ flight' \cap M = (flight \cap M) \ {op}
  BY DEF Completed
<1>3. ASSUME Once(M) PROVE Once(M)' /\ (Absent(M)' <=> Absent(M))
  <2>1. CASE op \in M
    <3>1. flight \cap M = {op} /\ OpsAt(sq, M) = {} /\ DoneAt(cq, M) = {} /\ ~Absent(M)
      BY <1>2, <1>3, <2>1 DEF Once, Absent
    <3>2. flight' \cap M = {} /\ DoneAt(cq', M) = {Len(cq')}
      BY <1>1, <1>2, <2>1, <3>1
    <3> QED
      BY <1>2, <3>1, <3>2 DEF Once, Absent
  <2>2. CASE op \notin M
    <3>1. flight' \cap M = flight \cap M /\ DoneAt(cq', M) = DoneAt(cq, M)
      BY <1>1, <1>2, <2>2
    <3> QED
      BY <1>2, <1>3, <3>1 DEF Once, Absent
  <2> QED
    BY <2>1, <2>2
<1> QED
  BY <1>1, <1>3

\* The groups of the invariant hold no timeouts.
LEMMA NoTimeouts ==
  /\ \A m \in {Acceptor} : m.op # "timeout"
  /\ \A fd : \A m \in Client(fd) : m.op # "timeout"
  /\ \A fd, kind : \A m \in Other(fd, kind) : m.op # "timeout"
<1>1. Acceptor.op # "timeout"
  BY DEF Acceptor
<1>2. \A fd : \A m \in Client(fd) : m.op # "timeout"
  BY OperationKinds DEF ClientKinds
<1> QED
  BY <1>1, <1>2, OperationKinds

\* The recv of fd ends in such a step.
LEMMA RecvEndsCompletes ==
  ASSUME RingOK, NEW fd \in Fds, NEW res \in Int, RecvEnds(fd, res)
  PROVE  \E op \in Client(fd) : op.op = "recv" /\ Completed(op, res)
<1>1. PICK recv \in RecvOf(fd) :
        \/ Completes(recv, res)
        \/ \E t \in TimeoutOf(fd) :
             /\ up /\ pc = "wait"
             /\ flight' = flight \ {recv, t}
             /\ cq' = cq \o <<[op |-> t, res |-> ECANCELED], [op |-> recv, res |-> res]>>
             /\ UNCHANGED <<up, pc, sq, ready>>
  BY DEF RecvEnds
<1>2. recv \in flight /\ recv.op = "recv" /\ recv.fd = fd /\ recv \in Operation
  BY <1>1 DEF RecvOf, RingOK, RingTypeOK
<1>3. recv \in Client(fd)
  BY <1>2, OperationKinds DEF ClientKinds
<1>4. CASE Completes(recv, res)
  BY <1>2, <1>3, <1>4 DEF Completes, Complete, Completed
<1>5. ASSUME NEW t \in TimeoutOf(fd),
             /\ up /\ pc = "wait"
             /\ flight' = flight \ {recv, t}
             /\ cq' = cq \o <<[op |-> t, res |-> ECANCELED], [op |-> recv, res |-> res]>>
             /\ UNCHANGED <<up, pc, sq, ready>>
      PROVE  Completed(recv, res)
  BY <1>2, <1>5 DEF TimeoutOf, Completed
<1> QED
  BY <1>1, <1>2, <1>3, <1>4, <1>5

\* So does every other operation.
LEMMA CompletesCompleted == ASSUME NEW op, NEW res, Completes(op, res) PROVE Completed(op, res)
BY DEF Completes, Complete, Completed

----
\* The bytes of a client g are as they were.
SameBytes(g) ==
  /\ UNCHANGED <<buf[g], sent[g], read[g], echoed[g]>>
  /\ UNCHANGED <<file_size[g], file_offset[g], served[g], ending[g]>>
  /\ g \in file_fds' <=> g \in file_fds

\* The kernel completes an operation with a result that says nothing of bytes.
Failed(op, res) ==
  /\ Completed(op, res) /\ res \in Int /\ ~(res > 0) /\ op.op # "close"
  /\ op = Acceptor => res = FAILED
  /\ UNCHANGED <<coroutines, conns, read, echoed, fvars>>

Connects(fd) == /\ AcceptCompletes(fd)
                /\ variant # "files" => UNCHANGED fvars
                /\ variant = "files" => ClientConnects(fd)

\* The handlers that resume the coroutine of a client.
EchoResumes == /\ variant # "files" /\ UNCHANGED fvars
               /\ RecvResumes \/ SendResumes \/ Closes \/ StartsClosing \/ SlotClosed
FileResumes == /\ variant = "files"
               /\ Request \/ GivesUp \/ PartSent \/ AllSent \/ ChunkRead

\* What a step is.
StepCases ==
  \/ LoopStep /\ UNCHANGED fvars
  \/ TimeoutCqe /\ UNCHANGED fvars
  \/ (Accepted \/ NoPipe \/ AcceptFailed) /\ UNCHANGED fvars
  \/ EchoResumes \/ FileResumes
  \/ \E fd \in Fds : Connects(fd) \/ (CloseCompletes(fd) /\ UNCHANGED fvars)
  \/ \E fd \in Fds, n \in 1 .. BufSize :
       \/ RecvCompletes(fd, n) /\ UNCHANGED fvars
       \/ variant # "files" /\ SendCompletes(fd, n) /\ UNCHANGED fvars
       \/ variant = "files" /\ ReplyCompletes(fd, n)
  \/ \E fd \in Fds, n \in 0 .. BufSize : variant = "files" /\ ReadCompletes(fd, n)
  \/ \E op, res : Failed(op, res)

\* Every step is one of those.
LEMMA NextCases == ASSUME RingOK, MCNext PROVE StepCases
<1>1. ASSUME AcceptFails, UNCHANGED fvars PROVE \E op, res : Failed(op, res)
  <2>1. Completed(Acceptor, FAILED)
    BY <1>1, CompletesCompleted DEF AcceptFails
  <2>2. Failed(Acceptor, FAILED)
    BY <1>1, <2>1 DEF AcceptFails, Failed, FAILED, Acceptor
  <2> QED
    BY <2>2
<1>2. ASSUME NEW fd \in Fds, OpFails(fd) \/ TimeoutExpires(fd) \/ TimeoutEnds(fd), UNCHANGED fvars
      PROVE  \E op, res : Failed(op, res)
  <2>1. UNCHANGED <<coroutines, network, fvars>>
    BY <1>2 DEF OpFails, TimeoutExpires, TimeoutEnds
  <2>2. ASSUME NEW op, NEW res \in {0, ECANCELED}, Completed(op, res), op # Acceptor,
               op.op # "close"
        PROVE  Failed(op, res)
    BY <2>1, <2>2 DEF Failed, ECANCELED, network
  <2>3. ASSUME NEW res \in {0, ECANCELED}, RecvEnds(fd, res) PROVE \E op : Failed(op, res)
    <3>1. res \in Int
      BY DEF ECANCELED
    <3>2. PICK op \in Client(fd) : op.op = "recv" /\ Completed(op, res)
      BY <2>3, <3>1, RecvEndsCompletes
    <3> QED
      BY <2>2, <3>2, OperationKinds
  <2>4. ASSUME Completes(Send(fd), 0) PROVE Failed(Send(fd), 0)
    <3>1. Send(fd) # Acceptor /\ Send(fd).op # "close"
      BY DEF Send, Tagged, Acceptor
    <3> QED
      BY <2>2, <2>4, <3>1, CompletesCompleted
  <2>5. ASSUME NEW t \in TimeoutOf(fd), Completes(t, ECANCELED) PROVE Failed(t, ECANCELED)
    <3>1. t # Acceptor /\ t.op # "close"
      BY DEF TimeoutOf, Acceptor
    <3> QED
      BY <2>2, <2>5, <3>1, CompletesCompleted
  <2>6. CASE OpFails(fd)
    BY <2>3, <2>4, <2>6 DEF OpFails
  <2>7. CASE TimeoutExpires(fd)
    BY <2>3, <2>7 DEF TimeoutExpires
  <2>8. CASE TimeoutEnds(fd)
    BY <2>5, <2>8 DEF TimeoutEnds
  <2> QED
    BY <1>2, <2>6, <2>7, <2>8
<1>n. 1 \in 1 .. BufSize /\ 0 \in 0 .. BufSize /\ \A n \in 1 .. BufSize : n \in 0 .. BufSize
  BY BufAssumption
<1>3. CASE variant = "files" /\ FileNext
  <2>1. CASE FileServes
    BY <1>3, <2>1 DEF FileServes, FileResumes, StepCases
  <2>2. CASE AcceptFails /\ UNCHANGED fvars
    BY <1>1, <2>2 DEF StepCases
  <2>3. ASSUME NEW fd \in Fds, ClientConnects(fd) PROVE StepCases
    <3>1. Connects(fd)
      BY <1>3, <2>3 DEF ClientConnects, Connects
    <3> QED
      BY <3>1 DEF StepCases
  <2>4. ASSUME NEW fd \in Fds, FileServed(fd) PROVE StepCases
    BY <1>3, <1>n, <2>4 DEF FileServed, StepCases
  <2>5. ASSUME NEW fd \in Fds, FileLeft(fd) PROVE StepCases
    <3>1. CASE ReadCompletes(fd, 0)
      BY <1>3, <1>n, <3>1 DEF StepCases
    <3>2. CASE OpFails(fd) /\ UNCHANGED fvars
      BY <1>2, <3>2 DEF StepCases
    <3> QED
      BY <2>5, <3>1, <3>2 DEF FileLeft
  <2> QED
    BY <1>3, <2>1, <2>2, <2>3, <2>4, <2>5 DEF FileNext
<1>4. CASE variant # "files" /\ Next /\ UNCHANGED fvars
  <2>1. CASE Server
    BY <1>4, <2>1 DEF Server, EchoResumes, StepCases
  <2>2. CASE AcceptFails
    BY <1>1, <1>4, <2>2 DEF StepCases
  <2>3. ASSUME NEW fd \in Fds, AcceptCompletes(fd) PROVE StepCases
    BY <1>4, <2>3 DEF Connects, StepCases
  <2>4. ASSUME NEW fd \in Fds, Served(fd) \/ OpFails(fd) PROVE StepCases
    <3>1. CASE \E n \in 1 .. BufSize : RecvCompletes(fd, n) \/ SendCompletes(fd, n)
      BY <1>4, <3>1 DEF StepCases
    <3>2. CASE CloseCompletes(fd)
      BY <1>4, <3>2 DEF StepCases
    <3>3. CASE OpFails(fd) \/ TimeoutExpires(fd) \/ TimeoutEnds(fd)
      BY <1>2, <1>4, <3>3 DEF StepCases
    <3> QED
      BY <2>4, <3>1, <3>2, <3>3 DEF Served
  <2> QED
    BY <1>4, <2>1, <2>2, <2>3, <2>4 DEF Next
<1> QED
  BY <1>3, <1>4 DEF MCNext

----
\* The parts of the invariant that hold while the process is up.
LEMMA InvParts ==
  ASSUME ServerInv, up
  PROVE  /\ RingOK /\ BytesOK /\ FilesOK /\ OnePending /\ TimeoutsQueued /\ NotYetClient
         /\ RingTypeOK(Operation, Completion)
         /\ \A fd \in Fds : InPhase(fd)
BY DEF ServerInv, RingOK

\* A client's completion is what its coroutine awaits, and nothing else of the
\* client is pending.
LEMMA PeekClient ==
  ASSUME ServerInv, NEW kind \in ClientKinds, Peek(kind)
  PROVE  /\ up /\ cq # << >> /\ Op.fd \in Fds /\ Op \in Client(Op.fd) /\ Op.op = kind
         /\ Op = Head(cq).op /\ Res \in Int
         /\ co[Op.fd] = kind /\ Answered(Op.fd, Res)
         /\ OpsAt(sq, Client(Op.fd)) = {} /\ flight \cap Client(Op.fd) = {}
         /\ DoneAt(cq, Client(Op.fd)) = {1}
<1>0. up
  BY DEF Peek
<1>1. /\ cq # << >> /\ 1 \in 1 .. Len(cq) /\ Op = Head(cq).op /\ Op = cq[1].op /\ Res = cq[1].res
      /\ Op \in Operation /\ Res \in Int /\ Op.op = kind /\ cq \in Seq(Completion)
  BY <1>0, InvParts, PeekFacts
<1>2. PICK f \in Fds : f = Op.fd /\ Op \in Client(f)
  BY <1>1, OperationKinds
<1>3. 1 \in DoneAt(cq, Client(f))
  BY <1>1, <1>2 DEF DoneAt
<1>4. Once(Client(f)) /\ Absent(Other(f, co[f])) /\ InPhase(f)
  BY <1>0, InvParts DEF OnePending, AwaitsOne
<1>5. OpsAt(sq, Client(f)) = {} /\ flight \cap Client(f) = {} /\ DoneAt(cq, Client(f)) = {1}
  BY <1>3, <1>4 DEF Once
<1>6. co[f] = kind
  <2>1. cq[1].op \notin Other(f, co[f])
    BY <1>1, <1>4 DEF Absent, DoneAt
  <2> QED
    BY <1>1, <1>2, <2>1, OperationKinds
<1>7. Answered(f, Res)
  BY <1>1, <1>3, <1>4 DEF InPhase
<1> QED
  BY <1>0, <1>1, <1>2, <1>5, <1>6, <1>7

\* A handler of what the coroutine of f awaits: it goes on to await next, or ends.
Resumed(f, next) ==
  /\ up /\ cq # << >> /\ Op \in Client(f) /\ Op.op = co[f]
  /\ Seen
  /\ variant' = variant
  /\ co' = [co EXCEPT ![f] = next]
  /\ \/ /\ next = "none" /\ UNCHANGED <<up, sq>>
        /\ conns' = IF Op.op = "close" THEN conns ELSE conns \ {f}
     \/ /\ next \in ClientKinds /\ Op.op # "close" /\ conns' = conns
        /\ \E ops : OpsOf(ops, f, next) /\ Prepare(ops)
  /\ UNCHANGED <<read, echoed>>
  /\ \A g \in Fds \ {f} : SameBytes(g)

\* One operation without a timeout.
LEMMA OpsOfOne ==
  ASSUME NEW f \in Fds
  PROVE  /\ OpsOf(<<Send(f)>>, f, "send") /\ OpsOf(<<CloseSlot(f)>>, f, "close")
         /\ OpsOf(<<Read(f)>>, f, "read")
<1>1. /\ Send(f) \in Client(f) /\ Send(f).op = "send"
      /\ CloseSlot(f) \in Client(f) /\ CloseSlot(f).op = "close"
      /\ Read(f) \in Client(f) /\ Read(f).op = "read"
  BY TaggedKinds
<1> QED
  BY <1>1 DEF OpsOf

\* The handlers of the echo servers are such steps.
LEMMA EchoResumesResumed ==
  ASSUME ServerInv, EchoResumes
  PROVE  \E f \in Fds : \E next : f = Op.fd /\ Resumed(f, next)
<1>0. RingOK /\ BytesOK /\ FilesOK
  BY DEF ServerInv
<1>t. /\ co \in [Fds -> {"none"} \cup ClientKinds]
      /\ buf \in [Fds -> Seq(Nat)] /\ sent \in [Fds -> Nat]
      /\ read \in [Fds -> Nat] /\ echoed \in [Fds -> Seq(Nat)]
  BY <1>0 DEF RingOK, BytesOK
<1>k. {"recv", "send", "read", "close"} = ClientKinds
  BY DEF ClientKinds
<1>f. UNCHANGED fvars /\ \A g : g \in file_fds' <=> g \in file_fds
  BY DEF EchoResumes, fvars, file
<1>s. ASSUME NEW f \in Fds, UNCHANGED <<buf, read, echoed>>,
             UNCHANGED sent \/ \E n : sent' = [sent EXCEPT ![f] = n]
      PROVE  \A g \in Fds \ {f} : SameBytes(g)
  BY <1>f, <1>s, <1>t DEF SameBytes, fvars, file
<1>1. ASSUME RecvResumes PROVE \E f \in Fds : \E next : f = Op.fd /\ Resumed(f, next)
  <2>1. PICK f \in Fds : /\ f = Op.fd /\ up /\ cq # << >> /\ Op \in Client(f) /\ Op.op = co[f]
                         /\ Op.op = "recv"
    BY <1>1, <1>k, PeekClient DEF RecvResumes
  <2>2. /\ co' = [co EXCEPT ![f] = "send"] /\ sent' = [sent EXCEPT ![f] = 0]
        /\ Prepare(<<Send(f)>>) /\ Seen /\ UNCHANGED <<variant, buf, conns, read, echoed>>
    BY <1>1, <2>1 DEF RecvResumes, network
  <2>3. \A g \in Fds \ {f} : SameBytes(g)
    BY <1>s, <2>2
  <2>4. Resumed(f, "send")
    BY <1>k, <2>1, <2>2, <2>3, OpsOfOne DEF Resumed
  <2> QED
    BY <2>1, <2>4
<1>2. ASSUME SendResumes PROVE \E f \in Fds : \E next : f = Op.fd /\ Resumed(f, next)
  <2>1. PICK f \in Fds : /\ f = Op.fd /\ up /\ cq # << >> /\ Op \in Client(f) /\ Op.op = co[f]
                         /\ Op.op = "send"
    BY <1>2, <1>k, PeekClient DEF SendResumes
  <2>2. PICK next \in {"send", "recv"} : co' = [co EXCEPT ![f] = next] /\ Prepare(IF next = "send" THEN <<Send(f)>> ELSE RecvOps(f))
    <3>1. CASE sent'[f] < Len(buf[f])
      BY <1>2, <2>1, <3>1 DEF SendResumes
    <3>2. CASE ~(sent'[f] < Len(buf[f]))
      BY <1>2, <2>1, <3>2 DEF SendResumes
    <3> QED
      BY <3>1, <3>2
  <2>3. /\ \E n : sent' = [sent EXCEPT ![f] = n]
        /\ Seen /\ UNCHANGED <<variant, buf, conns, read, echoed>>
    BY <1>2, <2>1 DEF SendResumes, network
  <2>4. \A g \in Fds \ {f} : SameBytes(g)
    BY <1>s, <2>3
  <2>5. \E ops : OpsOf(ops, f, next) /\ Prepare(ops)
    BY <1>0, <2>2, OpsOfOne, RecvOpsFacts
  <2>6. Resumed(f, next)
    BY <1>k, <2>1, <2>2, <2>3, <2>4, <2>5 DEF Resumed
  <2> QED
    BY <2>1, <2>6
<1>3. ASSUME Closes PROVE \E f \in Fds : \E next : f = Op.fd /\ Resumed(f, next)
  <2>1. PICK f \in Fds : /\ f = Op.fd /\ up /\ cq # << >> /\ Op \in Client(f) /\ Op.op = co[f]
                         /\ Op.op # "close"
    BY <1>3, <1>k, PeekClient DEF Closes
  <2>2. /\ co' = [co EXCEPT ![f] = "none"] /\ conns' = conns \ {f} /\ Seen
        /\ UNCHANGED <<up, sq, variant, buf, sent, read, echoed>>
    BY <1>3, <2>1 DEF Closes
  <2>3. \A g \in Fds \ {f} : SameBytes(g)
    BY <1>s, <2>2
  <2>4. Resumed(f, "none")
    BY <2>1, <2>2, <2>3 DEF Resumed
  <2> QED
    BY <2>1, <2>4
<1>4. ASSUME StartsClosing PROVE \E f \in Fds : \E next : f = Op.fd /\ Resumed(f, next)
  <2>1. PICK f \in Fds : /\ f = Op.fd /\ up /\ cq # << >> /\ Op \in Client(f) /\ Op.op = co[f]
                         /\ Op.op # "close"
    BY <1>4, <1>k, PeekClient DEF StartsClosing
  <2>2. /\ co' = [co EXCEPT ![f] = "close"] /\ Prepare(<<CloseSlot(f)>>) /\ Seen
        /\ UNCHANGED <<variant, buf, sent, conns, read, echoed>>
    BY <1>4, <2>1 DEF StartsClosing, network
  <2>3. \A g \in Fds \ {f} : SameBytes(g)
    BY <1>s, <2>2
  <2>4. Resumed(f, "close")
    BY <1>k, <2>1, <2>2, <2>3, OpsOfOne DEF Resumed
  <2> QED
    BY <2>1, <2>4
<1>5. ASSUME SlotClosed PROVE \E f \in Fds : \E next : f = Op.fd /\ Resumed(f, next)
  <2>1. PICK f \in Fds : /\ f = Op.fd /\ up /\ cq # << >> /\ Op \in Client(f) /\ Op.op = co[f]
                         /\ Op.op = "close"
    BY <1>5, <1>k, PeekClient DEF SlotClosed
  <2>2. /\ co' = [co EXCEPT ![f] = "none"] /\ conns' = conns /\ Seen
        /\ UNCHANGED <<up, sq, variant, buf, sent, read, echoed>>
    BY <1>5, <2>1 DEF SlotClosed, network
  <2>3. \A g \in Fds \ {f} : SameBytes(g)
    BY <1>s, <2>2
  <2>4. Resumed(f, "none")
    BY <2>1, <2>2, <2>3 DEF Resumed
  <2> QED
    BY <2>1, <2>4
<1> QED
  BY <1>1, <1>2, <1>3, <1>4, <1>5 DEF EchoResumes

\* So are those of the file server.
LEMMA FileResumesResumed ==
  ASSUME ServerInv, FileResumes
  PROVE  \E f \in Fds : \E next : f = Op.fd /\ Resumed(f, next)
<1>0. RingOK /\ BytesOK /\ FilesOK
  BY DEF ServerInv
<1>t. /\ co \in [Fds -> {"none"} \cup ClientKinds]
      /\ buf \in [Fds -> Seq(Nat)] /\ sent \in [Fds -> Nat]
      /\ read \in [Fds -> Nat] /\ echoed \in [Fds -> Seq(Nat)]
      /\ file_size \in [Fds -> Nat \cup {-1}] /\ file_offset \in [Fds -> Nat]
      /\ served \in [Fds -> Seq(Nat)] /\ ending \in [Fds -> {"none", "done", "cut"}]
  BY <1>0 DEF RingOK, BytesOK, FilesOK
<1>k. {"recv", "send", "read", "close"} = ClientKinds
  BY DEF ClientKinds
\* Of a client's variables a handler changes at most these.
<1>s. ASSUME NEW f \in Fds, UNCHANGED <<read, echoed, served>>,
             UNCHANGED buf \/ \E x : buf' = [buf EXCEPT ![f] = x],
             UNCHANGED sent \/ \E x : sent' = [sent EXCEPT ![f] = x],
             UNCHANGED file_size \/ \E x : file_size' = [file_size EXCEPT ![f] = x],
             UNCHANGED file_offset \/ \E x : file_offset' = [file_offset EXCEPT ![f] = x],
             UNCHANGED ending \/ \E x : ending' = [ending EXCEPT ![f] = x],
             file_fds' = file_fds \/ file_fds' = file_fds \cup {f} \/ file_fds' = file_fds \ {f}
      PROVE  \A g \in Fds \ {f} : SameBytes(g)
  <2> SUFFICES ASSUME NEW g \in Fds \ {f} PROVE SameBytes(g)
    OBVIOUS
  <2>1. buf'[g] = buf[g] /\ sent'[g] = sent[g]
    BY <1>s, <1>t
  <2>2. file_size'[g] = file_size[g] /\ file_offset'[g] = file_offset[g]
    BY <1>s, <1>t
  <2>3. ending'[g] = ending[g] /\ (g \in file_fds' <=> g \in file_fds)
    BY <1>s, <1>t
  <2> QED
    BY <1>s, <2>1, <2>2, <2>3 DEF SameBytes
<1>1. ASSUME Request PROVE \E f \in Fds : \E next : f = Op.fd /\ Resumed(f, next)
  <2>1. PICK f \in Fds : /\ f = Op.fd /\ up /\ cq # << >> /\ Op \in Client(f) /\ Op.op = co[f]
                         /\ Op.op = "recv"
    BY <1>1, <1>k, PeekClient DEF Request
  <2>2. /\ co' = [co EXCEPT ![f] = "send"] /\ Prepare(<<Send(f)>>) /\ Seen
        /\ UNCHANGED <<variant, conns, read, echoed, served, ending>>
        /\ buf' = [buf EXCEPT ![f] = Header] /\ sent' = [sent EXCEPT ![f] = 0]
    BY <1>1, <2>1 DEF Request, Answers, network
  <2>3. \/ UNCHANGED <<file_fds, file_size, file_offset>>
        \/ /\ file_fds' = file_fds \cup {f} /\ \E x : file_size' = [file_size EXCEPT ![f] = x]
           /\ file_offset' = [file_offset EXCEPT ![f] = 0]
    BY <1>1, <2>1 DEF Request, file
  <2>4. \A g \in Fds \ {f} : SameBytes(g)
    BY <1>s, <2>2, <2>3
  <2>5. Resumed(f, "send")
    BY <1>k, <2>1, <2>2, <2>4, OpsOfOne DEF Resumed
  <2> QED
    BY <2>1, <2>5
<1>2. ASSUME NEW f \in Fds, f = Op.fd, up, cq # << >>, Op \in Client(f), Op.op = co[f], Op.op # "close",
             NEW how, EndClient(how), Seen,
             UNCHANGED sent \/ \E x : sent' = [sent EXCEPT ![f] = x],
             UNCHANGED file_offset \/ \E x : file_offset' = [file_offset EXCEPT ![f] = x]
      PROVE  Resumed(f, "none")
  <2>1. /\ co' = [co EXCEPT ![f] = "none"] /\ conns' = conns \ {f}
        /\ file_fds' = file_fds \ {f} /\ ending' = [ending EXCEPT ![f] = how]
        /\ UNCHANGED <<up, sq, variant, buf, read, echoed, accepted, file_size, served>>
    BY <1>2 DEF EndClient
  <2>2. \A g \in Fds \ {f} : SameBytes(g)
    BY <1>2, <1>s, <2>1
  <2> QED
    BY <1>2, <2>1, <2>2 DEF Resumed
<1>3. ASSUME GivesUp PROVE \E f \in Fds : \E next : f = Op.fd /\ Resumed(f, next)
  <2>1. PICK f \in Fds : /\ f = Op.fd /\ up /\ cq # << >> /\ Op \in Client(f) /\ Op.op = co[f]
                         /\ Op.op # "close"
    BY <1>3, <1>k, PeekClient DEF GivesUp
  <2>2. EndClient("cut") /\ Seen /\ UNCHANGED <<sent, file_offset>>
    BY <1>3 DEF GivesUp
  <2>3. Resumed(f, "none")
    BY <1>2, <2>1, <2>2
  <2> QED
    BY <2>1, <2>3
<1>4. ASSUME PartSent PROVE \E f \in Fds : \E next : f = Op.fd /\ Resumed(f, next)
  <2>1. PICK f \in Fds : /\ f = Op.fd /\ up /\ cq # << >> /\ Op \in Client(f) /\ Op.op = co[f]
                         /\ Op.op = "send"
    BY <1>4, <1>k, PeekClient DEF PartSent
  <2>2. /\ \E x : sent' = [sent EXCEPT ![f] = x]
        /\ Prepare(<<Send(f)>>) /\ Seen /\ UNCHANGED <<variant, co, buf, conns, read, echoed>>
        /\ UNCHANGED <<file_fds, file_size, file_offset, served, ending>>
    BY <1>4, <2>1 DEF PartSent, network, fvars, file
  <2>3. co' = [co EXCEPT ![f] = "send"]
    BY <1>t, <2>1, <2>2
  <2>4. \A g \in Fds \ {f} : SameBytes(g)
    BY <1>s, <2>2
  <2>5. Resumed(f, "send")
    BY <1>k, <2>1, <2>2, <2>3, <2>4, OpsOfOne DEF Resumed
  <2> QED
    BY <2>1, <2>5
<1>5. ASSUME AllSent PROVE \E f \in Fds : \E next : f = Op.fd /\ Resumed(f, next)
  <2>1. PICK f \in Fds : /\ f = Op.fd /\ up /\ cq # << >> /\ Op \in Client(f) /\ Op.op = co[f]
                         /\ Op.op = "send"
    BY <1>5, <1>k, PeekClient DEF AllSent
  <2>2. /\ \E x : sent' = [sent EXCEPT ![f] = x]
        /\ \E x : file_offset' = [file_offset EXCEPT ![f] = x]
        /\ Seen
        /\ \/ /\ co' = [co EXCEPT ![f] = "read"] /\ Prepare(<<Read(f)>>)
              /\ UNCHANGED <<variant, buf, conns, read, echoed, file_fds, file_size, served, ending>>
           \/ EndClient("done")
    BY <1>5, <2>1 DEF AllSent, network
  <2>3. CASE EndClient("done")
    <3>1. Resumed(f, "none")
      BY <1>2, <2>1, <2>2, <2>3
    <3> QED
      BY <2>1, <3>1
  <2>4. CASE /\ co' = [co EXCEPT ![f] = "read"] /\ Prepare(<<Read(f)>>)
             /\ UNCHANGED <<variant, buf, conns, read, echoed, file_fds, file_size, served, ending>>
    <3>1. \A g \in Fds \ {f} : SameBytes(g)
      BY <1>s, <2>2, <2>4
    <3>2. Resumed(f, "read")
      BY <1>k, <2>1, <2>2, <2>4, <3>1, OpsOfOne DEF Resumed
    <3> QED
      BY <2>1, <3>2
  <2> QED
    BY <2>2, <2>3, <2>4
<1>6. ASSUME ChunkRead PROVE \E f \in Fds : \E next : f = Op.fd /\ Resumed(f, next)
  <2>1. PICK f \in Fds : /\ f = Op.fd /\ up /\ cq # << >> /\ Op \in Client(f) /\ Op.op = co[f]
                         /\ Op.op = "read"
    BY <1>6, <1>k, PeekClient DEF ChunkRead
  <2>2. /\ co' = [co EXCEPT ![f] = "send"] /\ Prepare(<<Send(f)>>) /\ Seen
        /\ UNCHANGED <<variant, conns, read, echoed, file_fds, file_size, file_offset, served, ending>>
        /\ \E x : buf' = [buf EXCEPT ![f] = x]
        /\ sent' = [sent EXCEPT ![f] = 0]
    BY <1>6, <2>1 DEF ChunkRead, Answers, network, fvars, file
  <2>3. \A g \in Fds \ {f} : SameBytes(g)
    BY <1>s, <2>2
  <2>4. Resumed(f, "send")
    BY <1>k, <2>1, <2>2, <2>3, OpsOfOne DEF Resumed
  <2> QED
    BY <2>1, <2>4
<1> QED
  BY <1>1, <1>3, <1>4, <1>5, <1>6 DEF FileResumes

----
\* The accept has been done, and a new connection has no coroutine yet.
LEMMA PeekAccept ==
  ASSUME ServerInv, Peek("accept")
  PROVE  /\ up /\ cq # << >> /\ Op = Acceptor /\ Op = Head(cq).op /\ Res \in Int
         /\ OpsAt(sq, {Acceptor}) = {} /\ flight \cap {Acceptor} = {} /\ DoneAt(cq, {Acceptor}) = {1}
         /\ Res # FAILED => /\ Res \in Fds /\ Res \in conns /\ co[Res] = "none"
                            /\ read[Res] = 0 /\ echoed[Res] = << >>
                            /\ served[Res] = << >> /\ file_size[Res] = -1 /\ ending[Res] = "none"
<1>0. up
  BY DEF Peek
<1>1. /\ cq # << >> /\ 1 \in 1 .. Len(cq) /\ Op = Head(cq).op /\ Op = cq[1].op /\ Res = cq[1].res
      /\ Op \in Operation /\ Res \in Int /\ Op.op = "accept"
  BY <1>0, InvParts, PeekFacts
<1>2. Op = Acceptor
  BY <1>1, OperationKinds
<1>3. 1 \in DoneAt(cq, {Acceptor})
  BY <1>1, <1>2 DEF DoneAt
<1>4. OpsAt(sq, {Acceptor}) = {} /\ flight \cap {Acceptor} = {} /\ DoneAt(cq, {Acceptor}) = {1}
  <2>1. PICK M : M = {Acceptor}
    OBVIOUS
  <2>2. Once(M) /\ 1 \in DoneAt(cq, M)
    BY <1>0, <1>3, <2>1, InvParts DEF OnePending
  <2>3. OpsAt(sq, M) = {} /\ flight \cap M = {} /\ DoneAt(cq, M) = {1}
    BY <2>2 DEF Once
  <2> QED
    BY <2>1, <2>3
<1>5. ASSUME Res # FAILED
      PROVE  /\ Res \in Fds /\ Res \in conns /\ co[Res] = "none"
             /\ read[Res] = 0 /\ echoed[Res] = << >>
             /\ served[Res] = << >> /\ file_size[Res] = -1 /\ ending[Res] = "none"
  <2>1. NotYetClient /\ conns \subseteq Fds
    BY <1>0, InvParts DEF RingOK
  <2>2. \A j \in DoneAt(cq, Client(Res)) : ~(j < 1)
    BY DEF DoneAt
  <2> QED
    BY <1>1, <1>3, <1>5, <2>1, <2>2 DEF NotYetClient
<1> QED
  BY <1>0, <1>1, <1>2, <1>4, <1>5

\* Where in what accept_loop prepares there is what.
LEMMA AcceptOpsFacts ==
  ASSUME RingOK, NEW r \in Fds, NEW ops, ops = RecvOps(r) \o <<Acceptor>>
  PROVE  /\ ops \in Seq(Operation) /\ Len(ops) \in 2 .. 3
         /\ OpsAt(ops, {Acceptor}) # {} /\ \A j, k \in OpsAt(ops, {Acceptor}) : j = k
         /\ \A g : OpsAt(ops, Client(g)) = IF g = r THEN {1} ELSE {}
         /\ \A g, kind : g # r \/ kind = "recv" => OpsAt(ops, Other(g, kind)) = {}
         /\ \A g : OpsAt(ops, Timeouts(g)) \subseteq IF g = r THEN {2} ELSE {}
<1>1. PICK a : a = RecvOps(r)
  OBVIOUS
<1>2. OpsOf(a, r, "recv")
  BY <1>1, RecvOpsFacts
<1>3. /\ a \in Seq(Operation) /\ Len(a) \in 1 .. 2
      /\ OpsAt(a, {Acceptor}) = {}
      /\ \A g : OpsAt(a, Client(g)) = IF g = r THEN {1} ELSE {}
      /\ \A g, kind : g # r \/ kind = "recv" => OpsAt(a, Other(g, kind)) = {}
      /\ \A g : OpsAt(a, Timeouts(g)) \subseteq IF g = r THEN {2} ELSE {}
  BY <1>2, OpsOfFacts
<1>4. ops = Append(a, Acceptor)
  <2>1. ops = a \o <<Acceptor>>
    BY <1>1
  <2> QED
    BY <1>3, <2>1, AppendIsConcat
<1>5. \A M : OpsAt(ops, M) = OpsAt(a, M) \cup (IF Acceptor \in M THEN {Len(a) + 1} ELSE {})
  <2> SUFFICES ASSUME NEW M PROVE OpsAt(ops, M) = OpsAt(a, M) \cup (IF Acceptor \in M THEN {Len(a) + 1} ELSE {})
    OBVIOUS
  <2>1. PICK e \in Operation : e = Acceptor
    BY OperationKinds
  <2>2. a \in Seq(Operation)
    BY <1>3
  <2>3. OpsAt(Append(a, e), M) = OpsAt(a, M) \cup (IF e \in M THEN {Len(a) + 1} ELSE {})
    BY <2>2, AppendAt
  <2> QED
    BY <1>4, <2>1, <2>3
<1>6. ops \in Seq(Operation) /\ Len(ops) \in 2 .. 3
  <2>1. PICK e \in Operation : e = Acceptor
    BY OperationKinds
  <2>2. a \in Seq(Operation)
    BY <1>3
  <2>3. Append(a, e) \in Seq(Operation) /\ Len(Append(a, e)) = Len(a) + 1
    BY <2>2
  <2>4. Len(a) \in 1 .. 2
    BY <1>3
  <2>5. ops \in Seq(Operation) /\ Len(ops) = Len(a) + 1
    BY <1>4, <2>1, <2>3
  <2> QED
    BY <2>4, <2>5
<1>7. OpsAt(ops, {Acceptor}) = {Len(a) + 1}
  BY <1>3, <1>5
<1>8. \A g, kind : Acceptor \notin Client(g) /\ Acceptor \notin Other(g, kind) /\ Acceptor \notin Timeouts(g)
  BY OperationKinds
<1>9. \A g : OpsAt(ops, Client(g)) = IF g = r THEN {1} ELSE {}
  BY <1>3, <1>5, <1>8
<1>10. \A g, kind : g # r \/ kind = "recv" => OpsAt(ops, Other(g, kind)) = {}
  BY <1>3, <1>5, <1>8
<1>11. \A g : OpsAt(ops, Timeouts(g)) \subseteq IF g = r THEN {2} ELSE {}
  BY <1>3, <1>5, <1>8
<1> QED
  BY <1>6, <1>7, <1>9, <1>10, <1>11

\* The accept again, and nothing else.
LEMMA AcceptAgainFacts ==
  ASSUME NEW ops, ops = <<Acceptor>>
  PROVE  /\ ops \in Seq(Operation) /\ Len(ops) = 1
         /\ OpsAt(ops, {Acceptor}) # {} /\ \A j, k \in OpsAt(ops, {Acceptor}) : j = k
         /\ \A g : OpsAt(ops, Client(g)) = {}
         /\ \A g, kind : OpsAt(ops, Other(g, kind)) = {}
         /\ \A g : OpsAt(ops, Timeouts(g)) = {}
<1>1. ops \in Seq(Operation) /\ Len(ops) = 1
  BY OperationKinds
<1>2. \A M : OpsAt(ops, M) = IF Acceptor \in M THEN {1} ELSE {}
  BY PlaceOfOne
<1>3. \A g, kind : Acceptor \notin Client(g) /\ Acceptor \notin Other(g, kind) /\ Acceptor \notin Timeouts(g)
  BY OperationKinds
<1>4. OpsAt(ops, {Acceptor}) = {1}
  BY <1>2
<1> QED
  BY <1>1, <1>2, <1>3, <1>4

\* get_sqe queues all of the operations or ends the process.
LEMMA PrepareFacts ==
  ASSUME RingOK, up, NEW ops \in Seq(Operation), Prepare(ops)
  PROVE  /\ sq' \in Seq(Operation) /\ Len(sq') <= SqDepth
         /\ up' \in BOOLEAN
         /\ up' => sq' = sq \o ops
         /\ Len(sq) + Len(ops) <= SqDepth => up'
<1>1. sq \in Seq(Operation) /\ Len(sq) <= SqDepth
  BY DEF RingOK, RingTypeOK
<1> QED
  BY <1>1, PrepareRing

\* A handler that does not end the process.
LEMMA HandlerRing ==
  ASSUME RingOK, up, up', NEW ops \in Seq(Operation), Seen, Prepare(ops)
  PROVE  /\ RingTypeOK(Operation, Completion)
         /\ flight' = flight /\ cq' = Tail(cq) /\ sq' = sq \o ops
BY PrepareFacts DEF Seen, RingOK

\* Every action keeps the ring and the coroutines in their types.
LEMMA NextRingOK == ASSUME ServerInv, MCNext PROVE RingOK'
<1>0. RingOK /\ StepCases
  BY NextCases DEF ServerInv
<1>t. /\ variant \in Variants /\ up \in BOOLEAN /\ pc \in {"submit", "wait", "cqe"}
      /\ sq \in Seq(Operation) /\ flight \subseteq Operation /\ cq \in Seq(Completion)
      /\ IsFiniteSet(flight) /\ Len(sq) <= SqDepth /\ ready \in Nat /\ ready <= Len(cq)
      /\ co \in [Fds -> {"none"} \cup ClientKinds] /\ conns \subseteq Fds
  BY <1>0 DEF RingOK, RingTypeOK
<1> USE DEF coroutines, network
\* What a handler does to the ring ...
<1>h. ASSUME up, NEW kind, Peek(kind), Seen
      PROVE  /\ cq' \in Seq(Completion) /\ ready' \in Nat /\ ready' <= Len(cq')
             /\ UNCHANGED <<pc, flight>>
  <2>1. cq # << >> /\ ready \in Nat \ {0}
    BY <1>0, <1>h, PeekFacts
  <2> QED
    BY <1>h, <1>t, <2>1 DEF Seen
<1>p. ASSUME up, NEW kind, Peek(kind), Seen, NEW ops \in Seq(Operation), Prepare(ops),
             variant' = variant, co' \in [Fds -> {"none"} \cup ClientKinds], conns' \subseteq Fds
      PROVE  RingOK'
  <2>1. sq' \in Seq(Operation) /\ Len(sq') <= SqDepth /\ up' \in BOOLEAN
    BY <1>0, <1>p, PrepareFacts
  <2> QED
    BY <1>h, <1>p, <1>t, <2>1 DEF RingOK, RingTypeOK
\* ... and what the kernel does.
<1>c. ASSUME NEW op, NEW res \in Int, Completed(op, res), variant' = variant, co' = co, conns' \subseteq Fds
      PROVE  RingOK'
  <2>1. /\ flight' \subseteq Operation /\ IsFiniteSet(flight')
        /\ cq' \in Seq(Completion) /\ Len(cq) < Len(cq')
    BY <1>0, <1>c, CompletedQueue
  <2>2. UNCHANGED <<up, pc, sq, ready>>
    BY <1>c DEF Completed
  <2>3. ready <= Len(cq')
    BY <1>t, <2>1
  <2> QED
    BY <1>c, <1>t, <2>1, <2>2, <2>3 DEF RingOK, RingTypeOK
<1>1. ASSUME LoopStep PROVE RingOK'
  <2>1. UNCHANGED <<variant, co, conns, up>>
    BY <1>1 DEF LoopStep, Submit, Wait, EndBatch
  <2>2. CASE Submit
    <3>1. ToSet(sq) \subseteq Operation /\ ToSet(sq) = {sq[k] : k \in 1 .. Len(sq)} /\ sq = [k \in 1 .. Len(sq) |-> sq[k]]
      BY <1>t DEF ToSet
    <3>2. IsFiniteSet(ToSet(sq))
      <4>1. IsFiniteSet(1 .. Len(sq))
        BY <1>t, FS_Interval
      <4> QED
        BY <3>1, <4>1, FiniteValues
    <3>3. flight' = flight \cup ToSet(sq) /\ sq' = << >> /\ pc' = "wait" /\ UNCHANGED <<cq, ready>>
      BY <2>2 DEF Submit
    <3>4. IsFiniteSet(flight')
      BY <1>t, <3>2, <3>3, FS_Union
    <3>5. sq' \in Seq(Operation) /\ Len(sq') <= SqDepth
      BY <3>3, SqDepthAssumption
    <3> QED
      BY <1>t, <2>1, <3>1, <3>3, <3>4, <3>5 DEF RingOK, RingTypeOK
  <2>3. CASE Wait \/ EndBatch
    <3>1. /\ UNCHANGED <<sq, flight, cq>> /\ pc' \in {"submit", "wait", "cqe"}
          /\ ready' = ready \/ ready' = Len(cq)
      BY <2>3 DEF Wait, EndBatch
    <3>2. ready' \in Nat /\ ready' <= Len(cq)
      BY <1>t, <3>1
    <3> QED
      BY <1>t, <2>1, <3>1, <3>2 DEF RingOK, RingTypeOK
  <2> QED
    BY <1>1, <2>2, <2>3 DEF LoopStep
<1>2. ASSUME TimeoutCqe PROVE RingOK'
  <2>1. up /\ Peek("timeout") /\ Seen /\ UNCHANGED <<up, sq, variant, co, conns>>
    BY <1>2 DEF TimeoutCqe, Peek
  <2> QED
    BY <1>h, <1>t, <2>1 DEF RingOK, RingTypeOK
<1>3. ASSUME Accepted \/ NoPipe \/ AcceptFailed PROVE RingOK'
  <2>1. up /\ Peek("accept") /\ Seen /\ variant' = variant
    BY <1>3 DEF Accepted, NoPipe, AcceptFailed, Peek
  <2>2. co' \in [Fds -> {"none"} \cup ClientKinds]
    BY <1>3, <1>t DEF Accepted, NoPipe, AcceptFailed, ClientKinds
  <2>3. conns' \subseteq Fds
    BY <1>3, <1>t DEF Accepted, NoPipe, AcceptFailed
  <2>4. PICK ops \in Seq(Operation) : Prepare(ops)
    <3>1. CASE Accepted
      <4>1. Res \in Fds /\ Prepare(RecvOps(Res) \o <<Acceptor>>)
        BY <2>1, <3>1, PeekAccept DEF Accepted
      <4> QED
        BY <1>0, <4>1, AcceptOpsFacts
    <3>2. CASE NoPipe \/ AcceptFailed
      BY <3>2, AcceptAgainFacts DEF NoPipe, AcceptFailed
    <3> QED
      BY <1>3, <3>1, <3>2
  <2> QED
    BY <1>p, <2>1, <2>2, <2>3, <2>4
<1>4. ASSUME NEW f \in Fds, NEW next, Resumed(f, next), NEW kind, Peek(kind) PROVE RingOK'
  <2>1. /\ up /\ Seen /\ variant' = variant /\ co' = [co EXCEPT ![f] = next]
        /\ next \in {"none"} \cup ClientKinds /\ conns' \subseteq Fds
    BY <1>4, <1>t DEF Resumed
  <2>2. co' \in [Fds -> {"none"} \cup ClientKinds]
    BY <1>t, <2>1
  <2>3. CASE UNCHANGED <<up, sq>>
    BY <1>4, <1>h, <1>t, <2>1, <2>2, <2>3 DEF RingOK, RingTypeOK
  <2>4. CASE \E ops : OpsOf(ops, f, next) /\ Prepare(ops)
    <3>1. PICK ops : ops \in Seq(Operation) /\ Prepare(ops)
      BY <2>4, OpsOfFacts
    <3> QED
      BY <1>4, <1>p, <2>1, <2>2, <3>1
  <2> QED
    BY <1>4, <2>3, <2>4 DEF Resumed
<1>5. ASSUME EchoResumes \/ FileResumes PROVE RingOK'
  <2>1. PICK f \in Fds : \E next : Resumed(f, next)
    BY <1>5, EchoResumesResumed, FileResumesResumed
  <2>2. PICK kind : Peek(kind)
    BY <1>5 DEF EchoResumes, RecvResumes, SendResumes, Closes, StartsClosing, SlotClosed,
                FileResumes, Request, GivesUp, PartSent, AllSent, ChunkRead
  <2> QED
    BY <1>4, <2>1, <2>2
<1>6. ASSUME NEW fd \in Fds, AcceptCompletes(fd) PROVE RingOK'
  <2>1. Completed(Acceptor, fd) /\ variant' = variant /\ co' = co /\ conns' \subseteq Fds
    BY <1>6, <1>t, CompletesCompleted DEF AcceptCompletes
  <2> QED
    BY <1>c, <2>1, FdsAssumption
<1>7. ASSUME NEW fd \in Fds, CloseCompletes(fd) PROVE RingOK'
  BY <1>7, <1>c, <1>t, CompletesCompleted DEF CloseCompletes
<1>8. ASSUME NEW fd \in Fds, NEW n \in 1 .. BufSize, RecvCompletes(fd, n) PROVE RingOK'
  <2>1. n \in Int
    BY BufAssumption
  <2>2. \E op : Completed(op, n)
    BY <1>0, <1>8, <2>1, RecvEndsCompletes DEF RecvCompletes
  <2> QED
    BY <1>8, <1>c, <1>t, <2>1, <2>2 DEF RecvCompletes
<1>9. ASSUME NEW fd \in Fds, NEW n \in 1 .. BufSize, SendCompletes(fd, n) \/ ReplyCompletes(fd, n) PROVE RingOK'
  <2>1. n \in Int
    BY BufAssumption
  <2> QED
    BY <1>9, <1>c, <1>t, <2>1, CompletesCompleted DEF SendCompletes, ReplyCompletes
<1>10. ASSUME NEW fd \in Fds, NEW n \in 0 .. BufSize, ReadCompletes(fd, n) PROVE RingOK'
  <2>1. n \in Int
    BY BufAssumption
  <2> QED
    BY <1>10, <1>c, <1>t, <2>1, CompletesCompleted DEF ReadCompletes
<1>11. ASSUME NEW op, NEW res, Failed(op, res) PROVE RingOK'
  BY <1>11, <1>c, <1>t DEF Failed
<1> QED
  BY <1>0, <1>1, <1>2, <1>3, <1>5, <1>6, <1>7, <1>8, <1>9, <1>10, <1>11 DEF StepCases, Connects

----
\* A handler that neither gets nor prepares an operation of client fd.
LEMMA HandlerAwaitsOne ==
  ASSUME RingTypeOK(Operation, Completion), cq # << >>, NEW ops \in Seq(Operation),
         flight' = flight, cq' = Tail(cq), sq' = sq \o ops,
         NEW fd \in Fds, AwaitsOne(fd), co'[fd] = co[fd],
         Head(cq).op \notin Client(fd), OpsAt(ops, Client(fd)) = {}
  PROVE  AwaitsOne(fd)'
<1>1. PICK M, N : M = Client(fd) /\ N = Other(fd, co[fd])
  OBVIOUS
<1>2. N \in SUBSET M /\ Once(M) /\ Absent(N) /\ (Absent(M) <=> co[fd] = "none")
  BY <1>1, OperationKinds DEF AwaitsOne
<1>3. Once(N) /\ Head(cq).op \notin M /\ Head(cq).op \notin N
  BY <1>1, <1>2, OncePart
<1>4. OpsAt(ops, M) = {} /\ OpsAt(ops, N) = {}
  BY <1>1, <1>2 DEF OpsAt
<1>5. Once(M)' /\ (Absent(M)' <=> Absent(M))
  BY <1>2, <1>3, <1>4, SeenOnce
<1>6. Absent(N)'
  BY <1>2, <1>3, <1>4, SeenOnce
<1> QED
  BY <1>1, <1>2, <1>5, <1>6 DEF AwaitsOne

\* A step that moves pending operations on without adding or handling one.
LEMMA PendingMoves ==
  ASSUME OnePending, co' = co,
         \A M : (\A m \in M : m.op # "timeout") /\ Once(M) => Once(M)' /\ (Absent(M)' <=> Absent(M))
  PROVE  OnePending'
<1>1. Once({Acceptor})'
  <2>1. PICK M : M = {Acceptor}
    OBVIOUS
  <2>2. Once(M) /\ \A m \in M : m.op # "timeout"
    BY <2>1, NoTimeouts DEF OnePending
  <2>3. Once(M)'
    BY <2>2
  <2> QED
    BY <2>1, <2>3
<1>2. ASSUME NEW fd \in Fds PROVE AwaitsOne(fd)'
  <2>1. PICK M, N : M = Client(fd) /\ N = Other(fd, co[fd])
    OBVIOUS
  <2>2. N \in SUBSET M /\ Once(M) /\ Absent(N) /\ (Absent(M) <=> co[fd] = "none")
    BY <2>1, OperationKinds DEF OnePending, AwaitsOne
  <2>3. Once(N) /\ (\A m \in M : m.op # "timeout") /\ (\A m \in N : m.op # "timeout")
    BY <2>1, <2>2, OncePart, NoTimeouts
  <2>4. Once(M)' /\ (Absent(M)' <=> Absent(M)) /\ Absent(N)'
    BY <2>2, <2>3
  <2> QED
    BY <2>1, <2>2, <2>4 DEF AwaitsOne
<1> QED
  BY <1>1, <1>2 DEF OnePending

\* What a handler of the accept does: it accepts again, and perhaps starts the
\* coroutine of client r.
LEMMA AcceptOnePending ==
  ASSUME RingTypeOK(Operation, Completion), OnePending, cq # << >>, Head(cq).op = Acceptor,
         NEW ops \in Seq(Operation), flight' = flight, cq' = Tail(cq), sq' = sq \o ops,
         OpsAt(ops, {Acceptor}) # {}, \A j, k \in OpsAt(ops, {Acceptor}) : j = k,
         NEW r, co \in [Fds -> {"none"} \cup ClientKinds],
         r \in Fds => co[r] = "none" /\ co' = [co EXCEPT ![r] = "recv"]
                      /\ OpsAt(ops, Client(r)) = {1} /\ OpsAt(ops, Other(r, "recv")) = {},
         r \notin Fds => co' = co,
         \A g \in Fds : g # r => OpsAt(ops, Client(g)) = {}
  PROVE  OnePending'
<1>1. Once({Acceptor})'
  <2>1. PICK M : M = {Acceptor}
    OBVIOUS
  <2>2. Once(M) /\ Head(cq).op \in M /\ \A j, k \in OpsAt(ops, M) : j = k
    BY <2>1 DEF OnePending
  <2>3. Once(M)'
    BY <2>2, SeenOnce
  <2> QED
    BY <2>1, <2>3
<1>2. ASSUME NEW fd \in Fds PROVE AwaitsOne(fd)'
  <2>1. Head(cq).op \notin Client(fd) /\ AwaitsOne(fd)
    BY OperationKinds DEF OnePending
  <2>2. CASE fd # r
    <3>1. co'[fd] = co[fd] /\ OpsAt(ops, Client(fd)) = {}
      BY <2>2
    <3> QED
      BY <2>1, <3>1, HandlerAwaitsOne
  <2>3. CASE fd = r
    <3>1. PICK M, N : M = Client(fd) /\ N = Other(fd, "recv")
      OBVIOUS
    <3>2. N \in SUBSET M /\ Once(M) /\ Absent(M) /\ co'[fd] = "recv"
      BY <2>1, <2>3, <3>1, OperationKinds DEF AwaitsOne
    <3>3. Once(N) /\ Absent(N) /\ Head(cq).op \notin N
      BY <2>1, <3>1, <3>2, OncePart
    <3>4. OpsAt(ops, M) = {1} /\ OpsAt(ops, N) = {}
      BY <2>3, <3>1
    <3>5. Once(M)' /\ ~Absent(M)'
      BY <3>2, <3>4, SeenOnce
    <3>6. Absent(N)'
      BY <3>3, <3>4, SeenOnce
    <3> QED
      BY <3>1, <3>2, <3>5, <3>6 DEF AwaitsOne
  <2> QED
    BY <2>2, <2>3
<1> QED
  BY <1>1, <1>2 DEF OnePending

\* What the handler of client f's completion does: f's coroutine awaits the next
\* operation, or ends.
LEMMA ResumeOnePending ==
  ASSUME RingTypeOK(Operation, Completion), OnePending, cq # << >>,
         co \in [Fds -> {"none"} \cup ClientKinds],
         NEW f \in Fds, NEW next, Head(cq).op \in Client(f),
         NEW ops \in Seq(Operation), flight' = flight, cq' = Tail(cq), sq' = sq \o ops,
         co' = [co EXCEPT ![f] = next],
         \/ next = "none" /\ ops = << >>
         \/ next \in ClientKinds /\ OpsOf(ops, f, next)
  PROVE  OnePending'
<1>0. /\ OpsAt(ops, {Acceptor}) = {}
      /\ \A g \in Fds : g # f => OpsAt(ops, Client(g)) = {}
      /\ \/ next = "none" /\ OpsAt(ops, Client(f)) = {}
         \/ next # "none" /\ OpsAt(ops, Client(f)) = {1} /\ OpsAt(ops, Other(f, next)) = {}
  <2>1. CASE next = "none" /\ ops = << >>
    BY <2>1, PlacesOfNone
  <2>2. CASE next \in ClientKinds /\ OpsOf(ops, f, next)
    BY <2>2, OpsOfFacts DEF ClientKinds
  <2> QED
    BY <2>1, <2>2
<1>1. Once({Acceptor})'
  <2>1. PICK M : M = {Acceptor}
    OBVIOUS
  <2>2. Once(M) /\ OpsAt(ops, M) = {}
    BY <1>0, <2>1 DEF OnePending
  <2>3. \A j, k \in OpsAt(ops, M) : j = k
    BY <2>2
  <2>4. Once(M)'
    BY <2>2, <2>3, SeenOnce
  <2> QED
    BY <2>1, <2>4
<1>2. ASSUME NEW fd \in Fds PROVE AwaitsOne(fd)'
  <2>1. AwaitsOne(fd)
    BY DEF OnePending
  <2>2. CASE fd # f
    <3>1. co'[fd] = co[fd] /\ OpsAt(ops, Client(fd)) = {}
      BY <1>0, <2>2
    <3>2. Head(cq).op \notin Client(fd)
      BY <2>2, OperationKinds, SMTT(30)
    <3> QED
      BY <2>1, <3>1, <3>2, HandlerAwaitsOne
  <2>3. CASE fd = f
    <3>1. PICK M, N : M = Client(fd) /\ N = Other(fd, next)
      OBVIOUS
    <3>2. N \in SUBSET M /\ Once(M) /\ Head(cq).op \in M /\ co'[fd] = next
      BY <2>1, <2>3, <3>1, OperationKinds DEF AwaitsOne
    <3>3. CASE next = "none"
      <4>1. OpsAt(ops, M) = {}
        BY <1>0, <2>3, <3>1, <3>3
      <4>2. Once(M)' /\ Absent(M)'
        BY <3>2, <4>1, SeenOnce
      <4>3. Absent(N)'
        BY <3>2, <4>2 DEF Absent, OpsAt, DoneAt
      <4> QED
        BY <3>1, <3>2, <3>3, <4>2, <4>3 DEF AwaitsOne
    <3>4. CASE next # "none"
      <4>1. OpsAt(ops, M) = {1} /\ OpsAt(ops, N) = {} /\ Once(N)
        BY <1>0, <2>3, <3>1, <3>2, <3>4, OncePart
      <4>2. Once(M)' /\ ~Absent(M)'
        BY <3>2, <4>1, SeenOnce
      <4>3. Head(cq).op \notin N => Absent(N)
        <5>1. 1 \in DoneAt(cq, M) /\ (1 \in DoneAt(cq, N) <=> Head(cq).op \in N)
          BY <3>2, TailAt DEF RingTypeOK
        <5>2. OpsAt(sq, M) = {} /\ flight \cap M = {} /\ DoneAt(cq, M) = {1}
          BY <3>2, <5>1 DEF Once
        <5>3. OpsAt(sq, N) \subseteq OpsAt(sq, M) /\ DoneAt(cq, N) \subseteq DoneAt(cq, M)
          BY <3>2 DEF OpsAt, DoneAt
        <5> QED
          BY <3>2, <5>1, <5>2, <5>3 DEF Absent
      <4>4. Absent(N)'
        BY <4>1, <4>3, SeenOnce
      <4> QED
        BY <3>1, <3>2, <3>4, <4>2, <4>4 DEF AwaitsOne
    <3> QED
      BY <3>3, <3>4
  <2> QED
    BY <2>2, <2>3
<1> QED
  BY <1>1, <1>2 DEF OnePending

\* A handler of the accept: the connection r gets a coroutine, or there is none
\* that does; and then the accept again.
AcceptHandled(r, ops) ==
  /\ Peek("accept") /\ Seen /\ Prepare(ops) /\ variant' = variant
  /\ \/ /\ r = Res /\ r \in Fds /\ ops = RecvOps(r) \o <<Acceptor>>
        /\ co' = [co EXCEPT ![r] = "recv"] /\ conns' = conns
     \/ /\ r = FAILED /\ ops = <<Acceptor>> /\ co' = co
        /\ conns' = conns \/ (Res \in Fds /\ conns' = conns \ {Res})
  /\ \A g \in Fds : SameBytes(g)

\* accept_loop takes such steps.
LEMMA AcceptCases ==
  ASSUME ServerInv, Accepted \/ NoPipe \/ AcceptFailed, UNCHANGED fvars
  PROVE  \E r, ops : AcceptHandled(r, ops)
<1>1. \A g \in Fds : SameBytes(g)
  BY DEF Accepted, NoPipe, AcceptFailed, SameBytes, coroutines, network, fvars, file
<1>2. CASE Accepted
  <2>1. Res \in Fds
    BY <1>2, PeekAccept DEF Accepted
  <2>2. AcceptHandled(Res, RecvOps(Res) \o <<Acceptor>>)
    BY <1>1, <1>2, <2>1 DEF Accepted, AcceptHandled, network
  <2> QED
    BY <2>2
<1>3. CASE NoPipe
  <2>1. Res \in Fds
    BY <1>3, PeekAccept DEF NoPipe
  <2>2. AcceptHandled(FAILED, <<Acceptor>>)
    BY <1>1, <1>3, <2>1 DEF NoPipe, AcceptHandled, coroutines
  <2> QED
    BY <2>2
<1>4. CASE AcceptFailed
  <2>1. AcceptHandled(FAILED, <<Acceptor>>)
    BY <1>1, <1>4 DEF AcceptFailed, AcceptHandled, coroutines, network
  <2> QED
    BY <2>1
<1> QED
  BY <1>2, <1>3, <1>4

\* The kernel completes an operation; no coroutine runs.
KernelStep == \E op, res : res \in Int /\ Completed(op, res) /\ UNCHANGED <<variant, co>>

\* What a step is to the ring.
LEMMA RingCases ==
  ASSUME ServerInv, MCNext
  PROVE  \/ LoopStep /\ UNCHANGED fvars
         \/ TimeoutCqe /\ UNCHANGED fvars
         \/ \E r, ops : AcceptHandled(r, ops)
         \/ \E f \in Fds : \E next : f = Op.fd /\ Resumed(f, next)
         \/ KernelStep
<1>0. RingOK /\ StepCases
  BY NextCases DEF ServerInv
<1>1. ASSUME NEW fd \in Fds, AcceptCompletes(fd) PROVE KernelStep
  <2>1. Completed(Acceptor, fd) /\ UNCHANGED <<variant, co>>
    BY <1>1, CompletesCompleted DEF AcceptCompletes, coroutines
  <2> QED
    BY <2>1, FdsAssumption DEF KernelStep
<1>2. ASSUME NEW fd \in Fds, CloseCompletes(fd) PROVE KernelStep
  BY <1>2, CompletesCompleted DEF CloseCompletes, coroutines, KernelStep
<1>3. ASSUME NEW fd \in Fds, NEW n \in 1 .. BufSize, RecvCompletes(fd, n) PROVE KernelStep
  <2>1. n \in Int
    BY BufAssumption
  <2>2. PICK op : Completed(op, n)
    BY <1>0, <1>3, <2>1, RecvEndsCompletes DEF RecvCompletes
  <2> QED
    BY <1>3, <2>1, <2>2 DEF RecvCompletes, KernelStep
<1>4. ASSUME NEW fd \in Fds, NEW n \in 1 .. BufSize, SendCompletes(fd, n) \/ ReplyCompletes(fd, n)
      PROVE  KernelStep
  <2>1. n \in Int
    BY BufAssumption
  <2>2. Completed(Send(fd), n) /\ UNCHANGED <<variant, co>>
    BY <1>4, CompletesCompleted DEF SendCompletes, ReplyCompletes, coroutines
  <2> QED
    BY <2>1, <2>2 DEF KernelStep
<1>5. ASSUME NEW fd \in Fds, NEW n \in 0 .. BufSize, ReadCompletes(fd, n) PROVE KernelStep
  <2>1. n \in Int
    BY BufAssumption
  <2>2. Completed(Read(fd), n) /\ UNCHANGED <<variant, co>>
    BY <1>5, CompletesCompleted DEF ReadCompletes
  <2> QED
    BY <2>1, <2>2 DEF KernelStep
<1>6. ASSUME NEW op, NEW res, Failed(op, res) PROVE KernelStep
  BY <1>6 DEF Failed, KernelStep, coroutines
<1>7. CASE EchoResumes \/ FileResumes
  BY <1>7, EchoResumesResumed, FileResumesResumed
<1>8. CASE (Accepted \/ NoPipe \/ AcceptFailed) /\ UNCHANGED fvars
  BY <1>8, AcceptCases
<1> QED
  BY <1>0, <1>1, <1>2, <1>3, <1>4, <1>5, <1>6, <1>7, <1>8 DEF StepCases, Connects

\* A process that has ended takes no step.
LEMMA UpToStep == ASSUME ServerInv, MCNext PROVE up
<1>1. LoopStep => up
  BY DEF LoopStep, Submit, Wait, EndBatch
<1>2. TimeoutCqe => up
  BY DEF TimeoutCqe, Peek
<1>3. ASSUME NEW r, NEW ops, AcceptHandled(r, ops) PROVE up
  BY <1>3 DEF AcceptHandled, Peek
<1>4. ASSUME NEW f, NEW next, Resumed(f, next) PROVE up
  BY <1>4 DEF Resumed
<1>5. KernelStep => up
  BY DEF KernelStep, Completed
<1> QED
  BY <1>1, <1>2, <1>3, <1>4, <1>5, RingCases

\* What a handler of the accept does to the ring unless the process ends.
LEMMA AcceptRing ==
  ASSUME ServerInv, up', NEW r, NEW ops, AcceptHandled(r, ops)
  PROVE  /\ RingTypeOK(Operation, Completion) /\ cq # << >> /\ Head(cq).op = Acceptor
         /\ ops \in Seq(Operation) /\ flight' = flight /\ cq' = Tail(cq) /\ sq' = sq \o ops
         /\ OpsAt(ops, {Acceptor}) # {} /\ \A j, k \in OpsAt(ops, {Acceptor}) : j = k
         /\ r \in Fds => /\ r = Res /\ co[r] = "none" /\ co' = [co EXCEPT ![r] = "recv"]
                         /\ OpsAt(ops, Client(r)) = {1} /\ OpsAt(ops, Other(r, "recv")) = {}
                         /\ OpsAt(ops, Timeouts(r)) \subseteq {2}
         /\ r \notin Fds => co' = co
         /\ \A g \in Fds : g # r => OpsAt(ops, Client(g)) = {} /\ OpsAt(ops, Timeouts(g)) = {}
<1>0. Peek("accept") /\ up /\ Seen /\ Prepare(ops)
  BY DEF AcceptHandled, Peek
<1>1. /\ RingOK /\ cq # << >> /\ Head(cq).op = Acceptor
      /\ Res # FAILED => co[Res] = "none"
  BY <1>0, PeekAccept, InvParts
<1>2. FAILED \notin Fds
  BY FdsAssumption DEF FAILED
<1>3. CASE r = Res /\ r \in Fds /\ ops = RecvOps(r) \o <<Acceptor>> /\ co' = [co EXCEPT ![r] = "recv"]
  <2>1. /\ ops \in Seq(Operation)
        /\ OpsAt(ops, {Acceptor}) # {} /\ \A j, k \in OpsAt(ops, {Acceptor}) : j = k
        /\ \A g : OpsAt(ops, Client(g)) = IF g = r THEN {1} ELSE {}
        /\ \A g, kind : g # r \/ kind = "recv" => OpsAt(ops, Other(g, kind)) = {}
        /\ \A g : OpsAt(ops, Timeouts(g)) \subseteq IF g = r THEN {2} ELSE {}
    <3>1. RingOK /\ r \in Fds /\ ops = RecvOps(r) \o <<Acceptor>>
      BY <1>1, <1>3
    <3> HIDE <1>3
    <3> QED
      BY <3>1, AcceptOpsFacts
  <2>2. RingTypeOK(Operation, Completion) /\ flight' = flight /\ cq' = Tail(cq) /\ sq' = sq \o ops
    BY <1>0, <1>1, <2>1, HandlerRing
  <2>3. \A g \in Fds : g # r => OpsAt(ops, Client(g)) = {} /\ OpsAt(ops, Timeouts(g)) = {}
    BY <2>1
  <2>4. OpsAt(ops, Client(r)) = {1} /\ OpsAt(ops, Other(r, "recv")) = {} /\ OpsAt(ops, Timeouts(r)) \subseteq {2}
    BY <2>1
  <2>5. co[r] = "none"
    BY <1>1, <1>2, <1>3
  <2>6. OpsAt(ops, {Acceptor}) # {} /\ \A j, k \in OpsAt(ops, {Acceptor}) : j = k
    BY <2>1
  <2> QED
    BY <1>1, <1>3, <2>1, <2>2, <2>3, <2>4, <2>5, <2>6
<1>4. CASE r = FAILED /\ ops = <<Acceptor>> /\ co' = co
  <2>1. /\ ops \in Seq(Operation)
        /\ OpsAt(ops, {Acceptor}) # {} /\ \A j, k \in OpsAt(ops, {Acceptor}) : j = k
        /\ \A g : OpsAt(ops, Client(g)) = {}
        /\ \A g : OpsAt(ops, Timeouts(g)) = {}
    BY <1>4, AcceptAgainFacts
  <2>2. RingTypeOK(Operation, Completion) /\ flight' = flight /\ cq' = Tail(cq) /\ sq' = sq \o ops
    BY <1>0, <1>1, <2>1, HandlerRing
  <2> QED
    BY <1>1, <1>2, <1>4, <2>1, <2>2
<1> QED
  BY <1>3, <1>4 DEF AcceptHandled

\* What the handler of client f's completion does to the ring.
LEMMA ResumeRing ==
  ASSUME ServerInv, up', NEW f \in Fds, NEW next, Resumed(f, next)
  PROVE  /\ RingTypeOK(Operation, Completion) /\ cq # << >> /\ Head(cq).op \in Client(f)
         /\ flight' = flight /\ cq' = Tail(cq) /\ co' = [co EXCEPT ![f] = next]
         /\ \E ops \in Seq(Operation) :
              /\ sq' = sq \o ops
              /\ \/ next = "none" /\ ops = << >>
                 \/ next \in ClientKinds /\ OpsOf(ops, f, next)
<1>1. up /\ cq # << >> /\ Head(cq).op \in Client(f) /\ Seen /\ co' = [co EXCEPT ![f] = next]
  BY DEF Resumed, Op
<1>2. RingOK /\ RingTypeOK(Operation, Completion) /\ flight' = flight /\ cq' = Tail(cq)
  BY <1>1, InvParts DEF Seen
<1>3. CASE next = "none" /\ UNCHANGED <<up, sq>>
  <2>1. << >> \in Seq(Operation) /\ sq' = sq \o << >>
    BY <1>2, <1>3 DEF RingTypeOK
  <2> QED
    BY <1>1, <1>2, <1>3, <2>1
<1>4. ASSUME NEW ops, OpsOf(ops, f, next), Prepare(ops), next \in ClientKinds
      PROVE  /\ RingTypeOK(Operation, Completion) /\ cq # << >> /\ Head(cq).op \in Client(f)
             /\ flight' = flight /\ cq' = Tail(cq) /\ co' = [co EXCEPT ![f] = next]
             /\ \E o \in Seq(Operation) :
                  /\ sq' = sq \o o
                  /\ \/ next = "none" /\ o = << >>
                     \/ next \in ClientKinds /\ OpsOf(o, f, next)
  <2>1. ops \in Seq(Operation)
    BY <1>4, OpsOfFacts
  <2>2. sq' = sq \o ops
    BY <1>1, <1>2, <1>4, <2>1, HandlerRing
  <2> QED
    BY <1>1, <1>2, <1>4, <2>1, <2>2
<1> QED
  BY <1>3, <1>4 DEF Resumed

\* Every action that leaves the process up keeps one operation of each client pending.
LEMMA NextOnePending == ASSUME ServerInv, MCNext, up' PROVE OnePending'
<1>0. /\ up /\ RingOK /\ OnePending /\ RingTypeOK(Operation, Completion)
      /\ co \in [Fds -> {"none"} \cup ClientKinds]
  BY UpToStep, InvParts DEF RingOK
<1>1. CASE LoopStep
  <2>1. co' = co
    BY <1>1 DEF LoopStep, coroutines
  <2>2. ASSUME NEW M, Once(M) PROVE Once(M)' /\ (Absent(M)' <=> Absent(M))
    <3>1. CASE Submit
      BY <1>0, <2>2, <3>1, SubmitOnce DEF Submit
    <3>2. CASE Wait \/ EndBatch
      BY <2>2, <3>2 DEF Wait, EndBatch, Once, Absent
    <3> QED
      BY <1>1, <3>1, <3>2 DEF LoopStep
  <2> QED
    BY <1>0, <2>1, <2>2, PendingMoves
<1>2. CASE KernelStep
  <2>1. PICK op, res : res \in Int /\ Completed(op, res) /\ co' = co
    BY <1>2 DEF KernelStep
  <2>2. ASSUME NEW M, \A m \in M : m.op # "timeout", Once(M)
        PROVE  Once(M)' /\ (Absent(M)' <=> Absent(M))
    BY <1>0, <2>1, <2>2, CompletedOnce
  <2> QED
    BY <1>0, <2>1, <2>2, PendingMoves
<1>3. CASE TimeoutCqe
  <2>1. Peek("timeout") /\ Seen /\ sq' = sq /\ co' = co
    BY <1>3 DEF TimeoutCqe, coroutines
  <2>2. cq # << >> /\ Head(cq).op.op = "timeout" /\ flight' = flight /\ cq' = Tail(cq)
    BY <1>0, <2>1, PeekFacts DEF Seen, Peek
  <2>3. << >> \in Seq(Operation) /\ sq' = sq \o << >>
    BY <1>0, <2>1 DEF RingTypeOK
  <2>4. ASSUME NEW M, \A m \in M : m.op # "timeout", Once(M)
        PROVE  Once(M)' /\ (Absent(M)' <=> Absent(M))
    <3>1. Head(cq).op \notin M /\ OpsAt(<< >>, M) = {}
      BY <2>2, <2>4, PlacesOfNone
    <3> QED
      BY <1>0, <2>2, <2>3, <2>4, <3>1, SeenOnce
  <2> QED
    BY <1>0, <2>1, <2>4, PendingMoves
<1>4. ASSUME NEW r, NEW ops, AcceptHandled(r, ops) PROVE OnePending'
  <2>1. /\ RingTypeOK(Operation, Completion) /\ cq # << >> /\ Head(cq).op = Acceptor
        /\ ops \in Seq(Operation) /\ flight' = flight /\ cq' = Tail(cq) /\ sq' = sq \o ops
        /\ OpsAt(ops, {Acceptor}) # {} /\ \A j, k \in OpsAt(ops, {Acceptor}) : j = k
        /\ r \in Fds => /\ co[r] = "none" /\ co' = [co EXCEPT ![r] = "recv"]
                        /\ OpsAt(ops, Client(r)) = {1} /\ OpsAt(ops, Other(r, "recv")) = {}
        /\ r \notin Fds => co' = co
        /\ \A g \in Fds : g # r => OpsAt(ops, Client(g)) = {}
    BY <1>4, AcceptRing
  <2> QED
    BY <1>0, <2>1, AcceptOnePending
<1>5. ASSUME NEW f \in Fds, NEW next, Resumed(f, next) PROVE OnePending'
  <2>1. /\ RingTypeOK(Operation, Completion) /\ cq # << >> /\ Head(cq).op \in Client(f)
        /\ flight' = flight /\ cq' = Tail(cq) /\ co' = [co EXCEPT ![f] = next]
    BY <1>5, ResumeRing
  <2>2. PICK ops \in Seq(Operation) :
          /\ sq' = sq \o ops
          /\ \/ next = "none" /\ ops = << >>
             \/ next \in ClientKinds /\ OpsOf(ops, f, next)
    BY <1>5, ResumeRing
  <2> QED
    BY <1>0, <2>1, <2>2, ResumeOnePending
<1> QED
  BY <1>1, <1>2, <1>3, <1>4, <1>5, RingCases

----
\* Where the timeouts of a client are after a handler has prepared ops.
LEMMA TimeoutsKept ==
  ASSUME sq \in Seq(Operation), NEW ops \in Seq(Operation), sq' = sq \o ops, TimeoutsQueued,
         NEW fd \in Fds,
         \/ OpsAt(ops, Timeouts(fd)) = {}
         \/ /\ OpsAt(sq, Client(fd)) = {} /\ OpsAt(ops, Client(fd)) # {}
            /\ OpsAt(ops, Timeouts(fd)) \subseteq {2}
  PROVE  /\ \A j, k \in OpsAt(sq', Timeouts(fd)) : j = k
         /\ OpsAt(sq', Timeouts(fd)) # {} => OpsAt(sq', Client(fd)) # {}
<1>1. PICK T, M : T = Timeouts(fd) /\ M = Client(fd)
  OBVIOUS
<1>2. (\A j, k \in OpsAt(sq, T) : j = k) /\ (OpsAt(sq, T) # {} => OpsAt(sq, M) # {})
  BY <1>1 DEF TimeoutsQueued
<1>3. /\ OpsAt(sq, M) \subseteq OpsAt(sq', M)
      /\ OpsAt(ops, T) = {} => OpsAt(sq', T) = OpsAt(sq, T)
  BY ConcatAt
<1>4. \A k \in OpsAt(sq', T) : k \in OpsAt(sq, T) \/ k - Len(sq) \in OpsAt(ops, T)
  BY ConcatAt
<1>5. \A k \in OpsAt(ops, M) : k + Len(sq) \in OpsAt(sq', M)
  BY ConcatAt
<1>6. Len(sq) \in Nat /\ \A k \in OpsAt(sq', T) : k \in Int
  BY DEF OpsAt
<1>7. CASE OpsAt(ops, T) = {}
  BY <1>1, <1>2, <1>3, <1>7
<1>8. CASE OpsAt(sq, M) = {} /\ OpsAt(ops, M) # {} /\ OpsAt(ops, T) \subseteq {2}
  <2>1. \A k \in OpsAt(sq', T) : k - Len(sq) = 2
    BY <1>2, <1>4, <1>8
  <2>2. \A j, k \in OpsAt(sq', T) : j = k
    BY <1>6, <2>1
  <2>3. OpsAt(sq', M) # {}
    BY <1>5, <1>8
  <2> QED
    BY <1>1, <2>2, <2>3
<1> QED
  BY <1>1, <1>7, <1>8

\* Every action that leaves the process up keeps the timeouts in the queue
\* behind their recv.
LEMMA NextTimeoutsQueued == ASSUME ServerInv, MCNext, up' PROVE TimeoutsQueued'
<1>0. /\ up /\ RingOK /\ OnePending /\ TimeoutsQueued /\ sq \in Seq(Operation)
  BY UpToStep, InvParts DEF RingTypeOK
<1>1. ASSUME sq' = sq PROVE TimeoutsQueued'
  BY <1>0, <1>1 DEF TimeoutsQueued
<1>2. CASE LoopStep
  <2>1. CASE Submit
    <3>1. sq' = << >>
      BY <2>1 DEF Submit
    <3>2. \A fd : OpsAt(sq', Timeouts(fd)) = {}
      BY <3>1, PlacesOfNone
    <3> QED
      BY <3>2 DEF TimeoutsQueued
  <2>2. CASE Wait \/ EndBatch
    BY <1>1, <2>2 DEF Wait, EndBatch
  <2> QED
    BY <1>2, <2>1, <2>2 DEF LoopStep
<1>3. CASE KernelStep
  BY <1>1, <1>3 DEF KernelStep, Completed
<1>4. CASE TimeoutCqe
  BY <1>1, <1>4 DEF TimeoutCqe
<1>5. ASSUME NEW r, NEW ops, AcceptHandled(r, ops) PROVE TimeoutsQueued'
  <2>1. /\ ops \in Seq(Operation) /\ sq' = sq \o ops
        /\ r \in Fds => /\ co[r] = "none" /\ OpsAt(ops, Client(r)) = {1}
                        /\ OpsAt(ops, Timeouts(r)) \subseteq {2}
        /\ \A g \in Fds : g # r => OpsAt(ops, Timeouts(g)) = {}
    BY <1>5, AcceptRing
  <2>2. ASSUME NEW fd \in Fds
        PROVE  /\ \A j, k \in OpsAt(sq', Timeouts(fd)) : j = k
               /\ OpsAt(sq', Timeouts(fd)) # {} => OpsAt(sq', Client(fd)) # {}
    <3>1. \/ OpsAt(ops, Timeouts(fd)) = {}
          \/ /\ OpsAt(sq, Client(fd)) = {} /\ OpsAt(ops, Client(fd)) # {}
             /\ OpsAt(ops, Timeouts(fd)) \subseteq {2}
      BY <1>0, <2>1 DEF OnePending, AwaitsOne, Absent
    <3> QED
      BY <1>0, <2>1, <3>1, TimeoutsKept
  <2> QED
    BY <2>2 DEF TimeoutsQueued
<1>6. ASSUME NEW f \in Fds, NEW next, Resumed(f, next) PROVE TimeoutsQueued'
  <2>1. cq # << >> /\ Head(cq).op \in Client(f) /\ RingTypeOK(Operation, Completion)
    BY <1>6, ResumeRing
  <2>2. PICK ops \in Seq(Operation) :
          /\ sq' = sq \o ops
          /\ \/ next = "none" /\ ops = << >>
             \/ next \in ClientKinds /\ OpsOf(ops, f, next)
    BY <1>6, ResumeRing
  <2>3. OpsAt(sq, Client(f)) = {}
    <3>1. PICK M : M = Client(f) /\ Once(M)
      BY <1>0 DEF OnePending, AwaitsOne
    <3>2. 1 \in DoneAt(cq, M)
      BY <2>1, <3>1, TailAt DEF RingTypeOK
    <3> QED
      BY <3>1, <3>2 DEF Once
  <2>4. ASSUME NEW fd \in Fds
        PROVE  /\ \A j, k \in OpsAt(sq', Timeouts(fd)) : j = k
               /\ OpsAt(sq', Timeouts(fd)) # {} => OpsAt(sq', Client(fd)) # {}
    <3>1. \/ OpsAt(ops, Timeouts(fd)) = {}
          \/ /\ OpsAt(sq, Client(fd)) = {} /\ OpsAt(ops, Client(fd)) # {}
             /\ OpsAt(ops, Timeouts(fd)) \subseteq {2}
      <4>1. CASE ops = << >>
        BY <4>1, PlacesOfNone
      <4>2. CASE OpsOf(ops, f, next)
        <5>1. /\ OpsAt(ops, Client(fd)) = IF fd = f THEN {1} ELSE {}
              /\ OpsAt(ops, Timeouts(fd)) \subseteq IF fd = f THEN {2} ELSE {}
          BY <4>2, OpsOfFacts
        <5> QED
          BY <2>3, <5>1
      <4> QED
        BY <2>2, <4>1, <4>2
    <3> QED
      BY <1>0, <2>2, <3>1, TimeoutsKept
  <2> QED
    BY <2>4 DEF TimeoutsQueued
<1> QED
  BY <1>2, <1>3, <1>4, <1>5, <1>6, RingCases

----
\* The operation of a client that is in flight is what its coroutine awaits.
LEMMA InFlightClient ==
  ASSUME ServerInv, up, NEW fd \in Fds, NEW op \in Client(fd), op \in flight
  PROVE  co[fd] = op.op /\ DoneAt(cq, Client(fd)) = {} /\ OpsAt(sq, Client(fd)) = {} /\ Asked(fd)
<1>1. PICK M, N : M = Client(fd) /\ N = Other(fd, co[fd])
  OBVIOUS
<1>2. Once(M) /\ Absent(N) /\ InPhase(fd)
  BY <1>1, InvParts DEF OnePending, AwaitsOne
<1>3. DoneAt(cq, M) = {} /\ OpsAt(sq, M) = {} /\ op \notin N
  BY <1>1, <1>2 DEF Once, Absent
<1>4. co[fd] = op.op
  BY <1>1, <1>3, OperationKinds
<1> QED
  BY <1>1, <1>2, <1>3, <1>4 DEF InPhase

\* What is known of a new connection is not touched by a step that handles no
\* completion of its own.
Untouched(g) == /\ g \in conns => g \in conns'
                /\ UNCHANGED <<read[g], echoed[g], served[g], file_size[g], ending[g]>>

\* A completion of another operation leaves a new connection as it is.
LEMMA NotYetClientCompleted ==
  ASSUME RingOK, NotYetClient, NEW op, NEW res \in Int, Completed(op, res), co' = co,
         op = Acceptor => res = FAILED,
         \A g \in Fds : co[g] = "none" \/ (co[g] = "close" /\ DoneAt(cq, Client(g)) # {}) => Untouched(g)
  PROVE  NotYetClient'
<1>0. conns \subseteq Fds
  BY DEF RingOK
<1>1. /\ \A k \in 1 .. Len(cq) : k \in 1 .. Len(cq') /\ cq'[k] = cq[k]
      /\ cq'[Len(cq')].res = res
  <2>1. PICK c : c = [op |-> op, res |-> res]
    OBVIOUS
  <2>2. /\ \A k \in 1 .. Len(cq) : k \in 1 .. Len(cq') /\ cq'[k] = cq[k]
        /\ cq'[Len(cq')] = c
    BY <2>1, CompletedQueue
  <2> QED
    BY <2>1, <2>2
<1>2. DoneAt(cq', {Acceptor}) = DoneAt(cq, {Acceptor}) \cup (IF op = Acceptor THEN {Len(cq')} ELSE {})
  <2>1. PICK M : M = {Acceptor}
    OBVIOUS
  <2>2. \A m \in M : m.op # "timeout"
    BY <2>1, NoTimeouts
  <2>3. DoneAt(cq', M) = DoneAt(cq, M) \cup (IF op \in M THEN {Len(cq')} ELSE {})
    BY <2>2, CompletedOnce
  <2> QED
    BY <2>1, <2>3
<1>3. \A g : DoneAt(cq, Client(g)) \subseteq DoneAt(cq', Client(g))
  BY <1>1 DEF DoneAt
<1> SUFFICES ASSUME NEW k \in DoneAt(cq', {Acceptor}), NEW fd, fd = cq'[k].res, fd # FAILED
             PROVE  /\ fd \in conns' /\ read'[fd] = 0 /\ echoed'[fd] = << >>
                    /\ served'[fd] = << >> /\ file_size'[fd] = -1 /\ ending'[fd] = "none"
                    /\ \/ co'[fd] = "none"
                       \/ co'[fd] = "close" /\ \E j \in DoneAt(cq', Client(fd)) : j < k
  BY DEF NotYetClient
<1>4. k \in DoneAt(cq, {Acceptor})
  BY <1>1, <1>2
<1>5. fd = cq[k].res
  BY <1>1, <1>4 DEF DoneAt
<1>6. /\ fd \in conns /\ read[fd] = 0 /\ echoed[fd] = << >>
      /\ served[fd] = << >> /\ file_size[fd] = -1 /\ ending[fd] = "none"
      /\ \/ co[fd] = "none"
         \/ co[fd] = "close" /\ \E j \in DoneAt(cq, Client(fd)) : j < k
  BY <1>4, <1>5 DEF NotYetClient
<1>7. Untouched(fd)
  BY <1>0, <1>6
<1> QED
  BY <1>3, <1>6, <1>7 DEF Untouched

\* A handler of another completion leaves a new connection as it is.
LEMMA NotYetClientSeen ==
  ASSUME cq \in Seq(Completion), cq # << >>, cq' = Tail(cq), NotYetClient, conns \subseteq Fds,
         \A g \in Fds : \/ Head(cq).op \notin Client(g) /\ co'[g] = co[g] /\ Untouched(g)
                        \/ co[g] = "close" /\ co'[g] = "none" /\ Untouched(g)
                        \/ co[g] \notin {"none", "close"}
  PROVE  NotYetClient'
<1>1. \A k \in 1 .. Len(cq') : k + 1 \in 1 .. Len(cq) /\ cq'[k] = cq[k + 1]
  BY TailEntries
<1> SUFFICES ASSUME NEW k \in DoneAt(cq', {Acceptor}), NEW fd, fd = cq'[k].res, fd # FAILED
             PROVE  /\ fd \in conns' /\ read'[fd] = 0 /\ echoed'[fd] = << >>
                    /\ served'[fd] = << >> /\ file_size'[fd] = -1 /\ ending'[fd] = "none"
                    /\ \/ co'[fd] = "none"
                       \/ co'[fd] = "close" /\ \E j \in DoneAt(cq', Client(fd)) : j < k
  BY DEF NotYetClient
<1>2. k \in Nat /\ k + 1 \in DoneAt(cq, {Acceptor}) /\ fd = cq[k + 1].res
  BY <1>1 DEF DoneAt
<1>3. /\ fd \in conns /\ read[fd] = 0 /\ echoed[fd] = << >>
      /\ served[fd] = << >> /\ file_size[fd] = -1 /\ ending[fd] = "none"
      /\ \/ co[fd] = "none"
         \/ co[fd] = "close" /\ \E j \in DoneAt(cq, Client(fd)) : j < k + 1
  BY <1>2 DEF NotYetClient
<1>4. CASE Head(cq).op \notin Client(fd) /\ co'[fd] = co[fd] /\ Untouched(fd)
  <2>1. ASSUME NEW j \in DoneAt(cq, Client(fd)), j < k + 1 PROVE \E i \in DoneAt(cq', Client(fd)) : i < k
    <3>1. j \in Int /\ j # 1 /\ j - 1 \in DoneAt(cq', Client(fd))
      BY <1>4, <2>1, TailAt DEF DoneAt
    <3>2. j - 1 < k
      BY <1>2, <2>1, <3>1
    <3> QED
      BY <3>1, <3>2
  <2> QED
    BY <1>3, <1>4, <2>1 DEF Untouched
<1>5. CASE co[fd] = "close" /\ co'[fd] = "none" /\ Untouched(fd)
  BY <1>3, <1>5 DEF Untouched
<1> QED
  BY <1>3, <1>4, <1>5

\* Every action that leaves the process up keeps what is known of a new
\* connection.
LEMMA NextNotYetClient == ASSUME ServerInv, MCNext, up' PROVE NotYetClient'
<1>0. /\ up /\ RingOK /\ OnePending /\ NotYetClient /\ FilesOK /\ cq \in Seq(Completion)
      /\ conns \subseteq Fds /\ StepCases /\ BytesOK
      /\ co \in [Fds -> {"none"} \cup ClientKinds]
      /\ read \in [Fds -> Nat] /\ echoed \in [Fds -> Seq(Nat)]
  BY UpToStep, InvParts, NextCases DEF RingTypeOK, RingOK, BytesOK
<1> USE DEF coroutines, network, fvars, file
<1>1. CASE LoopStep /\ UNCHANGED fvars
  <2>1. UNCHANGED <<cq, co, conns, read, echoed, served, file_size, ending>>
    BY <1>1 DEF LoopStep, Submit, Wait, EndBatch
  <2> QED
    BY <1>0, <2>1 DEF NotYetClient
<1>2. CASE TimeoutCqe /\ UNCHANGED fvars
  <2>1. UNCHANGED <<co, conns, read, echoed, served, file_size, ending>> /\ cq' = Tail(cq)
    BY <1>2 DEF TimeoutCqe, Seen
  <2>2. cq # << >> /\ Head(cq).op.op = "timeout"
    BY <1>0, <1>2, PeekFacts DEF TimeoutCqe, Peek
  <2>3. \A g \in Fds : Head(cq).op \notin Client(g) /\ co'[g] = co[g] /\ Untouched(g)
    BY <2>1, <2>2, NoTimeouts DEF Untouched
  <2> QED
    BY <1>0, <2>1, <2>2, <2>3, NotYetClientSeen
<1>3. CASE (Accepted \/ NoPipe \/ AcceptFailed) /\ UNCHANGED fvars
  <2>1. Peek("accept") /\ cq' = Tail(cq)
    BY <1>3 DEF Accepted, NoPipe, AcceptFailed, Seen
  <2>2. DoneAt(cq, {Acceptor}) = {1} /\ cq # << >>
    BY <2>1, PeekAccept
  <2>3. DoneAt(cq', {Acceptor}) = {}
    <3>1. PICK M : M = {Acceptor}
      OBVIOUS
    <3>2. \A k \in DoneAt(cq', M) : k \in Nat \ {0} /\ k + 1 \in DoneAt(cq, M)
      BY <1>0, <2>1, <2>2, TailAt
    <3>3. ASSUME NEW k \in DoneAt(cq', M) PROVE FALSE
      <4>1. k \in Nat \ {0} /\ k + 1 = 1
        BY <2>2, <3>1, <3>2
      <4> QED
        BY <4>1
    <3>4. DoneAt(cq', M) = {}
      BY <3>3
    <3> QED
      BY <3>1, <3>4
  <2> QED
    BY <2>3 DEF NotYetClient
<1>4. CASE EchoResumes \/ FileResumes
  <2>f. PICK f \in Fds : \E next : f = Op.fd /\ Resumed(f, next)
    BY <1>4, EchoResumesResumed, FileResumesResumed
  <2>1. PICK next : f = Op.fd /\ Resumed(f, next)
    BY <2>f
  <2>2. /\ cq # << >> /\ Head(cq).op \in Client(f) /\ co[f] = Head(cq).op.op /\ cq' = Tail(cq)
        /\ co' = [co EXCEPT ![f] = next]
        /\ conns \ {f} \subseteq conns' /\ UNCHANGED <<read, echoed>>
    BY <2>1 DEF Resumed, Seen, Op
  <2>3. ASSUME NEW g \in Fds, g # f PROVE Head(cq).op \notin Client(g) /\ co'[g] = co[g] /\ Untouched(g)
    <3>1. Head(cq).op \notin Client(g)
      BY <2>2, <2>3, OperationKinds
    <3>2. SameBytes(g)
      BY <2>1, <2>3 DEF Resumed
    <3>3. co'[g] = co[g]
      BY <1>0, <2>2, <2>3
    <3> QED
      BY <2>2, <2>3, <3>1, <3>2, <3>3 DEF Untouched, SameBytes
  <2>4. CASE co[f] = "close"
    <3>1. next = "none" /\ conns' = conns
      BY <2>1, <2>4 DEF Resumed
    <3>2. UNCHANGED fvars
      <4>1. ~FileResumes
        BY <2>2, <2>4 DEF FileResumes, Request, GivesUp, PartSent, AllSent, ChunkRead, Peek
      <4> QED
        BY <1>4, <4>1 DEF EchoResumes
    <3>3. co'[f] = "none" /\ Untouched(f)
      BY <1>0, <2>2, <3>1, <3>2 DEF Untouched
    <3> QED
      BY <1>0, <2>2, <2>3, <2>4, <3>3, NotYetClientSeen
  <2>5. CASE co[f] # "close"
    <3>1. co[f] \notin {"none", "close"}
      BY <2>2, <2>5, OperationKinds DEF ClientKinds
    <3> QED
      BY <1>0, <2>2, <2>3, <3>1, NotYetClientSeen
  <2> QED
    BY <2>4, <2>5
\* The kernel: a new connection ...
<1>5. ASSUME NEW fd \in Fds, Connects(fd) PROVE NotYetClient'
  <2>1. /\ Completed(Acceptor, fd) /\ fd \notin conns /\ conns' = conns \cup {fd} /\ co' = co
        /\ read' = [read EXCEPT ![fd] = 0] /\ echoed' = [echoed EXCEPT ![fd] = << >>]
    BY <1>5, CompletesCompleted DEF Connects, AcceptCompletes
  <2>2. fd \in Int /\ Acceptor \in flight
    BY <2>1, FdsAssumption DEF Completed
  <2>3. /\ Len(cq) < Len(cq') /\ cq'[Len(cq')].res = fd
        /\ \A k \in 1 .. Len(cq) : k \in 1 .. Len(cq') /\ cq'[k] = cq[k]
    <3>1. PICK c : c = [op |-> Acceptor, res |-> fd]
      OBVIOUS
    <3>2. /\ Len(cq) < Len(cq') /\ cq'[Len(cq')] = c
          /\ \A k \in 1 .. Len(cq) : k \in 1 .. Len(cq') /\ cq'[k] = cq[k]
      BY <1>0, <2>1, <2>2, <3>1, CompletedQueue
    <3> QED
      BY <3>1, <3>2
  <2>4. DoneAt(cq', {Acceptor}) = {Len(cq')}
    <3>1. PICK M : M = {Acceptor}
      OBVIOUS
    <3>2. Once(M) /\ \A m \in M : m.op # "timeout"
      BY <1>0, <3>1, NoTimeouts DEF OnePending
    <3>3. DoneAt(cq, M) = {}
      BY <2>2, <3>1, <3>2 DEF Once
    <3>4. DoneAt(cq', M) = DoneAt(cq, M) \cup {Len(cq')}
      BY <1>0, <2>1, <2>2, <3>1, <3>2, CompletedOnce
    <3> QED
      BY <3>1, <3>3, <3>4
  <2>5. served'[fd] = << >> /\ file_size'[fd] = -1 /\ ending'[fd] = "none"
    BY <1>0, <1>5 DEF Connects, ClientConnects, FilesOK, ReplyOK
  <2>6. read'[fd] = 0 /\ echoed'[fd] = << >> /\ fd \in conns'
    BY <1>0, <2>1
  <2>7. \/ co[fd] = "none"
        \/ co[fd] = "close" /\ \E j \in DoneAt(cq, Client(fd)) : TRUE
    <3>1. InPhase(fd) /\ co[fd] \in {"none", "recv", "send", "read", "close"}
          /\ (Absent(Client(fd)) <=> co[fd] = "none")
      BY <1>0, InvParts DEF OnePending, AwaitsOne, ClientKinds
    <3>2. CASE DoneAt(cq, Client(fd)) = {}
      BY <2>1, <3>1, <3>2 DEF InPhase, Asked
    <3>3. ASSUME NEW j \in DoneAt(cq, Client(fd)) PROVE co[fd] \in {"none", "close"}
      BY <2>1, <3>1, <3>3 DEF InPhase, Answered
    <3> QED
      BY <3>2, <3>3
  <2>8. ASSUME NEW j \in DoneAt(cq, Client(fd)) PROVE j \in DoneAt(cq', Client(fd)) /\ j < Len(cq')
    <3>1. j \in 1 .. Len(cq) /\ Len(cq) \in Nat /\ Len(cq') \in Nat
      BY <1>0, <1>5, <2>1, <2>2, <2>8, CompletedQueue DEF DoneAt
    <3> QED
      BY <2>3, <2>8, <3>1 DEF DoneAt
  <2> QED
    BY <2>1, <2>3, <2>4, <2>5, <2>6, <2>7, <2>8 DEF NotYetClient
\* ... and the completions of the others.
<1>6. ASSUME NEW fd \in Fds, NEW op \in Client(fd), NEW res \in Int, Completed(op, res), co' = co,
             co[fd] = op.op /\ DoneAt(cq, Client(fd)) = {} => \A g \in Fds \ {fd} : Untouched(g)
      PROVE  NotYetClient'
  <2>1. co[fd] = op.op /\ DoneAt(cq, Client(fd)) = {} /\ op # Acceptor /\ op.op \in ClientKinds
    BY <1>0, <1>6, InFlightClient, OperationKinds DEF Completed
  <2>2. ASSUME NEW g \in Fds, co[g] = "none" \/ (co[g] = "close" /\ DoneAt(cq, Client(g)) # {})
        PROVE  Untouched(g)
    BY <1>6, <2>1, <2>2 DEF ClientKinds
  <2> QED
    BY <1>0, <1>6, <2>1, <2>2, NotYetClientCompleted
<1>7. ASSUME NEW fd \in Fds, CloseCompletes(fd), UNCHANGED fvars PROVE NotYetClient'
  <2>1. Completed(CloseSlot(fd), 0) /\ CloseSlot(fd) \in Client(fd)
    BY <1>7, CompletesCompleted, TaggedKinds DEF CloseCompletes
  <2>2. co' = co /\ \A g \in Fds \ {fd} : Untouched(g)
    BY <1>7 DEF CloseCompletes, Untouched
  <2> QED
    BY <1>6, <2>1, <2>2
<1>8. ASSUME NEW fd \in Fds, NEW n \in 1 .. BufSize, RecvCompletes(fd, n), UNCHANGED fvars PROVE NotYetClient'
  <2>1. n \in Int
    BY BufAssumption
  <2>2. PICK op \in Client(fd) : Completed(op, n)
    BY <1>0, <1>8, <2>1, RecvEndsCompletes DEF RecvCompletes
  <2>3. co' = co /\ \A g \in Fds \ {fd} : Untouched(g)
    BY <1>0, <1>8 DEF RecvCompletes, Untouched
  <2> QED
    BY <1>6, <2>1, <2>2, <2>3
<1>9. ASSUME NEW fd \in Fds, NEW n \in 1 .. BufSize,
             (SendCompletes(fd, n) /\ UNCHANGED fvars) \/ ReplyCompletes(fd, n) PROVE NotYetClient'
  <2>1. n \in Int
    BY BufAssumption
  <2>2. Completed(Send(fd), n) /\ Send(fd) \in Client(fd)
    BY <1>9, CompletesCompleted, TaggedKinds DEF SendCompletes, ReplyCompletes
  <2>3. served \in [Fds -> Seq(Nat)]
    BY <1>0 DEF FilesOK
  <2>4. co' = co /\ \A g \in Fds \ {fd} : Untouched(g)
    BY <1>0, <1>9, <2>3 DEF SendCompletes, ReplyCompletes, Untouched
  <2> QED
    BY <1>6, <2>1, <2>2, <2>4
<1>10. ASSUME NEW fd \in Fds, NEW n \in 0 .. BufSize, ReadCompletes(fd, n) PROVE NotYetClient'
  <2>1. n \in Int
    BY BufAssumption
  <2>2. Completed(Read(fd), n) /\ Read(fd) \in Client(fd)
    BY <1>10, CompletesCompleted, TaggedKinds DEF ReadCompletes
  <2>3. co' = co /\ \A g \in Fds \ {fd} : Untouched(g)
    BY <1>10 DEF ReadCompletes, Untouched
  <2> QED
    BY <1>6, <2>1, <2>2, <2>3
<1>11. ASSUME NEW op, NEW res, Failed(op, res) PROVE NotYetClient'
  <2>1. Completed(op, res) /\ res \in Int /\ co' = co /\ (op = Acceptor => res = FAILED)
    BY <1>11 DEF Failed
  <2>2. \A g \in Fds : Untouched(g)
    BY <1>11 DEF Failed, Untouched
  <2> QED
    BY <1>0, <2>1, <2>2, NotYetClientCompleted
<1> QED
  BY <1>0, <1>1, <1>2, <1>3, <1>4, <1>5, <1>7, <1>8, <1>9, <1>10, <1>11 DEF StepCases

----
\* A part of the buffer.
LEMMA SubSeqFacts ==
  ASSUME NEW s \in Seq(Nat), NEW a \in Nat, NEW n \in Nat \ {0}, a + n <= Len(s)
  PROVE  /\ SubSeq(s, a + 1, a + n) \in Seq(Nat) /\ Len(SubSeq(s, a + 1, a + n)) = n
         /\ \A k \in 1 .. n : SubSeq(s, a + 1, a + n)[k] = s[a + k]
<1>1. PICK m \in Int, p \in Int : m = a + 1 /\ p = a + n
  OBVIOUS
<1>2. \A k \in m .. p : s[k] \in Nat
  BY <1>1
<1>3. SubSeq(s, m, p) \in Seq(Nat)
  BY <1>2, SubSeqProperties
<1>4. Len(SubSeq(s, m, p)) = n
  BY <1>1
<1>5. \A k \in 1 .. n : SubSeq(s, m, p)[k] = s[a + k]
  BY <1>1
<1> QED
  BY <1>1, <1>3, <1>4, <1>5

\* One sequence after another.
LEMMA ConcatFacts ==
  ASSUME NEW s \in Seq(Nat), NEW t \in Seq(Nat)
  PROVE  /\ s \o t \in Seq(Nat) /\ Len(s \o t) = Len(s) + Len(t)
         /\ \A k \in 1 .. Len(s) : (s \o t)[k] = s[k]
         /\ \A k \in 1 .. Len(t) : (s \o t)[Len(s) + k] = t[k]
OBVIOUS

\* The variables of the clients and the connections have these types.
LEMMA Types ==
  ASSUME ServerInv
  PROVE  /\ co \in [Fds -> {"none"} \cup ClientKinds] /\ conns \subseteq Fds
         /\ buf \in [Fds -> Seq(Nat)] /\ sent \in [Fds -> Nat]
         /\ read \in [Fds -> Nat] /\ echoed \in [Fds -> Seq(Nat)]
         /\ file_fds \subseteq Fds /\ file_size \in [Fds -> Nat \cup {-1}]
         /\ file_offset \in [Fds -> Nat] /\ served \in [Fds -> Seq(Nat)]
         /\ ending \in [Fds -> {"none", "done", "cut"}]
         /\ \A fd \in Fds : /\ Len(buf[fd]) \in Nat /\ sent[fd] \in Nat /\ read[fd] \in Nat
                            /\ Len(echoed[fd]) \in Nat /\ Len(served[fd]) \in Nat
                            /\ file_offset[fd] \in Nat /\ file_size[fd] \in Nat \cup {-1}
                            /\ buf[fd] \in Seq(Nat) /\ served[fd] \in Seq(Nat) /\ echoed[fd] \in Seq(Nat)
                            /\ Len(buf[fd]) <= BufSize /\ sent[fd] <= BufSize /\ read[fd] <= MaxBytes
                            /\ ReplyOK(fd)
         /\ BufSize \in Nat \ {0} /\ MaxBytes \in Nat
<1>1. RingOK /\ BytesOK /\ FilesOK
  BY DEF ServerInv
<1>2. /\ co \in [Fds -> {"none"} \cup ClientKinds] /\ conns \subseteq Fds
      /\ buf \in [Fds -> Seq(Nat)] /\ sent \in [Fds -> Nat]
      /\ read \in [Fds -> Nat] /\ echoed \in [Fds -> Seq(Nat)]
      /\ file_fds \subseteq Fds /\ file_size \in [Fds -> Nat \cup {-1}]
      /\ file_offset \in [Fds -> Nat] /\ served \in [Fds -> Seq(Nat)]
      /\ ending \in [Fds -> {"none", "done", "cut"}]
  BY <1>1 DEF RingOK, BytesOK, FilesOK
<1>3. \A fd \in Fds : /\ Len(buf[fd]) <= BufSize /\ sent[fd] <= BufSize /\ read[fd] <= MaxBytes
                      /\ ReplyOK(fd)
  BY <1>1 DEF BytesOK, FilesOK
<1>4. \A fd \in Fds : /\ buf[fd] \in Seq(Nat) /\ served[fd] \in Seq(Nat) /\ echoed[fd] \in Seq(Nat)
                      /\ sent[fd] \in Nat /\ read[fd] \in Nat
                      /\ file_offset[fd] \in Nat /\ file_size[fd] \in Nat \cup {-1}
  BY <1>2
<1>5. \A fd \in Fds : Len(buf[fd]) \in Nat /\ Len(served[fd]) \in Nat /\ Len(echoed[fd]) \in Nat
  BY <1>4
<1> QED
  BY <1>2, <1>3, <1>4, <1>5, BufAssumption, BoundAssumption

\* The reply of a client is right after a step that touches nothing of it but
\* what its coroutine awaits, and not even that when it is closed or has a file.
LEMMA ReplyKept ==
  ASSUME NEW g, ReplyOK(g), variant' = variant,
         UNCHANGED <<served[g], file_size[g], ending[g]>>, g \in file_fds' <=> g \in file_fds,
         co'[g] = co[g] \/ (ending[g] = "none" /\ g \notin file_fds)
  PROVE  ReplyOK(g)'
BY DEF ReplyOK, ReplyLen

\* What a handler of the echo servers leaves.
LEMMA EchoResumesFacts ==
  ASSUME ServerInv, EchoResumes, NEW f \in Fds, f = Op.fd
  PROVE  BytesOK' /\ FilesOK' /\ Asked(f)'
<1>0. /\ variant # "files" /\ variant' = variant /\ UNCHANGED fvars
      /\ FilesOK /\ BytesOK
  BY DEF EchoResumes, RecvResumes, SendResumes, Closes, StartsClosing, SlotClosed, coroutines, ServerInv
<1>t. co \in [Fds -> {"none"} \cup ClientKinds] /\ sent \in [Fds -> Nat]
  BY Types
<1>n. PICK lb \in Nat, s \in Nat, r \in Nat, le \in Nat, B \in Nat :
        lb = Len(buf[f]) /\ s = sent[f] /\ r = read[f] /\ le = Len(echoed[f]) /\ B = BufSize /\ lb <= B
  BY Types
<1>k. "recv" \in ClientKinds /\ "send" \in ClientKinds /\ "close" \in ClientKinds
  BY DEF ClientKinds
<1>1. FilesOK'
  <2>1. UNCHANGED <<file_fds, file_size, file_offset, served, ending>>
    BY <1>0 DEF fvars, file
  <2>2. ASSUME NEW g \in Fds PROVE ReplyOK(g)'
    BY <1>0, <2>1 DEF FilesOK, ReplyOK, ReplyLen
  <2> QED
    BY <1>0, <2>1, <2>2 DEF FilesOK
<1>2. ASSUME UNCHANGED <<buf, read, echoed>>, UNCHANGED sent \/ \E n \in Nat : n <= BufSize /\ sent' = [sent EXCEPT ![f] = n]
      PROVE  BytesOK'
  <2>1. sent' \in [Fds -> Nat] /\ \A g \in Fds : sent'[g] <= BufSize
    BY <1>0, <1>2, <1>t DEF BytesOK
  <2> QED
    BY <1>0, <1>2, <2>1 DEF BytesOK
<1>3. CASE RecvResumes
  <2>1. co[f] = "recv" /\ Answered(f, Res) /\ Res > 0
    BY <1>3, <1>k, PeekClient DEF RecvResumes
  <2>2. /\ co' = [co EXCEPT ![f] = "send"] /\ sent' = [sent EXCEPT ![f] = 0]
        /\ UNCHANGED <<buf, conns, read, echoed>>
    BY <1>3 DEF RecvResumes, network
  <2>3. f \in conns /\ Numbered(f) /\ Len(echoed[f]) + Len(buf[f]) = read[f]
    BY <1>0, <2>1 DEF Answered
  <2>4. co'[f] = "send" /\ sent'[f] = 0
    BY <1>t, <2>2
  <2>5. Numbered(f)' /\ Len(echoed'[f]) + Len(buf'[f]) = read'[f] + sent'[f]
    <3>1. Numbered(f)'
      BY <2>2, <2>3 DEF Numbered
    <3>2. Len(echoed[f]) + Len(buf[f]) = read[f] + 0
      <4>1. le + lb = r
        BY <1>n, <2>3
      <4>2. le + lb = r + 0
        BY <4>1
      <4> QED
        BY <1>n, <4>2
    <3> QED
      BY <2>2, <2>4, <3>1, <3>2
  <2>6. Asked(f)'
    BY <1>0, <2>2, <2>3, <2>4, <2>5 DEF Asked
  <2>7. BytesOK'
    <3>1. 0 \in Nat /\ 0 <= BufSize
      BY <1>n
    <3> QED
      BY <1>2, <2>2, <3>1
  <2> QED
    BY <1>1, <2>6, <2>7
<1>4. CASE SendResumes
  <2>1. co[f] = "send" /\ Answered(f, Res) /\ Res > 0 /\ Res \in Int
    BY <1>4, <1>k, PeekClient DEF SendResumes
  <2>2. /\ sent' = [sent EXCEPT ![f] = sent[f] + Res]
        /\ UNCHANGED <<buf, conns, read, echoed>>
    BY <1>4 DEF SendResumes, network
  <2>3. PICK n \in Nat : n = sent[f] + Res
    BY <1>n, <2>1
  <2>4. /\ f \in conns /\ Numbered(f) /\ n <= Len(buf[f])
        /\ Len(echoed[f]) + Len(buf[f]) = read[f] + n
    <3>1. /\ f \in conns /\ Numbered(f) /\ sent[f] + Res <= Len(buf[f])
          /\ Len(echoed[f]) + Len(buf[f]) = read[f] + sent[f] + Res
      BY <1>0, <2>1 DEF Answered
    <3> QED
      <4>1. PICK res \in Int : res = Res
        BY <2>1
      <4>2. s + res <= lb /\ le + lb = r + s + res /\ n = s + res
        BY <1>n, <2>3, <3>1, <4>1
      <4>3. n <= lb /\ le + lb = r + n
        BY <4>2
      <4> QED
        BY <1>n, <3>1, <4>3
  <2>5. sent'[f] = n
    BY <1>t, <2>2, <2>3
  <2>6. co' = [co EXCEPT ![f] = IF n < Len(buf[f]) THEN "send" ELSE "recv"]
    BY <1>4, <2>5 DEF SendResumes
  <2>7. co'[f] = IF n < Len(buf[f]) THEN "send" ELSE "recv"
    BY <1>t, <2>6
  <2>8. Numbered(f)' /\ Len(echoed'[f]) + Len(buf'[f]) = read'[f] + sent'[f]
    BY <2>2, <2>4, <2>5 DEF Numbered
  <2>9. ~(n < Len(buf[f])) => Len(echoed'[f]) = read'[f]
    <3>1. n <= lb /\ le + lb = r + n
      BY <1>n, <2>4
    <3>2. ~(n < lb) => le = r
      BY <3>1
    <3> QED
      BY <1>n, <2>2, <3>2
  <2>10. Asked(f)'
    BY <1>0, <2>2, <2>4, <2>7, <2>8, <2>9 DEF Asked
  <2>11. BytesOK'
    <3>1. n <= BufSize /\ sent' = [sent EXCEPT ![f] = n]
      BY <1>n, <2>2, <2>3, <2>4
    <3> QED
      BY <1>2, <2>2, <3>1
  <2> QED
    BY <1>1, <2>10, <2>11
<1>5. CASE Closes
  <2>1. co'[f] = "none" /\ UNCHANGED <<buf, sent, read, echoed>>
    BY <1>5, <1>t DEF Closes
  <2>2. Asked(f)'
    BY <1>0, <2>1 DEF Asked
  <2> QED
    BY <1>1, <1>2, <2>1, <2>2
<1>6. CASE StartsClosing
  <2>1. co[f] \in {"recv", "send"} /\ Answered(f, Res)
    BY <1>6, <1>k, PeekClient DEF StartsClosing
  <2>2. co'[f] = "close" /\ UNCHANGED <<buf, sent, conns, read, echoed>>
    BY <1>6, <1>t DEF StartsClosing, network
  <2>3. f \in conns'
    BY <2>1, <2>2 DEF Answered
  <2>4. Asked(f)'
    BY <1>0, <2>2, <2>3 DEF Asked
  <2> QED
    BY <1>1, <1>2, <2>2, <2>4
<1>7. CASE SlotClosed
  <2>1. co'[f] = "none" /\ UNCHANGED <<buf, sent, read, echoed>>
    BY <1>7, <1>t DEF SlotClosed, network
  <2>2. Asked(f)'
    BY <1>0, <2>1 DEF Asked
  <2> QED
    BY <1>1, <1>2, <2>1, <2>2
<1> QED
  BY <1>3, <1>4, <1>5, <1>6, <1>7 DEF EchoResumes

\* The header is shorter than the buffer, and no chunk looks like it.
LEMMA HeaderFacts ==
  ASSUME ServerInv, variant = "files"
  PROVE  /\ Header \in Seq(Nat) /\ Len(Header) = 2 /\ Header[1] = 0 /\ Header[2] = 0
         /\ Len(Header) <= BufSize
<1>1. "files" \in Variants
  BY DEF ServerInv, RingOK
<1>2. Len(Header) <= BufSize
  BY <1>1, HeaderAssumption
<1> QED
  BY <1>2 DEF Header

\* The bytes of the reply are right when its coroutine goes on: the part that has
\* come to the client is not touched.
LEMMA FilesResumed ==
  ASSUME ServerInv, NEW f \in Fds, ReplyOK(f)', variant' = variant,
         NEW next, co' = [co EXCEPT ![f] = next],
         UNCHANGED served,
         file_fds' \subseteq file_fds \cup {f},
         UNCHANGED file_size \/ \E x \in Nat \cup {-1} : file_size' = [file_size EXCEPT ![f] = x],
         UNCHANGED file_offset \/ \E x \in Nat : file_offset' = [file_offset EXCEPT ![f] = x],
         UNCHANGED ending \/ \E x \in {"none", "done", "cut"} : ending' = [ending EXCEPT ![f] = x],
         \A g \in Fds \ {f} : g \in file_fds' <=> g \in file_fds
  PROVE  FilesOK'
<1>t. /\ co \in [Fds -> {"none"} \cup ClientKinds]
      /\ file_fds \subseteq Fds /\ file_size \in [Fds -> Nat \cup {-1}]
      /\ file_offset \in [Fds -> Nat] /\ served \in [Fds -> Seq(Nat)]
      /\ ending \in [Fds -> {"none", "done", "cut"}]
      /\ \A g \in Fds : ReplyOK(g)
  BY Types
<1>1. file_size' \in [Fds -> Nat \cup {-1}] /\ \A g \in Fds \ {f} : file_size'[g] = file_size[g]
  BY <1>t
<1>2. file_offset' \in [Fds -> Nat]
  BY <1>t
<1>3. ending' \in [Fds -> {"none", "done", "cut"}] /\ \A g \in Fds \ {f} : ending'[g] = ending[g]
  BY <1>t
<1>4. file_fds' \subseteq Fds
  BY <1>t
<1>5. ASSUME NEW g \in Fds PROVE ReplyOK(g)'
  <2>1. CASE g = f
    BY <2>1
  <2>2. CASE g # f
    <3>1. /\ ReplyOK(g) /\ UNCHANGED <<served[g], file_size[g], ending[g]>>
          /\ g \in file_fds' <=> g \in file_fds
          /\ co'[g] = co[g]
      BY <1>1, <1>3, <1>t, <2>2
    <3> QED
      BY <3>1, ReplyKept
  <2> QED
    BY <2>1, <2>2
<1> QED
  BY <1>1, <1>2, <1>3, <1>4, <1>5, <1>t DEF FilesOK

\* So are the buffers.
LEMMA BytesResumed ==
  ASSUME ServerInv, NEW f \in Fds, UNCHANGED <<read, echoed>>,
         UNCHANGED buf \/ \E x \in Seq(Nat) : Len(x) <= BufSize /\ buf' = [buf EXCEPT ![f] = x],
         UNCHANGED sent \/ \E x \in Nat : x <= BufSize /\ sent' = [sent EXCEPT ![f] = x]
  PROVE  BytesOK'
<1>t. BytesOK
  BY DEF ServerInv
<1>1. buf' \in [Fds -> Seq(Nat)] /\ \A g \in Fds : Len(buf'[g]) <= BufSize
  BY <1>t DEF BytesOK
<1>2. sent' \in [Fds -> Nat] /\ \A g \in Fds : sent'[g] <= BufSize
  BY <1>t DEF BytesOK
<1> QED
  BY <1>1, <1>2, <1>t DEF BytesOK

\* What the handler of a request leaves.
LEMMA RequestFacts ==
  ASSUME ServerInv, variant = "files", Request, NEW f \in Fds, f = Op.fd
  PROVE  BytesOK' /\ FilesOK' /\ Asked(f)'
<1>k. "recv" \in ClientKinds
  BY DEF ClientKinds
<1>t. /\ co \in [Fds -> {"none"} \cup ClientKinds]
      /\ buf \in [Fds -> Seq(Nat)] /\ sent \in [Fds -> Nat]
      /\ file_size \in [Fds -> Nat \cup {-1}] /\ file_offset \in [Fds -> Nat]
      /\ BufSize \in Nat /\ FileSizes \subseteq Nat
      /\ ReplyOK(f) /\ file_fds \subseteq Fds
  BY Types, FileSizesAssumption
<1>1. co[f] = "recv" /\ Answered(f, Res) /\ Res > 0
  BY <1>k, PeekClient DEF Request
<1>2. /\ f \in conns /\ served[f] = << >> /\ file_size[f] = -1 /\ f \notin file_fds /\ ending[f] = "none"
  BY <1>1, <1>t DEF Answered, ReplyOK
<1>3. /\ co' = [co EXCEPT ![f] = "send"]
      /\ UNCHANGED <<variant, conns, read, echoed, served, ending>>
      /\ buf' = [buf EXCEPT ![f] = Header] /\ sent' = [sent EXCEPT ![f] = 0]
  BY DEF Request, Answers, network
<1>4. \/ UNCHANGED <<file_fds, file_size, file_offset>>
      \/ \E size \in Nat : /\ file_fds' = file_fds \cup {f} /\ file_size' = [file_size EXCEPT ![f] = size]
                           /\ file_offset' = [file_offset EXCEPT ![f] = 0]
  BY <1>t DEF Request, file
<1>5. co'[f] = "send" /\ buf'[f] = Header /\ sent'[f] = 0
  BY <1>3, <1>t
<1>6. \/ file_size'[f] = -1 /\ f \notin file_fds'
      \/ file_size'[f] \in Nat /\ f \in file_fds' /\ file_offset'[f] = 0
  BY <1>2, <1>4, <1>t
<1>7. BytesOK'
  <2>1. 0 \in Nat /\ 0 <= BufSize
    BY <1>t
  <2> QED
    BY <1>3, <2>1, HeaderFacts, BytesResumed
<1>8. ReplyOK(f)'
  <2>1. served'[f] = << >> /\ ending'[f] = "none" /\ variant' = "files"
    BY <1>2, <1>3
  <2>2. ReplyLen(f)' \in Nat
    BY <1>6 DEF ReplyLen
  <2>3. Len(served'[f]) = 0 /\ \A k \in 1 .. Len(served'[f]) : FALSE
    BY <2>1
  <2>4. Len(served'[f]) <= ReplyLen(f)'
    BY <2>2, <2>3
  <2> QED
    BY <1>5, <2>1, <2>3, <2>4 DEF ReplyOK
<1>9. FilesOK'
  <2>1. file_fds' \subseteq file_fds \cup {f} /\ \A g \in Fds \ {f} : g \in file_fds' <=> g \in file_fds
    BY <1>4
  <2>2. UNCHANGED file_size \/ \E x \in Nat \cup {-1} : file_size' = [file_size EXCEPT ![f] = x]
    BY <1>4
  <2>3. UNCHANGED file_offset \/ \E x \in Nat : file_offset' = [file_offset EXCEPT ![f] = x]
    BY <1>4
  <2> QED
    BY <1>3, <1>8, <2>1, <2>2, <2>3, FilesResumed
<1>10. Asked(f)'
  <2>1. 0 <= Len(buf'[f]) /\ Len(served'[f]) = 0
    BY <1>2, <1>3, <1>5, HeaderFacts
  <2>2. Replying(f, 0)'
    BY <1>5, <1>6, <2>1 DEF Replying
  <2> QED
    BY <1>2, <1>3, <1>5, <2>2 DEF Asked
<1> QED
  BY <1>7, <1>9, <1>10

\* What a handler leaves that closes the client.
LEMMA EndClientFacts ==
  ASSUME ServerInv, variant = "files", NEW f \in Fds, f = Op.fd, NEW how \in {"done", "cut"}, EndClient(how),
         how = "done" => Len(served[f]) = ReplyLen(f),
         UNCHANGED sent \/ \E x \in Nat : x <= BufSize /\ sent' = [sent EXCEPT ![f] = x],
         UNCHANGED file_offset \/ \E x \in Nat : file_offset' = [file_offset EXCEPT ![f] = x]
  PROVE  BytesOK' /\ FilesOK' /\ Asked(f)'
<1>t. /\ co \in [Fds -> {"none"} \cup ClientKinds] /\ ending \in [Fds -> {"none", "done", "cut"}]
      /\ ReplyOK(f)
  BY Types
<1>1. /\ co' = [co EXCEPT ![f] = "none"] /\ file_fds' = file_fds \ {f}
      /\ ending' = [ending EXCEPT ![f] = how]
      /\ UNCHANGED <<variant, buf, read, echoed, file_size, served>>
  BY DEF EndClient
<1>2. co'[f] = "none" /\ ending'[f] = how /\ f \notin file_fds'
  BY <1>1, <1>t
<1>3. ReplyOK(f)'
  BY <1>1, <1>2, <1>t DEF ReplyOK, ReplyLen
<1>4. FilesOK'
  BY <1>1, <1>3, FilesResumed
<1>5. BytesOK'
  BY <1>1, BytesResumed
<1>6. Asked(f)'
  BY <1>1, <1>2 DEF Asked
<1> QED
  BY <1>4, <1>5, <1>6

\* What the handler of a read leaves.
LEMMA ChunkReadFacts ==
  ASSUME ServerInv, variant = "files", ChunkRead, NEW f \in Fds, f = Op.fd
  PROVE  BytesOK' /\ FilesOK' /\ Asked(f)'
<1>k. "read" \in ClientKinds
  BY DEF ClientKinds
<1>t. /\ co \in [Fds -> {"none"} \cup ClientKinds]
      /\ buf \in [Fds -> Seq(Nat)] /\ sent \in [Fds -> Nat]
      /\ file_offset \in [Fds -> Nat]
      /\ BufSize \in Nat /\ ReplyOK(f)
  BY Types
<1>1. co[f] = "read" /\ Answered(f, Res) /\ Res > 0
  BY <1>k, PeekClient DEF ChunkRead
<1>2. /\ f \in conns /\ f \in file_fds /\ Len(served[f]) = 2 + file_offset[f]
      /\ Len(buf[f]) > 0 /\ file_offset[f] + Len(buf[f]) <= file_size[f]
      /\ \A k \in 1 .. Len(buf[f]) : buf[f][k] = file_offset[f] + k
  BY <1>1 DEF Answered
<1>3. /\ co' = [co EXCEPT ![f] = "send"] /\ sent' = [sent EXCEPT ![f] = 0]
      /\ UNCHANGED <<variant, conns, read, echoed, file_fds, file_size, file_offset, served, ending>>
      /\ buf' = [buf EXCEPT ![f] = buf[f]]
  BY DEF ChunkRead, Answers, network, fvars, file
<1>4. co'[f] = "send" /\ buf' = buf /\ sent'[f] = 0
  BY <1>3, <1>t
<1>5. BytesOK'
  <2>1. 0 \in Nat /\ 0 <= BufSize
    BY <1>t
  <2> QED
    BY <1>3, <1>4, <2>1, BytesResumed
<1>6. ReplyOK(f)'
  BY <1>1, <1>3, <1>4, <1>t DEF ReplyOK, ReplyLen
<1>7. FilesOK'
  BY <1>3, <1>6, FilesResumed
<1>8. Asked(f)'
  <2>1. buf[f] # Header
    <3>1. PICK b \in Seq(Nat), o \in Nat : b = buf[f] /\ o = file_offset[f]
      BY <1>t
    <3>2. Len(b) \in Nat /\ Len(b) > 0 /\ \A k \in 1 .. Len(b) : b[k] = o + k
      <4>1. \A k \in 1 .. Len(b) : b[k] = o + k
        BY <1>2, <3>1
      <4>2. Len(b) > 0
        BY <1>2, <3>1
      <4> QED
        BY <3>1, <4>1, <4>2
    <3>3. 1 \in 1 .. Len(b)
      BY <3>2
    <3>4. b[1] = o + 1
      BY <3>2, <3>3
    <3>5. b[1] # 0
      BY <3>1, <3>4
    <3> QED
      BY <3>1, <3>5, HeaderFacts
  <2>2. 0 <= Len(buf[f]) /\ Len(served[f]) = 2 + file_offset[f] + 0
    BY <1>2, <1>t
  <2>3. Replying(f, 0)'
    BY <1>2, <1>3, <1>4, <2>1, <2>2 DEF Replying
  <2> QED
    BY <1>2, <1>3, <1>4, <2>3 DEF Asked
<1> QED
  BY <1>5, <1>7, <1>8

\* What the handlers of a send leave.
LEMMA SentFacts ==
  ASSUME ServerInv, variant = "files", PartSent \/ AllSent, NEW f \in Fds, f = Op.fd
  PROVE  BytesOK' /\ FilesOK' /\ Asked(f)'
<1>k. "send" \in ClientKinds
  BY DEF ClientKinds
<1>t. /\ co \in [Fds -> {"none"} \cup ClientKinds] /\ sent \in [Fds -> Nat]
      /\ file_offset \in [Fds -> Nat] /\ ReplyOK(f)
  BY Types
<1>1. co[f] = "send" /\ Answered(f, Res) /\ Res > 0 /\ Res \in Int
  BY <1>k, PeekClient DEF PartSent, AllSent
<1>n. PICK n \in Nat, lb \in Nat, o \in Nat, ls \in Nat, B \in Nat, s \in Nat :
        /\ n = sent[f] + Res /\ lb = Len(buf[f]) /\ o = file_offset[f] /\ ls = Len(served[f]) /\ B = BufSize
        /\ lb <= B /\ s = sent[f]
  <2>1. PICK s \in Nat, lb \in Nat, o \in Nat, ls \in Nat, B \in Nat :
        /\ lb = Len(buf[f]) /\ o = file_offset[f] /\ ls = Len(served[f]) /\ B = BufSize
        /\ lb <= B /\ s = sent[f]
    BY Types
  <2>2. PICK n \in Nat : n = sent[f] + Res
    BY <1>1, <2>1
  <2> QED
    BY <2>1, <2>2
<1>2. f \in conns /\ n <= lb /\ Replying(f, n)
  BY <1>1, <1>n DEF Answered
<1>3. sent' = [sent EXCEPT ![f] = n] /\ sent'[f] = n /\ n <= BufSize
  <2>1. sent' = [sent EXCEPT ![f] = n]
    BY <1>n DEF PartSent, AllSent
  <2>2. n <= BufSize
    BY <1>2, <1>n
  <2> QED
    BY <1>t, <2>1, <2>2
<1>4. CASE PartSent
  <2>1. UNCHANGED <<variant, co, buf, conns, read, echoed, file_fds, file_size, file_offset, served, ending>>
    BY <1>4 DEF PartSent, network, fvars, file
  <2>2. BytesOK'
    BY <1>3, <2>1, BytesResumed
  <2>3. FilesOK'
    <3>1. ReplyOK(f)'
      BY <1>t, <2>1 DEF ReplyOK, ReplyLen
    <3>2. co' = [co EXCEPT ![f] = "send"]
      BY <1>1, <1>t, <2>1
    <3> QED
      BY <2>1, <3>1, <3>2, FilesResumed
  <2>4. Replying(f, n)'
    BY <1>2, <2>1 DEF Replying
  <2>5. Asked(f)'
    <3>1. co'[f] = "send" /\ f \in conns' /\ variant' = "files"
      BY <1>1, <1>2, <2>1
    <3>2. Replying(f, sent[f])'
      BY <1>3, <2>4 DEF Replying
    <3> QED
      BY <3>1, <3>2 DEF Asked
  <2> QED
    BY <2>2, <2>3, <2>5
<1>5. CASE AllSent
  <2>1. n = lb
    BY <1>5, <1>n DEF AllSent
  <2>2. PICK m \in Nat : m = IF buf[f] = Header THEN o ELSE o + lb
    <3>1. o + lb \in Nat
      BY <1>n
    <3> QED
      BY <1>n, <3>1
  <2>3. file_offset' = [file_offset EXCEPT ![f] = m] /\ file_offset'[f] = m
    <3>1. file_offset' = [file_offset EXCEPT ![f] = m]
      BY <1>5, <1>n, <2>2 DEF AllSent
    <3> QED
      BY <1>t, <3>1
  \* All that there is up to the new offset has come to the client.
  <2>4. /\ f \in file_fds => ls = 2 + m /\ file_size[f] \in Nat /\ m <= file_size[f]
        /\ f \notin file_fds => ls = 2 /\ file_size[f] = -1
    <3>0. file_size[f] \in Nat \cup {-1} /\ Len(Header) = 2
      BY Types, HeaderFacts
    <3>1. CASE buf[f] = Header
      <4>1. ls = 2 /\ m = o
        BY <1>2, <1>n, <2>1, <2>2, <3>0, <3>1 DEF Replying
      <4>2. /\ f \in file_fds => o = 0 /\ file_size[f] >= 0
            /\ f \notin file_fds => file_size[f] = -1
        BY <1>2, <1>n, <3>1 DEF Replying
      <4>3. f \in file_fds => ls = 2 + m
        BY <4>1, <4>2
      <4>4. f \in file_fds => file_size[f] \in Nat /\ m <= file_size[f]
        BY <3>0, <4>1, <4>2
      <4> QED
        BY <4>1, <4>2, <4>3, <4>4
    <3>2. CASE buf[f] # Header
      <4>1. f \in file_fds /\ ls = 2 + o + lb /\ o + lb <= file_size[f] /\ m = o + lb
        BY <1>2, <1>n, <2>1, <2>2, <3>2 DEF Replying
      <4>2. file_size[f] \in Nat
        BY <1>n, <3>0, <4>1
      <4>3. ls = 2 + m /\ m <= file_size[f]
        <5>1. PICK x \in Nat : x = file_size[f]
          BY <4>2
        <5>2. ls = 2 + o + lb /\ m = o + lb /\ m <= x
          BY <4>1, <5>1
        <5>3. ls = 2 + m
          BY <5>2
        <5> QED
          BY <5>1, <5>2, <5>3
      <4> QED
        BY <4>1, <4>2, <4>3
    <3> QED
      BY <3>1, <3>2
  <2>5. CASE f \in file_fds /\ m < file_size[f]
    <3>1. /\ co' = [co EXCEPT ![f] = "read"]
          /\ UNCHANGED <<variant, buf, conns, read, echoed, file_fds, file_size, served, ending>>
      BY <1>5, <2>3, <2>5 DEF AllSent, network
    <3>2. co'[f] = "read"
      BY <1>t, <3>1
    <3>3. BytesOK'
      BY <1>3, <3>1, BytesResumed
    <3>4. FilesOK'
      <4>1. ReplyOK(f)'
        BY <1>1, <1>t, <3>1, <3>2 DEF ReplyOK, ReplyLen
      <4> QED
        BY <2>3, <3>1, <4>1, FilesResumed
    <3>5. Asked(f)'
      <4>1. Len(served'[f]) = 2 + file_offset'[f]
        BY <1>n, <2>3, <2>4, <2>5, <3>1
      <4>2. file_size'[f] >= 0
        BY <2>4, <2>5, <3>1
      <4>3. f \in conns' /\ f \in file_fds' /\ variant' = "files"
        BY <1>2, <2>5, <3>1
      <4> QED
        BY <3>2, <4>1, <4>2, <4>3 DEF Asked
    <3> QED
      BY <3>3, <3>4, <3>5
  <2>6. CASE ~(f \in file_fds /\ m < file_size[f])
    <3>1. EndClient("done")
      BY <1>5, <2>3, <2>6 DEF AllSent
    <3>2. Len(served[f]) = ReplyLen(f)
      <4>1. CASE f \in file_fds
        <5>1. m = file_size[f]
          BY <2>4, <2>6, <4>1
        <5> QED
          BY <1>n, <2>4, <4>1, <5>1 DEF ReplyLen
      <4>2. CASE f \notin file_fds
        <5>1. ls = 2 /\ file_size[f] = -1
          BY <2>4, <4>2
        <5>2. ReplyLen(f) = 2
          BY <5>1 DEF ReplyLen
        <5> QED
          BY <1>n, <5>1, <5>2
      <4> QED
        BY <4>1, <4>2
    <3> QED
      BY <1>3, <2>3, <3>1, <3>2, EndClientFacts
  <2> QED
    BY <2>5, <2>6
<1> QED
  BY <1>4, <1>5

\* What a handler of the file server leaves.
LEMMA FileResumesFacts ==
  ASSUME ServerInv, FileResumes, NEW f \in Fds, f = Op.fd
  PROVE  BytesOK' /\ FilesOK' /\ Asked(f)'
<1>1. CASE GivesUp
  <2>1. EndClient("cut") /\ UNCHANGED <<sent, file_offset>> /\ variant = "files"
    BY <1>1 DEF GivesUp, FileResumes
  <2> QED
    BY <2>1, EndClientFacts
<1> QED
  BY <1>1, RequestFacts, SentFacts, ChunkReadFacts DEF FileResumes

\* A step that touches no file leaves the replies right.
LEMMA FilesSame == ASSUME FilesOK, UNCHANGED <<variant, co, fvars>> PROVE FilesOK'
<1>1. UNCHANGED <<variant, co, file_fds, file_size, file_offset, served, ending>>
  BY DEF fvars, file
<1>2. ASSUME NEW g \in Fds PROVE ReplyOK(g)'
  BY <1>1 DEF FilesOK, ReplyOK, ReplyLen
<1> QED
  BY <1>1, <1>2 DEF FilesOK

\* What the completion of a recv leaves.
LEMMA RecvFacts ==
  ASSUME ServerInv, NEW fd \in Fds, NEW n \in 1 .. BufSize, RecvCompletes(fd, n), UNCHANGED fvars
  PROVE  BytesOK' /\ FilesOK' /\ (co[fd] = "recv" /\ Asked(fd) => Answered(fd, n)')
<1>t. /\ buf \in [Fds -> Seq(Nat)] /\ read \in [Fds -> Nat] /\ BufSize \in Nat \ {0} /\ MaxBytes \in Nat
  BY Types
<1>n. PICK r \in Nat, le \in Nat : r = read[fd] /\ le = Len(echoed[fd]) /\ n \in Nat \ {0} /\ n <= BufSize
  <2>1. read[fd] \in Nat /\ Len(echoed[fd]) \in Nat
    BY Types
  <2>2. n \in Nat \ {0} /\ n <= BufSize
    BY <1>t
  <2> QED
    BY <2>1, <2>2
<1>0. BytesOK /\ FilesOK
  BY DEF ServerInv
<1>1. /\ r + n <= MaxBytes
      /\ buf' = [buf EXCEPT ![fd] = [k \in 1 .. n |-> r + k]]
      /\ read' = [read EXCEPT ![fd] = r + n]
      /\ UNCHANGED <<variant, co, sent, conns, echoed>>
  BY <1>n DEF RecvCompletes
<1>2. PICK b \in Seq(Nat) : b = [k \in 1 .. n |-> r + k] /\ Len(b) = n /\ \A k \in 1 .. n : b[k] = r + k
  <2> DEFINE x == [k \in 1 .. n |-> r + k]
  <2>1. x \in Seq(Nat) /\ Len(x) = n /\ \A k \in 1 .. n : x[k] = r + k
    BY <1>n
  <2> QED
    BY <2>1
<1>3. buf'[fd] = b /\ read'[fd] = r + n /\ r + n \in Nat
  BY <1>1, <1>2, <1>n, <1>t
<1>4. BytesOK'
  <2>1. buf' \in [Fds -> Seq(Nat)] /\ \A g \in Fds : Len(buf'[g]) <= BufSize
    BY <1>0, <1>1, <1>2, <1>n DEF BytesOK
  <2>2. read' \in [Fds -> Nat] /\ \A g \in Fds : read'[g] <= MaxBytes
    BY <1>0, <1>1, <1>3 DEF BytesOK
  <2> QED
    BY <1>0, <1>1, <2>1, <2>2 DEF BytesOK
<1>5. FilesOK'
  BY <1>0, <1>1, FilesSame
<1>6. ASSUME co[fd] = "recv", Asked(fd) PROVE Answered(fd, n)'
  <2>1. /\ fd \in conns
        /\ variant # "files" => Len(echoed[fd]) = read[fd]
        /\ variant = "files" => served[fd] = << >> /\ file_size[fd] = -1
    BY <1>6 DEF Asked
  <2>2. Numbered(fd)'
    <3>1. n <= r + n /\ \A k \in 1 .. n : b[k] = r + n - n + k
      BY <1>2, <1>n
    <3> QED
      BY <1>2, <1>3, <3>1 DEF Numbered
  <2>3. variant # "files" => Len(echoed'[fd]) + n = read'[fd]
    BY <1>1, <1>3, <1>n, <2>1
  <2>4. Len(buf'[fd]) = n
    BY <1>2, <1>3
  <2>5. /\ variant' = variant /\ co'[fd] = "recv" /\ fd \in conns' /\ served'[fd] = served[fd]
        /\ file_size'[fd] = file_size[fd]
    BY <1>1, <1>6, <2>1 DEF fvars, file
  <2> QED
    BY <2>1, <2>2, <2>3, <2>4, <2>5 DEF Answered
<1> QED
  BY <1>4, <1>5, <1>6

\* What the completion of a send of the echo servers leaves.
LEMMA EchoedFacts ==
  ASSUME ServerInv, variant # "files",
         NEW fd \in Fds, NEW n \in 1 .. BufSize, SendCompletes(fd, n), UNCHANGED fvars
  PROVE  BytesOK' /\ FilesOK' /\ (co[fd] = "send" /\ Asked(fd) => Answered(fd, n)')
<1>0. BytesOK /\ FilesOK
  BY DEF ServerInv
<1>t. echoed \in [Fds -> Seq(Nat)]
  BY Types
<1>n. PICK r \in Nat, e \in Seq(Nat), b \in Seq(Nat), s \in Nat :
        /\ r = read[fd] /\ e = echoed[fd] /\ b = buf[fd] /\ s = sent[fd] /\ n \in Nat \ {0}
  <2>1. n \in Nat \ {0}
    BY BufAssumption
  <2>2. read[fd] \in Nat /\ echoed[fd] \in Seq(Nat) /\ buf[fd] \in Seq(Nat) /\ sent[fd] \in Nat
    BY Types
  <2> QED
    BY <2>1, <2>2
<1>1. s + n <= Len(b)
  BY <1>n DEF SendCompletes
<1>2. PICK x \in Seq(Nat) : x = SubSeq(b, s + 1, s + n) /\ Len(x) = n
  <2>1. n \in Nat \ {0}
    BY <1>n
  <2>2. SubSeq(b, s + 1, s + n) \in Seq(Nat) /\ Len(SubSeq(b, s + 1, s + n)) = n
    BY <1>1, <2>1, SubSeqFacts, ZenonT(60)
  <2> QED
    BY <2>2, Zenon
<1>3. /\ echoed' = [echoed EXCEPT ![fd] = e \o x]
      /\ UNCHANGED <<variant, co, buf, sent, conns, read>>
  BY <1>2, <1>n DEF SendCompletes, coroutines
<1>4. e \o x \in Seq(Nat) /\ Len(e \o x) = Len(e) + n
  BY <1>2, ConcatFacts
<1>5. BytesOK'
  <2>1. echoed' \in [Fds -> Seq(Nat)]
    BY <1>3, <1>4, <1>t
  <2> QED
    BY <1>0, <1>3, <2>1 DEF BytesOK
<1>6. FilesOK'
  BY <1>0, <1>3, FilesSame
<1>7. ASSUME co[fd] = "send", Asked(fd) PROVE Answered(fd, n)'
  <2>1. fd \in conns /\ Numbered(fd) /\ Len(e) + Len(b) = r + s
    BY <1>7, <1>n DEF Asked
  <2>2. Numbered(fd)'
    BY <1>3, <2>1 DEF Numbered
  <2>3. Len(echoed'[fd]) = Len(e) + n
    BY <1>3, <1>4, <1>t
  <2>4. Len(echoed'[fd]) + Len(buf'[fd]) = read'[fd] + sent'[fd] + n
    <3>1. Len(e) + n + Len(b) = r + s + n
      <4>1. PICK le \in Nat, lb \in Nat, m \in Nat : le = Len(e) /\ lb = Len(b) /\ m = n
        BY <1>n
      <4>2. le + lb = r + s
        BY <2>1, <4>1
      <4>3. le + m + lb = r + s + m
        BY <4>2
      <4> QED
        BY <4>1, <4>3
    <3> QED
      BY <1>3, <1>n, <2>3, <3>1
  <2>5. sent'[fd] + n <= Len(buf'[fd]) /\ variant' # "files" /\ co'[fd] = "send" /\ fd \in conns'
    BY <1>1, <1>3, <1>7, <1>n, <2>1
  <2> QED
    BY <2>2, <2>4, <2>5 DEF Answered
<1> QED
  BY <1>5, <1>6, <1>7

\* What the completion of a send of the file server leaves.
LEMMA RepliedFacts ==
  ASSUME ServerInv, variant = "files",
         NEW fd \in Fds, NEW n \in 1 .. BufSize, ReplyCompletes(fd, n), co[fd] = "send", Asked(fd)
  PROVE  BytesOK' /\ FilesOK' /\ Answered(fd, n)'
<1>0. BytesOK /\ FilesOK
  BY DEF ServerInv
<1>t. /\ served \in [Fds -> Seq(Nat)]
      /\ \A g \in Fds : ReplyOK(g)
  BY Types
<1>n. PICK o \in Nat, c \in Seq(Nat), b \in Seq(Nat), s \in Nat, z \in Nat \cup {-1} :
        /\ o = file_offset[fd] /\ c = served[fd] /\ b = buf[fd] /\ s = sent[fd] /\ z = file_size[fd]
        /\ n \in Nat \ {0}
  <2>1. n \in Nat \ {0}
    BY BufAssumption
  <2>2. /\ file_offset[fd] \in Nat /\ served[fd] \in Seq(Nat) /\ buf[fd] \in Seq(Nat) /\ sent[fd] \in Nat
        /\ file_size[fd] \in Nat \cup {-1}
    BY Types
  <2> QED
    BY <2>1, <2>2
<1>1. s + n <= Len(b)
  BY <1>n DEF ReplyCompletes
<1>2. PICK x \in Seq(Nat) : /\ x = SubSeq(b, s + 1, s + n) /\ Len(x) = n
                            /\ \A k \in 1 .. n : x[k] = b[s + k]
  <2>1. n \in Nat \ {0}
    BY <1>n
  <2> QED
    BY <1>1, <2>1, SubSeqFacts
<1>3. /\ served' = [served EXCEPT ![fd] = c \o x]
      /\ UNCHANGED <<variant, co, buf, sent, conns, read, echoed, file_fds, file_size, file_offset, ending>>
  BY <1>2, <1>n DEF ReplyCompletes, coroutines, network, file
<1>4. /\ c \o x \in Seq(Nat) /\ Len(c \o x) = Len(c) + n
      /\ \A k \in 1 .. Len(c) : (c \o x)[k] = c[k]
      /\ \A k \in 1 .. n : (c \o x)[Len(c) + k] = x[k]
  BY <1>2, ConcatFacts
<1>l. PICK lc \in Nat, lb \in Nat, m \in Nat \ {0} :
        lc = Len(c) /\ lb = Len(b) /\ m = n /\ s + m <= lb
  BY <1>1, <1>n
<1>5. fd \in conns /\ Replying(fd, s)
  BY <1>n DEF Asked
<1>6. served'[fd] = c \o x
  BY <1>3, <1>t
<1>7. Replying(fd, s + n)'
  <2>1. Len(c \o x) = Len(c) + n
    BY <1>4
  <2>2. CASE b = Header
    <3>1. /\ Len(c) = s /\ (fd \in file_fds => o = 0 /\ z >= 0) /\ (fd \notin file_fds => z = -1)
      BY <1>5, <1>n, <2>2 DEF Replying
    <3>2. Len(c \o x) = s + n
      BY <1>n, <2>1, <3>1
    <3> QED
      BY <1>1, <1>3, <1>6, <1>n, <2>2, <3>1, <3>2 DEF Replying
  <2>3. CASE b # Header
    <3>1. /\ fd \in file_fds /\ Len(c) = 2 + o + s /\ o + Len(b) <= z
          /\ \A k \in 1 .. Len(b) : b[k] = o + k
      BY <1>5, <1>n, <2>3 DEF Replying
    <3>2. Len(c \o x) = 2 + o + (s + n)
      <4>1. Len(c) = 2 + o + s
        BY <3>1
      <4> QED
        BY <1>n, <2>1, <4>1
    <3> QED
      BY <1>1, <1>3, <1>6, <1>n, <2>3, <3>1, <3>2 DEF Replying
  <2> QED
    BY <2>2, <2>3
<1>8. /\ \A k \in 1 .. n : x[k] = Byte(Len(c) + k)
      /\ Len(c) + n <= ReplyLen(fd)
  <2>1. CASE b = Header
    <3>1. Len(c) = s /\ (fd \in file_fds => z >= 0) /\ (fd \notin file_fds => z = -1)
      BY <1>5, <1>n, <2>1 DEF Replying
    <3>2. Len(b) = 2 /\ b[1] = 0 /\ b[2] = 0
      BY <2>1, HeaderFacts
    <3>3. ASSUME NEW k \in 1 .. n PROVE x[k] = Byte(Len(c) + k)
      <4>1. s + k \in 1 .. 2
        <5>1. k \in 1 .. m /\ s + m <= 2
          BY <1>l, <3>2
        <5> QED
          BY <5>1
      <4>2. b[s + k] = 0
        BY <3>2, <4>1
      <4>3. Byte(s + k) = 0
        BY <4>1 DEF Byte
      <4> QED
        BY <1>2, <3>1, <4>2, <4>3
    <3>4. ReplyLen(fd) >= 2 /\ ReplyLen(fd) \in Nat
      BY <1>n DEF ReplyLen
    <3>5. Len(c) + n <= 2
      BY <1>1, <1>n, <3>1, <3>2
    <3> QED
      BY <1>n, <3>3, <3>4, <3>5
  <2>2. CASE b # Header
    <3>1. Len(c) = 2 + o + s /\ o + Len(b) <= z
      BY <1>5, <1>n, <2>2 DEF Replying
    <3>2. \A k \in 1 .. Len(b) : b[k] = o + k
      BY <1>5, <1>n, <2>2 DEF Replying
    <3>3. ASSUME NEW k \in 1 .. n PROVE x[k] = Byte(Len(c) + k)
      <4>1. s + k \in 1 .. Len(b)
        <5>1. k \in 1 .. m
          BY <1>l
        <5>2. s + k \in 1 .. lb
          BY <1>l, <5>1
        <5> QED
          BY <1>l, <5>2
      <4>2. x[k] = o + (s + k)
        BY <1>2, <3>2, <4>1
      <4>3. Byte(Len(c) + k) = o + (s + k)
        <5>1. k \in 1 .. m
          BY <1>l
        <5>2. lc + k = 2 + o + s + k
          BY <1>l, <3>1, <5>1
        <5>3. ~(lc + k <= 2) /\ lc + k - 2 = o + (s + k)
          BY <5>1, <5>2
        <5> QED
          BY <1>l, <5>3 DEF Byte
      <4> QED
        BY <4>2, <4>3
    <3>4. z \in Nat /\ ReplyLen(fd) = 2 + z
      <4>1. z \in Nat
        BY <1>n, <3>1, SMTT(30)
      <4> QED
        BY <1>n, <4>1 DEF ReplyLen
    <3>5. Len(c) + n <= 2 + z
      <4>1. lc = 2 + o + s /\ o + lb <= z
        BY <1>l, <3>1
      <4>2. lc + m <= 2 + z
        BY <1>l, <3>4, <4>1
      <4> QED
        BY <1>l, <4>2
    <3> QED
      BY <3>3, <3>4, <3>5
  <2> QED
    BY <2>1, <2>2
<1>9. ReplyOK(fd)'
  <2>1. ReplyOK(fd) /\ ending[fd] = "none"
    BY <1>t DEF ReplyOK
  <2>2. ASSUME NEW k \in 1 .. Len(c) + n PROVE (c \o x)[k] = Byte(k)
    <3>1. CASE k \in 1 .. Len(c)
      BY <1>4, <1>n, <2>1, <3>1 DEF ReplyOK
    <3>2. CASE k \notin 1 .. Len(c)
      <4>1. PICK j \in 1 .. n : k = Len(c) + j
        <5>1. k - Len(c) \in 1 .. n /\ k = Len(c) + (k - Len(c))
          BY <1>n, <3>2
        <5> QED
          BY <5>1
      <4> QED
        BY <1>4, <1>8, <4>1
    <3> QED
      BY <3>1, <3>2
  <2>3. ReplyLen(fd)' = ReplyLen(fd)
    BY <1>3 DEF ReplyLen
  <2>4. \A k \in 1 .. Len(served'[fd]) : served'[fd][k] = Byte(k)
    BY <1>4, <1>6, <2>2
  <2>5. Len(served'[fd]) <= ReplyLen(fd)'
    BY <1>4, <1>6, <1>8, <2>3
  <2> QED
    BY <1>3, <2>1, <2>4, <2>5 DEF ReplyOK
<1>10. FilesOK'
  <2>1. served' \in [Fds -> Seq(Nat)]
    BY <1>3, <1>4, <1>t
  <2>2. ASSUME NEW g \in Fds PROVE ReplyOK(g)'
    <3>1. CASE g = fd
      BY <1>9, <3>1
    <3>2. CASE g # fd
      <4>1. /\ ReplyOK(g) /\ UNCHANGED <<served[g], file_size[g], ending[g], co[g]>> /\ variant' = variant
            /\ g \in file_fds' <=> g \in file_fds
        BY <1>3, <1>t, <3>2
      <4> QED
        BY <4>1, ReplyKept
    <3> QED
      BY <3>1, <3>2
  <2> QED
    BY <1>0, <1>3, <2>1, <2>2 DEF FilesOK
<1>11. BytesOK'
  BY <1>0, <1>3 DEF BytesOK
<1>12. Answered(fd, n)'
  <2>1. Replying(fd, sent[fd] + n)'
    BY <1>3, <1>7, <1>n DEF Replying
  <2>2. sent'[fd] + n <= Len(buf'[fd]) /\ variant' = "files" /\ co'[fd] = "send" /\ fd \in conns'
    BY <1>1, <1>3, <1>5, <1>n
  <2> QED
    BY <2>1, <2>2 DEF Answered
<1> QED
  BY <1>10, <1>11, <1>12

\* What the completion of a read leaves.
LEMMA ReadFacts ==
  ASSUME ServerInv, variant = "files",
         NEW fd \in Fds, NEW n \in 0 .. BufSize, ReadCompletes(fd, n), co[fd] = "read", Asked(fd)
  PROVE  BytesOK' /\ FilesOK' /\ Answered(fd, n)'
<1>0. BytesOK /\ FilesOK
  BY DEF ServerInv
<1>t. buf \in [Fds -> Seq(Nat)]
  BY Types
<1>n. PICK o \in Nat : o = file_offset[fd] /\ n \in Nat /\ n <= BufSize
  <2>1. n \in Nat /\ n <= BufSize
    BY BufAssumption
  <2>2. file_offset[fd] \in Nat
    BY Types
  <2> QED
    BY <2>1, <2>2
<1>1. PICK b \in Seq(Nat) : b = [k \in 1 .. n |-> o + k] /\ Len(b) = n /\ \A k \in 1 .. n : b[k] = o + k
  <2> DEFINE x == [k \in 1 .. n |-> o + k]
  <2>1. x \in Seq(Nat) /\ Len(x) = n /\ \A k \in 1 .. n : x[k] = o + k
    BY <1>n
  <2> QED
    BY <2>1
<1>2. /\ o + n <= file_size[fd] /\ buf' = [buf EXCEPT ![fd] = b]
      /\ UNCHANGED <<variant, co, sent, conns, read, echoed, fvars>>
      /\ UNCHANGED <<file_fds, file_size, file_offset, served, ending>>
  BY <1>1, <1>n DEF ReadCompletes, network, fvars, file
<1>3. buf'[fd] = b
  BY <1>2, <1>t
<1>4. BytesOK'
  <2>1. buf' \in [Fds -> Seq(Nat)] /\ \A g \in Fds : Len(buf'[g]) <= BufSize
    BY <1>0, <1>1, <1>2, <1>n DEF BytesOK
  <2> QED
    BY <1>0, <1>2, <2>1 DEF BytesOK
<1>5. FilesOK'
  BY <1>0, <1>2, FilesSame
<1>6. Answered(fd, n)'
  <2>1. fd \in conns /\ fd \in file_fds /\ Len(served[fd]) = 2 + o
    BY <1>n DEF Asked
  <2>2. n > 0 => Len(buf'[fd]) > 0
    BY <1>1, <1>3
  <2>3. file_offset'[fd] + Len(buf'[fd]) <= file_size'[fd]
    BY <1>1, <1>2, <1>3, <1>n
  <2>4. \A k \in 1 .. Len(buf'[fd]) : buf'[fd][k] = file_offset'[fd] + k
    BY <1>1, <1>2, <1>3, <1>n
  <2> QED
    BY <1>2, <1>n, <2>1, <2>2, <2>3, <2>4 DEF Answered
<1> QED
  BY <1>4, <1>5, <1>6

----
\* A client stays where it is in its protocol when a step touches neither it nor
\* its completions.
LEMMA InPhaseKept ==
  ASSUME NEW g \in Fds, InPhase(g), SameBytes(g), co'[g] = co[g], variant' = variant,
         co[g] # "none" /\ g \in conns => g \in conns',
         DoneAt(cq', Client(g)) = {} => DoneAt(cq, Client(g)) = {},
         \A k \in DoneAt(cq', Client(g)) : \E j \in DoneAt(cq, Client(g)) : cq'[k].res = cq[j].res
  PROVE  InPhase(g)'
<1> USE DEF SameBytes, Numbered, Replying
<1>1. ASSUME Asked(g) PROVE Asked(g)'
  BY <1>1 DEF Asked
<1>2. ASSUME NEW r, Answered(g, r) PROVE Answered(g, r)'
  BY <1>2 DEF Answered
<1>3. DoneAt(cq', Client(g)) = {} => Asked(g)'
  BY <1>1 DEF InPhase
<1>4. ASSUME NEW k \in DoneAt(cq', Client(g)) PROVE Answered(g, cq[k].res)'
  <2>1. PICK j \in DoneAt(cq, Client(g)) : cq'[k].res = cq[j].res
    OBVIOUS
  <2>2. PICK r : r = cq[j].res
    OBVIOUS
  <2>3. Answered(g, r)
    BY <2>1, <2>2 DEF InPhase
  <2>4. Answered(g, r)'
    BY <1>2, <2>3
  <2>5. cq'[k].res = r
    BY <2>1, <2>2
  <2> QED
    BY <2>4, <2>5 DEF Answered
<1> QED
  BY <1>3, <1>4 DEF InPhase

\* See InPhaseKept: the queue of completions is not touched.
LEMMA InPhaseSame ==
  ASSUME NEW g \in Fds, InPhase(g), SameBytes(g), co'[g] = co[g], variant' = variant, cq' = cq,
         co[g] # "none" /\ g \in conns => g \in conns'
  PROVE  InPhase(g)'
<1>1. \A k \in DoneAt(cq', Client(g)) : k \in DoneAt(cq, Client(g)) /\ cq'[k].res = cq[k].res
  OBVIOUS
<1>2. DoneAt(cq', Client(g)) = {} => DoneAt(cq, Client(g)) = {}
  OBVIOUS
<1> QED
  BY <1>1, <1>2, InPhaseKept

\* See InPhaseKept: a completion of something else has been seen.
LEMMA InPhaseSeen ==
  ASSUME NEW g \in Fds, InPhase(g), SameBytes(g), co'[g] = co[g], variant' = variant,
         cq \in Seq(Completion), cq # << >>, cq' = Tail(cq), Head(cq).op \notin Client(g),
         co[g] # "none" /\ g \in conns => g \in conns'
  PROVE  InPhase(g)'
<1>1. PICK M : M = Client(g)
  OBVIOUS
<1>2. \A k \in DoneAt(cq', M) : k + 1 \in DoneAt(cq, M) /\ cq'[k].res = cq[k + 1].res
  BY <1>1, TailAt, TailEntries DEF DoneAt
<1>3. \A k \in DoneAt(cq, M) : k - 1 \in DoneAt(cq', M)
  BY <1>1, TailAt
<1>4. DoneAt(cq', M) = {} => DoneAt(cq, M) = {}
  BY <1>3
<1>5. \A k \in DoneAt(cq', M) : \E j \in DoneAt(cq, M) : cq'[k].res = cq[j].res
  BY <1>2
<1> QED
  BY <1>1, <1>4, <1>5, InPhaseKept

\* See InPhaseKept: the kernel has completed something else.
LEMMA InPhaseCompleted ==
  ASSUME NEW g \in Fds, InPhase(g), SameBytes(g), co'[g] = co[g], variant' = variant,
         RingOK, NEW op, NEW res \in Int, Completed(op, res), op \notin Client(g),
         co[g] # "none" /\ g \in conns => g \in conns'
  PROVE  InPhase(g)'
<1>1. PICK M : M = Client(g)
  OBVIOUS
<1>2. DoneAt(cq', M) = DoneAt(cq, M)
  <2>1. op \notin M /\ \A m \in M : m.op # "timeout"
    BY <1>1, NoTimeouts
  <2> QED
    BY <2>1, CompletedOnce
<1>3. \A k \in 1 .. Len(cq) : cq'[k] = cq[k]
  BY CompletedQueue
<1>4. \A k \in DoneAt(cq', M) : k \in DoneAt(cq, M) /\ cq'[k].res = cq[k].res
  BY <1>2, <1>3 DEF DoneAt
<1> QED
  BY <1>1, <1>2, <1>4, InPhaseKept

\* The kernel has completed an operation of client fd.
LEMMA InPhaseOwn ==
  ASSUME ServerInv, up, NEW fd \in Fds, NEW op \in Client(fd), NEW res \in Int, Completed(op, res),
         variant' = variant, co' = co,
         \A g \in Fds \ {fd} : SameBytes(g) /\ (g \in conns => g \in conns'),
         Answered(fd, res)'
  PROVE  \A g \in Fds : InPhase(g)'
<1>0. RingOK /\ op \in flight /\ \A g \in Fds : InPhase(g)
  BY InvParts DEF Completed
<1>1. ASSUME NEW g \in Fds, g # fd PROVE InPhase(g)'
  <2>1. op \notin Client(g)
    BY <1>1, OperationKinds
  <2> QED
    BY <1>0, <1>1, <2>1, InPhaseCompleted
<1>2. InPhase(fd)'
  <2>1. DoneAt(cq', Client(fd)) = {Len(cq')}
    <3>1. PICK M : M = Client(fd)
      OBVIOUS
    <3>2. DoneAt(cq, M) = {}
      BY <1>0, <3>1, InFlightClient
    <3>3. \A m \in M : m.op # "timeout"
      BY <3>1, NoTimeouts
    <3>4. DoneAt(cq', M) = DoneAt(cq, M) \cup {Len(cq')}
      BY <1>0, <3>1, <3>3, CompletedOnce
    <3> QED
      BY <3>1, <3>2, <3>4
  <2>2. cq'[Len(cq')].res = res
    <3>1. PICK c : c = [op |-> op, res |-> res]
      OBVIOUS
    <3>2. cq'[Len(cq')] = c
      BY <1>0, <3>1, CompletedQueue
    <3> QED
      BY <3>1, <3>2
  <2>3. \A k \in DoneAt(cq', Client(fd)) : cq'[k].res = res
    BY <2>1, <2>2
  <2>4. ASSUME NEW k \in DoneAt(cq', Client(fd)) PROVE Answered(fd, cq[k].res)'
    <3>1. cq'[k].res = res
      BY <2>3
    <3> QED
      BY <3>1 DEF Answered
  <2> QED
    BY <2>1, <2>4 DEF InPhase
<1> QED
  BY <1>1, <1>2

\* The coroutine of client f has been resumed.
LEMMA InPhaseResumed ==
  ASSUME ServerInv, NEW f \in Fds, NEW next, Resumed(f, next), Asked(f)'
  PROVE  \A g \in Fds : InPhase(g)'
<1>0. /\ up /\ cq # << >> /\ Head(cq).op \in Client(f) /\ cq' = Tail(cq) /\ variant' = variant
      /\ co' = [co EXCEPT ![f] = next] /\ conns \ {f} \subseteq conns'
      /\ \A g \in Fds \ {f} : SameBytes(g)
  BY DEF Resumed, Seen, Op
<1>1. OnePending /\ cq \in Seq(Completion) /\ \A g \in Fds : InPhase(g)
  BY <1>0, InvParts DEF RingTypeOK
<1>2. co \in [Fds -> {"none"} \cup ClientKinds]
  BY Types
<1>3. ASSUME NEW g \in Fds, g # f PROVE InPhase(g)'
  <2>1. Head(cq).op \notin Client(g) /\ co'[g] = co[g] /\ (g \in conns => g \in conns')
    BY <1>0, <1>2, <1>3, OperationKinds
  <2> QED
    BY <1>0, <1>1, <1>3, <2>1, InPhaseSeen
<1>4. InPhase(f)'
  <2>1. PICK M : M = Client(f)
    OBVIOUS
  <2>2. DoneAt(cq, M) = {1}
    <3>1. 1 \in DoneAt(cq, M)
      BY <1>0, <1>1, <2>1, TailAt
    <3>2. Once(M)
      BY <1>1, <2>1 DEF OnePending, AwaitsOne
    <3> QED
      BY <3>1, <3>2 DEF Once
  <2>3. DoneAt(cq', M) = {}
    <3>1. \A k \in DoneAt(cq', M) : k \in Nat \ {0} /\ k + 1 \in DoneAt(cq, M)
      BY <1>0, <1>1, TailAt
    <3>2. ASSUME NEW k \in DoneAt(cq', M) PROVE FALSE
      <4>1. k \in Nat \ {0} /\ k + 1 = 1
        BY <2>2, <3>1
      <4> QED
        BY <4>1
    <3> QED
      BY <3>2
  <2> QED
    BY <2>1, <2>3 DEF InPhase
<1> QED
  BY <1>3, <1>4

\* A step that touches no client.
LEMMA BytesSame == ASSUME BytesOK, UNCHANGED <<buf, sent, read, echoed>> PROVE BytesOK'
BY DEF BytesOK

\* What the acceptance of a new connection leaves.
LEMMA ConnectsFacts ==
  ASSUME ServerInv, up, NEW fd \in Fds, Connects(fd)
  PROVE  BytesOK' /\ FilesOK' /\ \A g \in Fds : InPhase(g)'
<1>0. BytesOK /\ FilesOK /\ RingOK /\ OnePending /\ \A g \in Fds : InPhase(g)
  BY InvParts
<1>t. /\ read \in [Fds -> Nat] /\ echoed \in [Fds -> Seq(Nat)]
      /\ file_size \in [Fds -> Nat \cup {-1}] /\ served \in [Fds -> Seq(Nat)]
      /\ ending \in [Fds -> {"none", "done", "cut"}] /\ \A g \in Fds : ReplyOK(g)
      /\ MaxBytes \in Nat /\ co[fd] \in {"none"} \cup ClientKinds
  BY Types
<1>1. /\ Completed(Acceptor, fd) /\ fd \notin conns /\ conns' = conns \cup {fd}
      /\ UNCHANGED <<variant, co, buf, sent>>
      /\ read' = [read EXCEPT ![fd] = 0] /\ echoed' = [echoed EXCEPT ![fd] = << >>]
  BY CompletesCompleted DEF Connects, AcceptCompletes, coroutines
<1>2. \/ UNCHANGED <<file_fds, file_size, file_offset, served, ending>>
      \/ /\ UNCHANGED <<file_fds, file_offset>>
         /\ file_size' = [file_size EXCEPT ![fd] = -1]
         /\ served' = [served EXCEPT ![fd] = << >>]
         /\ ending' = [ending EXCEPT ![fd] = "none"]
  BY DEF Connects, ClientConnects, fvars, file
<1>3. BytesOK'
  <2>1. read' \in [Fds -> Nat] /\ echoed' \in [Fds -> Seq(Nat)] /\ \A g \in Fds : read'[g] <= MaxBytes
    BY <1>0, <1>1, <1>t DEF BytesOK
  <2> QED
    BY <1>0, <1>1, <2>1 DEF BytesOK
<1>4. ASSUME NEW g \in Fds, g # fd PROVE SameBytes(g)
  BY <1>1, <1>2, <1>4, <1>t DEF SameBytes
<1>5. FilesOK'
  <2>1. CASE UNCHANGED <<file_fds, file_size, file_offset, served, ending>>
    BY <1>0, <1>1, <2>1, FilesSame DEF fvars, file
  <2>2. CASE /\ UNCHANGED <<file_fds, file_offset>>
             /\ file_size' = [file_size EXCEPT ![fd] = -1]
             /\ served' = [served EXCEPT ![fd] = << >>]
             /\ ending' = [ending EXCEPT ![fd] = "none"]
    <3>1. /\ file_size' \in [Fds -> Nat \cup {-1}] /\ served' \in [Fds -> Seq(Nat)]
          /\ ending' \in [Fds -> {"none", "done", "cut"}]
          /\ file_size'[fd] = -1 /\ served'[fd] = << >> /\ ending'[fd] = "none"
      BY <1>t, <2>2
    <3>2. ASSUME NEW g \in Fds PROVE ReplyOK(g)'
      <4>1. CASE g # fd
        BY <1>1, <1>4, <1>t, <4>1, ReplyKept DEF SameBytes
      <4>2. CASE g = fd
        <5>1. ReplyLen(fd)' = 2
          BY <3>1 DEF ReplyLen
        <5>2. Len(served'[fd]) = 0 /\ \A k \in 1 .. Len(served'[fd]) : FALSE
          BY <3>1
        <5>3. Len(served'[fd]) <= ReplyLen(fd)'
          BY <5>1, <5>2
        <5>4. ReplyOK(fd)
          BY <1>t
        <5> QED
          BY <1>1, <2>2, <3>1, <4>2, <5>2, <5>3, <5>4 DEF ReplyOK
      <4> QED
        BY <4>1, <4>2
    <3> QED
      BY <1>0, <2>2, <3>1, <3>2 DEF FilesOK
  <2> QED
    BY <1>2, <2>1, <2>2
<1>6. fd \in Int
  BY FdsAssumption
<1>7. ASSUME NEW g \in Fds, g # fd PROVE InPhase(g)'
  BY <1>0, <1>1, <1>4, <1>6, <1>7, OperationKinds, InPhaseCompleted
<1>8. InPhase(fd)'
  <2>1. PICK M : M = Client(fd)
    OBVIOUS
  <2>2. DoneAt(cq', M) = DoneAt(cq, M)
    <3>1. Acceptor \notin M /\ \A m \in M : m.op # "timeout"
      BY <2>1, NoTimeouts, OperationKinds
    <3> QED
      BY <1>0, <1>1, <1>6, <3>1, CompletedOnce
  <2>3. CASE DoneAt(cq, M) = {}
    <3>1. co[fd] = "none"
      BY <1>0, <1>1, <2>1, <2>3 DEF InPhase, Asked
    <3>2. Asked(fd)'
      BY <1>1, <3>1 DEF Asked
    <3> QED
      BY <2>1, <2>2, <2>3, <3>2 DEF InPhase
  <2>4. ASSUME NEW j \in DoneAt(cq, M) PROVE InPhase(fd)'
    <3>1. co[fd] \notin {"recv", "send", "read"}
      BY <1>0, <1>1, <2>1, <2>4 DEF InPhase, Answered
    <3>2. ASSUME NEW k \in DoneAt(cq', M) PROVE Answered(fd, cq[k].res)'
      BY <1>1, <3>1 DEF Answered
    <3>3. DoneAt(cq', M) # {}
      BY <2>2, <2>4
    <3> QED
      BY <2>1, <3>2, <3>3 DEF InPhase
  <2> QED
    BY <2>3, <2>4
<1> QED
  BY <1>3, <1>5, <1>7, <1>8

\* What the handlers of an accept leave.
LEMMA AcceptFacts ==
  ASSUME ServerInv, Accepted \/ NoPipe \/ AcceptFailed, UNCHANGED fvars
  PROVE  BytesOK' /\ FilesOK' /\ \A g \in Fds : InPhase(g)'
<1>1. PICK r, ops : AcceptHandled(r, ops)
  BY AcceptCases
<1>2. Peek("accept") /\ up
  BY <1>1 DEF AcceptHandled, Peek
<1>3. /\ BytesOK /\ FilesOK /\ OnePending /\ cq \in Seq(Completion) /\ \A g \in Fds : InPhase(g)
      /\ co \in [Fds -> {"none"} \cup ClientKinds] /\ \A g \in Fds : ReplyOK(g)
  BY <1>2, InvParts, Types DEF RingTypeOK
<1>4. /\ cq # << >> /\ Head(cq).op = Acceptor
      /\ Res # FAILED => /\ Res \in conns /\ co[Res] = "none" /\ read[Res] = 0 /\ echoed[Res] = << >>
                         /\ served[Res] = << >> /\ file_size[Res] = -1 /\ ending[Res] = "none"
  BY <1>2, PeekAccept
<1>f. FAILED \notin Fds
  BY FdsAssumption DEF FAILED
<1>5. cq' = Tail(cq) /\ variant' = variant /\ \A g \in Fds : SameBytes(g)
  BY <1>1 DEF AcceptHandled, Seen
<1>6. \/ /\ r = Res /\ r \in Fds /\ co' = [co EXCEPT ![r] = "recv"] /\ conns' = conns
      \/ /\ r \notin Fds /\ co' = co
         /\ conns' = conns \/ (Res \in Fds /\ conns' = conns \ {Res})
  BY <1>1, <1>f DEF AcceptHandled
<1>7. BytesOK'
  BY <1>3, BytesSame DEF Accepted, NoPipe, AcceptFailed, coroutines, network
<1>8. FilesOK'
  <2>1. UNCHANGED <<file_fds, file_size, file_offset, served, ending>>
    BY DEF fvars, file
  <2>2. ASSUME NEW g \in Fds PROVE ReplyOK(g)'
    <3>1. ReplyOK(g)
      BY <1>3
    <3>2. co'[g] = co[g] \/ (ending[g] = "none" /\ g \notin file_fds)
      <4>1. CASE g = Res
        BY <1>3, <1>4, <1>f, <3>1, <4>1 DEF ReplyOK
      <4>2. CASE g # Res
        BY <1>3, <1>6, <4>2
      <4> QED
        BY <4>1, <4>2
    <3> QED
      BY <1>5, <2>1, <3>1, <3>2, ReplyKept
  <2> QED
    BY <1>3, <2>1, <2>2 DEF FilesOK
<1>9. ASSUME NEW g \in Fds, g # r PROVE InPhase(g)'
  <2>1. co'[g] = co[g] /\ Head(cq).op \notin Client(g)
    BY <1>3, <1>4, <1>6, <1>9, OperationKinds
  <2>2. co[g] # "none" /\ g \in conns => g \in conns'
    BY <1>4, <1>6, <1>f
  <2> QED
    BY <1>3, <1>4, <1>5, <2>1, <2>2, InPhaseSeen
<1>10. ASSUME r \in Fds PROVE InPhase(r)'
  <2>1. /\ co'[r] = "recv" /\ r \in conns' /\ co[r] = "none"
        /\ read[r] = 0 /\ echoed[r] = << >> /\ served[r] = << >> /\ file_size[r] = -1
    BY <1>10, <1>3, <1>4, <1>6, <1>f
  <2>2. SameBytes(r)
    BY <1>10, <1>5
  <2>3. Asked(r)'
    <3>1. Len(echoed'[r]) = read'[r] /\ served'[r] = << >> /\ file_size'[r] = -1
      BY <2>1, <2>2 DEF SameBytes
    <3> QED
      BY <2>1, <3>1 DEF Asked
  <2>4. DoneAt(cq', Client(r)) = {}
    <3>1. PICK M : M = Client(r)
      OBVIOUS
    <3>2. DoneAt(cq, M) = {}
      BY <1>10, <1>3, <2>1, <3>1 DEF OnePending, AwaitsOne, Absent
    <3>3. DoneAt(cq', M) = {}
      BY <1>3, <1>4, <1>5, <3>2, TailAt
    <3> QED
      BY <3>1, <3>3
  <2> QED
    BY <2>3, <2>4 DEF InPhase
<1> QED
  BY <1>7, <1>8, <1>9, <1>10

\* Every action keeps the bytes right, and each client where it is in its protocol.
LEMMA NextBytes ==
  ASSUME ServerInv, MCNext
  PROVE  BytesOK' /\ FilesOK' /\ \A g \in Fds : InPhase(g)'
<1>0. /\ up /\ StepCases /\ BytesOK /\ FilesOK /\ RingOK /\ cq \in Seq(Completion)
      /\ \A g \in Fds : InPhase(g)
  BY UpToStep, InvParts, NextCases DEF RingTypeOK
<1>t. /\ sent \in [Fds -> Nat] /\ buf \in [Fds -> Seq(Nat)]
      /\ read \in [Fds -> Nat] /\ echoed \in [Fds -> Seq(Nat)] /\ served \in [Fds -> Seq(Nat)]
  BY Types
<1>k. ClientKinds = {"recv", "send", "read", "close"}
  BY DEF ClientKinds
<1>s. ASSUME UNCHANGED <<buf, sent, read, echoed, fvars>> PROVE \A g \in Fds : SameBytes(g)
  BY <1>s DEF SameBytes, fvars, file
<1>1. CASE LoopStep /\ UNCHANGED fvars
  <2>1. UNCHANGED <<cq, variant, co, buf, sent, read, echoed, conns, fvars>>
    BY <1>1 DEF LoopStep, Submit, Wait, EndBatch, coroutines, network
  <2>2. ASSUME NEW g \in Fds PROVE InPhase(g)'
    BY <1>0, <1>s, <2>1, InPhaseSame
  <2> QED
    BY <1>0, <2>1, <2>2, BytesSame, FilesSame
<1>2. CASE TimeoutCqe /\ UNCHANGED fvars
  <2>1. UNCHANGED <<variant, co, buf, sent, read, echoed, conns, fvars>> /\ cq' = Tail(cq)
    BY <1>2 DEF TimeoutCqe, Seen, coroutines, network
  <2>2. cq # << >> /\ Head(cq).op.op = "timeout"
    BY <1>0, <1>2, PeekFacts DEF TimeoutCqe, Peek
  <2>3. ASSUME NEW g \in Fds PROVE InPhase(g)'
    <3>1. Head(cq).op \notin Client(g) /\ SameBytes(g)
      BY <1>s, <2>1, <2>2, NoTimeouts
    <3> QED
      BY <1>0, <2>1, <2>2, <3>1, InPhaseSeen
  <2> QED
    BY <1>0, <2>1, <2>3, BytesSame, FilesSame
<1>3. CASE EchoResumes \/ FileResumes
  <2>f. PICK f \in Fds : \E next : f = Op.fd /\ Resumed(f, next)
    BY <1>3, EchoResumesResumed, FileResumesResumed
  <2>1. PICK next : f = Op.fd /\ Resumed(f, next)
    BY <2>f
  <2>2. BytesOK' /\ FilesOK' /\ Asked(f)'
    BY <1>3, <2>1, EchoResumesFacts, FileResumesFacts
  <2> QED
    BY <2>1, <2>2, InPhaseResumed
<1>4. ASSUME NEW fd \in Fds, NEW op \in Client(fd), NEW res \in Int, Completed(op, res),
             UNCHANGED <<variant, co>>,
             \A g \in Fds \ {fd} : SameBytes(g) /\ (g \in conns => g \in conns'),
             Answered(fd, res)'
      PROVE  \A g \in Fds : InPhase(g)'
  BY <1>0, <1>4, InPhaseOwn
<1>5. ASSUME NEW fd \in Fds, CloseCompletes(fd), UNCHANGED fvars
      PROVE  BytesOK' /\ FilesOK' /\ \A g \in Fds : InPhase(g)'
  <2>1. Completed(CloseSlot(fd), 0) /\ CloseSlot(fd) \in Client(fd) /\ CloseSlot(fd).op = "close"
    BY <1>5, CompletesCompleted, TaggedKinds DEF CloseCompletes
  <2>2. /\ UNCHANGED <<variant, co, buf, sent, read, echoed, fvars>> /\ conns' = conns \ {fd}
    BY <1>5 DEF CloseCompletes, coroutines
  <2>3. co[fd] = "close"
    BY <1>0, <2>1, InFlightClient DEF Completed
  <2>4. Answered(fd, 0)'
    BY <2>2, <2>3 DEF Answered
  <2> QED
    BY <1>0, <1>4, <1>s, <2>1, <2>2, <2>4, BytesSame, FilesSame
<1>6. ASSUME NEW fd \in Fds, NEW n \in 1 .. BufSize, RecvCompletes(fd, n), UNCHANGED fvars
      PROVE  BytesOK' /\ FilesOK' /\ \A g \in Fds : InPhase(g)'
  <2>1. n \in Int
    BY BufAssumption
  <2>2. PICK op \in Client(fd) : op.op = "recv" /\ Completed(op, n)
    BY <1>0, <1>6, <2>1, RecvEndsCompletes DEF RecvCompletes
  <2>3. co[fd] = "recv" /\ Asked(fd)
    BY <1>0, <2>2, InFlightClient DEF Completed
  <2>4. BytesOK' /\ FilesOK' /\ Answered(fd, n)'
    BY <1>6, <2>3, RecvFacts
  <2>5. /\ UNCHANGED <<variant, co, conns>>
        /\ \A g \in Fds \ {fd} : SameBytes(g)
    BY <1>6, <1>t DEF RecvCompletes, SameBytes, fvars, file
  <2> QED
    BY <1>4, <2>1, <2>2, <2>4, <2>5
<1>7. ASSUME NEW fd \in Fds, NEW n \in 1 .. BufSize,
             \/ variant # "files" /\ SendCompletes(fd, n) /\ UNCHANGED fvars
             \/ variant = "files" /\ ReplyCompletes(fd, n)
      PROVE  BytesOK' /\ FilesOK' /\ \A g \in Fds : InPhase(g)'
  <2>1. n \in Int
    BY BufAssumption
  <2>2. Completed(Send(fd), n) /\ Send(fd) \in Client(fd) /\ Send(fd).op = "send"
    BY <1>7, CompletesCompleted, TaggedKinds DEF SendCompletes, ReplyCompletes
  <2>3. co[fd] = "send" /\ Asked(fd)
    BY <1>0, <2>2, InFlightClient DEF Completed
  <2>4. BytesOK' /\ FilesOK' /\ Answered(fd, n)'
    BY <1>7, <2>3, EchoedFacts, RepliedFacts
  <2>5. /\ UNCHANGED <<variant, co, conns>>
        /\ \A g \in Fds \ {fd} : SameBytes(g)
    BY <1>7, <1>t DEF SendCompletes, ReplyCompletes, SameBytes, coroutines, network, fvars, file
  <2> QED
    BY <1>4, <2>1, <2>2, <2>4, <2>5
<1>8. ASSUME NEW fd \in Fds, NEW n \in 0 .. BufSize, variant = "files", ReadCompletes(fd, n)
      PROVE  BytesOK' /\ FilesOK' /\ \A g \in Fds : InPhase(g)'
  <2>1. n \in Int
    BY BufAssumption
  <2>2. Completed(Read(fd), n) /\ Read(fd) \in Client(fd) /\ Read(fd).op = "read"
    BY <1>8, CompletesCompleted, TaggedKinds DEF ReadCompletes
  <2>3. co[fd] = "read" /\ Asked(fd)
    BY <1>0, <2>2, InFlightClient DEF Completed
  <2>4. BytesOK' /\ FilesOK' /\ Answered(fd, n)'
    BY <1>8, <2>3, ReadFacts
  <2>5. /\ UNCHANGED <<variant, co, conns>>
        /\ \A g \in Fds \ {fd} : SameBytes(g)
    BY <1>8, <1>t DEF ReadCompletes, SameBytes, network, fvars, file
  <2> QED
    BY <1>4, <2>1, <2>2, <2>4, <2>5
<1>9. ASSUME NEW op, NEW res, Failed(op, res)
      PROVE  BytesOK' /\ FilesOK' /\ \A g \in Fds : InPhase(g)'
  <2>1. Completed(op, res) /\ res \in Int /\ ~(res > 0) /\ op \in flight
        /\ UNCHANGED <<variant, co, buf, sent, read, echoed, conns, fvars>>
    BY <1>9 DEF Failed, Completed, coroutines
  <2>2. ASSUME NEW g \in Fds, op \notin Client(g) PROVE InPhase(g)'
    BY <1>0, <1>s, <2>1, <2>2, InPhaseCompleted
  <2>3. ASSUME NEW fd \in Fds, op \in Client(fd) PROVE \A g \in Fds : InPhase(g)'
    <3>1. Asked(fd)
      BY <1>0, <2>1, <2>3, InFlightClient
    <3>2. Answered(fd, res)'
      BY <1>k, <2>1, <3>1 DEF Answered, Asked
    <3> QED
      BY <1>4, <1>s, <2>1, <2>3, <3>2
  <2> QED
    BY <1>0, <2>1, <2>2, <2>3, BytesSame, FilesSame
<1> QED
  BY <1>0, <1>1, <1>2, <1>3, <1>5, <1>6, <1>7, <1>8, <1>9, AcceptFacts, ConnectsFacts DEF StepCases

----
\* The invariant holds when the event loop is entered: the accept is queued.
LEMMA InitServerInv == ASSUME MCInit PROVE ServerInv
<1>0. /\ up = TRUE /\ pc = "submit" /\ sq = <<Acceptor>> /\ flight = {} /\ cq = << >> /\ ready = 0
      /\ variant \in Variants /\ conns = {} /\ co = [fd \in Fds |-> "none"]
      /\ buf = [fd \in Fds |-> << >>] /\ sent = [fd \in Fds |-> 0]
      /\ read = [fd \in Fds |-> 0] /\ echoed = [fd \in Fds |-> << >>]
      /\ file_fds = {} /\ file_size = [fd \in Fds |-> -1] /\ file_offset = [fd \in Fds |-> 0]
      /\ served = [fd \in Fds |-> << >>] /\ ending = [fd \in Fds |-> "none"]
  BY DEF MCInit, Init, RingInit, FileInit
<1>1. <<Acceptor>> \in Seq(Operation) /\ Len(<<Acceptor>>) = 1 /\ << >> \in Seq(Completion)
  <2>1. Acceptor \in Operation
    BY OperationKinds
  <2> QED
    BY <2>1
<1>2. RingOK
  <2>1. RingTypeOK(Operation, Completion) /\ Len(sq) = 1 /\ Len(cq) = 0
    BY <1>0, <1>1 DEF RingTypeOK
  <2>2. up \in BOOLEAN /\ IsFiniteSet(flight)
    BY <1>0, FS_EmptySet
  <2>3. co \in [Fds -> {"none"} \cup ClientKinds] /\ conns \subseteq Fds
    BY <1>0
  <2>4. Len(sq) <= SqDepth /\ ready \in Nat /\ ready <= Len(cq)
    BY <1>0, <2>1, SqDepthAssumption
  <2> QED
    BY <1>0, <2>1, <2>2, <2>3, <2>4 DEF RingOK
<1>3. BytesOK
  BY <1>0, BoundAssumption, BufAssumption DEF BytesOK
<1>4. FilesOK
  <2>1. ASSUME NEW fd \in Fds PROVE ReplyOK(fd)
    <3>1. /\ served[fd] = << >> /\ file_size[fd] = -1 /\ ending[fd] = "none" /\ fd \notin file_fds
      BY <1>0
    <3>2. Len(served[fd]) = 0 /\ ReplyLen(fd) = 2 /\ \A k \in 1 .. Len(served[fd]) : FALSE
      BY <3>1 DEF ReplyLen
    <3> QED
      BY <3>1, <3>2 DEF ReplyOK
  <2> QED
    BY <1>0, <2>1 DEF FilesOK
<1>5. \A M : DoneAt(cq, M) = {} /\ flight \cap M = {} /\ OpsAt(sq, M) = IF Acceptor \in M THEN {1} ELSE {}
  BY <1>0, PlaceOfOne DEF DoneAt
<1>6. \A fd : Acceptor \notin Client(fd) /\ Acceptor \notin Timeouts(fd)
  BY OperationKinds
<1>7. OnePending
  <2>1. Once({Acceptor})
    BY <1>5 DEF Once
  <2>2. ASSUME NEW fd \in Fds PROVE AwaitsOne(fd)
    <3>1. PICK M, N : M = Client(fd) /\ N = Other(fd, co[fd])
      OBVIOUS
    <3>2. N \in SUBSET M /\ Acceptor \notin M
      BY <3>1, OperationKinds
    <3>3. Once(M) /\ Absent(M)
      BY <1>5, <3>2 DEF Once, Absent
    <3>4. Absent(N) /\ co[fd] = "none"
      BY <1>0, <3>2, <3>3, OncePart
    <3> QED
      BY <3>1, <3>3, <3>4 DEF AwaitsOne
  <2> QED
    BY <2>1, <2>2 DEF OnePending
<1>8. TimeoutsQueued
  BY <1>5, <1>6 DEF TimeoutsQueued
<1>9. NotYetClient
  BY <1>5 DEF NotYetClient
<1>10. ASSUME NEW fd \in Fds PROVE InPhase(fd)
  <2>1. co[fd] = "none"
    BY <1>0
  <2>2. Asked(fd)
    BY <2>1 DEF Asked
  <2> QED
    BY <1>5, <2>2 DEF InPhase
<1> QED
  BY <1>2, <1>3, <1>4, <1>7, <1>8, <1>9, <1>10 DEF ServerInv

\* The inductive invariant of the servers with one coroutine per client.
THEOREM ServerInvariance == MCSpec => []ServerInv
<1>1. MCInit => ServerInv
  BY InitServerInv
<1>2. ServerInv /\ [MCNext]_mcvars => ServerInv'
  <2> SUFFICES ASSUME ServerInv, [MCNext]_mcvars PROVE ServerInv'
    OBVIOUS
  <2>1. CASE MCNext
    <3>1. RingOK' /\ BytesOK' /\ FilesOK' /\ \A fd \in Fds : InPhase(fd)'
      BY <2>1, NextRingOK, NextBytes
    <3>2. up' => OnePending' /\ TimeoutsQueued' /\ NotYetClient'
      BY <2>1, NextOnePending, NextTimeoutsQueued, NextNotYetClient
    <3> QED
      BY <3>1, <3>2 DEF ServerInv
  <2>2. CASE UNCHANGED mcvars
    <3>0. /\ UNCHANGED <<up, pc, sq, flight, cq, ready, variant, co, buf, sent, conns, read, echoed>>
          /\ UNCHANGED <<file_fds, file_size, file_offset, served, ending, fvars>>
      BY <2>2 DEF mcvars, vars, ring, coroutines, network, fvars, file
    <3>1. RingOK' /\ BytesOK'
      BY <3>0 DEF ServerInv, RingOK, RingTypeOK, BytesOK
    <3>2. FilesOK'
      BY <3>0, FilesSame DEF ServerInv
    <3>3. OnePending => OnePending'
      BY <3>0 DEF OnePending, AwaitsOne, Once, Absent
    <3>4. TimeoutsQueued => TimeoutsQueued'
      BY <3>0 DEF TimeoutsQueued
    <3>5. NotYetClient => NotYetClient'
      BY <3>0 DEF NotYetClient
    <3>6. ASSUME NEW fd \in Fds, InPhase(fd) PROVE InPhase(fd)'
      <4>1. SameBytes(fd)
        BY <3>0 DEF SameBytes
      <4> QED
        BY <3>0, <3>6, <4>1, InPhaseSame
    <3> QED
      BY <3>0, <3>1, <3>2, <3>3, <3>4, <3>5, <3>6 DEF ServerInv
  <2> QED
    BY <2>1, <2>2
<1> QED
  BY <1>1, <1>2, PTL DEF MCSpec

----
\* The reply of a client, byte by byte.
LEMMA ReplyFacts ==
  ASSUME NEW fd, file_size[fd] \in Nat \cup {-1}
  PROVE  /\ Reply(fd) \in Seq(Nat) /\ Len(Reply(fd)) = ReplyLen(fd)
         /\ \A k \in 1 .. Len(Reply(fd)) : Reply(fd)[k] = Byte(k)
<1>1. PICK z \in Nat : 1 .. z = 1 .. file_size[fd] /\ ReplyLen(fd) = 2 + z
  <2>1. CASE file_size[fd] \in Nat
    <3>1. ReplyLen(fd) = 2 + file_size[fd]
      BY <2>1 DEF ReplyLen
    <3> QED
      BY <2>1, <3>1
  <2>2. CASE file_size[fd] = -1
    <3>1. 1 .. 0 = 1 .. -1 /\ ReplyLen(fd) = 2 + 0
      BY <2>2 DEF ReplyLen
    <3> QED
      BY <2>2, <3>1
  <2> QED
    BY <2>1, <2>2
<1>2. PICK t \in Seq(Nat) : t = [k \in 1 .. z |-> k] /\ Len(t) = z /\ \A k \in 1 .. z : t[k] = k
  <2> DEFINE x == [k \in 1 .. z |-> k]
  <2>1. x \in Seq(Nat) /\ Len(x) = z /\ \A k \in 1 .. z : x[k] = k
    OBVIOUS
  <2> QED
    BY <2>1
<1>3. PICK h \in Seq(Nat) : h = Header /\ Len(h) = 2 /\ h[1] = 0 /\ h[2] = 0
  <2>1. Header \in Seq(Nat) /\ Len(Header) = 2 /\ Header[1] = 0 /\ Header[2] = 0
    BY DEF Header
  <2> QED
    BY <2>1
<1>4. Reply(fd) = h \o t
  BY <1>1, <1>2, <1>3 DEF Reply
<1>5. /\ h \o t \in Seq(Nat) /\ Len(h \o t) = Len(h) + Len(t)
      /\ \A k \in 1 .. Len(h) : (h \o t)[k] = h[k]
      /\ \A k \in 1 .. Len(t) : (h \o t)[Len(h) + k] = t[k]
  BY ConcatFacts
<1>6. ASSUME NEW k \in 1 .. 2 + z PROVE (h \o t)[k] = Byte(k)
  <2>1. CASE k \in 1 .. 2
    <3>1. k = 1 \/ k = 2
      BY <2>1
    <3>2. (h \o t)[k] = 0
      BY <1>3, <1>5, <2>1, <3>1
    <3> QED
      BY <2>1, <3>2 DEF Byte
  <2>2. CASE k \notin 1 .. 2
    <3>1. PICK j \in 1 .. z : k = 2 + j
      <4>1. k - 2 \in 1 .. z /\ k = 2 + (k - 2)
        BY <2>2
      <4> QED
        BY <4>1
    <3>2. (h \o t)[k] = j
      BY <1>2, <1>3, <1>5, <3>1
    <3>3. Byte(k) = j
      BY <3>1 DEF Byte
    <3> QED
      BY <3>2, <3>3
  <2> QED
    BY <2>1, <2>2
<1> QED
  BY <1>1, <1>2, <1>3, <1>4, <1>5, <1>6

\* A sequence that agrees with another one as far as it goes is a prefix of it.
LEMMA PrefixFacts ==
  ASSUME NEW s \in Seq(Nat), NEW t \in Seq(Nat), Len(s) <= Len(t),
         \A k \in 1 .. Len(s) : s[k] = t[k]
  PROVE  IsPrefix(s, t) /\ (Len(s) = Len(t) => s = t)
<1>1. PICK n \in Nat : n = Len(s) /\ n <= Len(t)
  OBVIOUS
<1>2. SubSeq(s, 1, n) = [k \in 1 .. n |-> s[k]]
  BY <1>1
<1>3. SubSeq(t, 1, n) = [k \in 1 .. n |-> t[k]]
  BY <1>1
<1>4. SubSeq(s, 1, n) = SubSeq(t, 1, n)
  BY <1>1, <1>2, <1>3
<1>5. Len(s) = Len(t) => s = t
  BY SeqEqual
<1> QED
  BY <1>1, <1>4, <1>5 DEF IsPrefix

\* What comes to a client of the file server is its reply from the start and, if
\* neither it nor the file failed, all of it: for every number of clients, size
\* of file and size of buffer a header fits in.
THEOREM FilesServedAlways == MCSpec => []FilesServed
<1>1. ServerInv => FilesServed
  <2> SUFFICES ASSUME ServerInv, NEW fd \in Fds
               PROVE  /\ IsPrefix(served[fd], Reply(fd))
                      /\ ending[fd] = "done" => served[fd] = Reply(fd)
                      /\ fd \in file_fds => co[fd] \in {"send", "read"}
    BY DEF FilesServed
  <2>1. ReplyOK(fd) /\ served[fd] \in Seq(Nat) /\ file_size[fd] \in Nat \cup {-1}
    BY Types
  <2>2. PICK s \in Seq(Nat), t \in Seq(Nat) :
          /\ s = served[fd] /\ t = Reply(fd) /\ Len(t) = ReplyLen(fd)
          /\ \A k \in 1 .. Len(t) : t[k] = Byte(k)
    BY <2>1, ReplyFacts
  <2>3. Len(s) <= Len(t) /\ \A k \in 1 .. Len(s) : s[k] = t[k]
    <3>1. Len(s) <= Len(t) /\ \A k \in 1 .. Len(s) : s[k] = Byte(k)
      BY <2>1, <2>2 DEF ReplyOK
    <3>2. \A k \in 1 .. Len(s) : k \in 1 .. Len(t)
      BY <2>2, <3>1
    <3> QED
      BY <2>2, <3>1, <3>2
  <2>4. IsPrefix(s, t) /\ (Len(s) = Len(t) => s = t)
    BY <2>3, PrefixFacts
  <2> QED
    BY <2>1, <2>2, <2>4 DEF ReplyOK
<1> QED
  BY <1>1, ServerInvariance, PTL

----
\* Whose an operation is: 0 for the accept, the descriptor of a client for what
\* its coroutine awaits, and the negative of it for its timeout.
Owner(op) == IF op.op = "accept" THEN 0 ELSE IF op.op = "timeout" THEN -op.fd ELSE op.fd
Owners(F) == F \cup {-f : f \in F}

\* Two owners for every client, and the accept is none of theirs.
LEMMA OwnersFacts ==
  ASSUME NEW F \in SUBSET Fds
  PROVE  /\ Cardinality(F) \in Nat
         /\ IsFiniteSet(Owners(F)) /\ Cardinality(Owners(F)) = 2 * Cardinality(F)
         /\ IsFiniteSet(Owners(F) \cup {0}) /\ Cardinality(Owners(F) \cup {0}) = 2 * Cardinality(F) + 1
<1>1. IsFiniteSet(F) /\ Cardinality(F) \in Nat /\ F \subseteq Nat \ {0}
  BY FdsAssumption, FS_Subset, FS_CardinalityType
<1>2. PICK G : G = {-f : f \in F}
  OBVIOUS
<1>3. IsFiniteSet(G) /\ Cardinality(G) = Cardinality(F)
  <2>1. PICK h : h = [f \in F |-> -f]
    OBVIOUS
  <2>2. h \in [F -> G] /\ \A g \in G : \E f \in F : h[f] = g
    BY <1>2, <2>1
  <2>3. \A a, b \in F : h[a] = h[b] => a = b
    BY <1>1, <2>1
  <2>4. ExistsBijection(F, G)
    BY <2>2, <2>3 DEF ExistsBijection, Bijection, Injection, Surjection, IsInjective
  <2> QED
    BY <1>1, <2>4, FS_Bijection
<1>4. F \cap G = {} /\ 0 \notin F \cup G
  BY <1>1, <1>2
<1>5. IsFiniteSet(F \cup G) /\ Cardinality(F \cup G) = Cardinality(F) + Cardinality(G)
  <2>1. Cardinality(F \cap G) = 0
    BY <1>4, FS_EmptySet
  <2>2. /\ IsFiniteSet(F \cup G)
        /\ Cardinality(F \cup G) = Cardinality(F) + Cardinality(G) - Cardinality(F \cap G)
    BY <1>1, <1>3, FS_Union
  <2> QED
    BY <1>1, <1>3, <2>1, <2>2
<1>6. Owners(F) = F \cup G
  BY <1>2 DEF Owners
<1>7. IsFiniteSet(Owners(F)) /\ Cardinality(Owners(F)) = 2 * Cardinality(F)
  BY <1>1, <1>3, <1>5, <1>6
<1>8. IsFiniteSet(Owners(F) \cup {0}) /\ Cardinality(Owners(F) \cup {0}) = Cardinality(Owners(F)) + 1
  BY <1>4, <1>6, <1>7, FS_AddElement
<1> QED
  BY <1>1, <1>7, <1>8

\* An owner tells of which group an operation is.
LEMMA OwnerFacts ==
  \A op \in Operation :
    \/ op = Acceptor /\ Owner(op) = 0
    \/ \E fd \in Fds : op \in Client(fd) /\ Owner(op) = fd
    \/ \E fd \in Fds : op \in Timeouts(fd) /\ Owner(op) = -fd
<1> SUFFICES ASSUME NEW op \in Operation
             PROVE  \/ op = Acceptor /\ Owner(op) = 0
                    \/ \E fd \in Fds : op \in Client(fd) /\ Owner(op) = fd
                    \/ \E fd \in Fds : op \in Timeouts(fd) /\ Owner(op) = -fd
  OBVIOUS
<1>1. CASE op = Acceptor /\ op.op = "accept"
  BY <1>1 DEF Owner
<1>2. CASE op.op \in ClientKinds /\ op.fd \in Fds /\ op \in Client(op.fd)
  <2>1. Owner(op) = op.fd
    BY <1>2 DEF Owner, ClientKinds
  <2> QED
    BY <1>2, <2>1
<1>3. CASE op.op = "timeout" /\ op.fd \in Fds /\ op \in Timeouts(op.fd)
  <2>1. Owner(op) = -op.fd
    BY <1>3 DEF Owner
  <2> QED
    BY <1>3, <2>1
<1> QED
  BY <1>1, <1>2, <1>3, OperationKinds

\* Operations with the same owner are of the same group.
LEMMA SameOwner ==
  ASSUME NEW a \in Operation, NEW b \in Operation, Owner(a) = Owner(b)
  PROVE  \/ a = Acceptor /\ b = Acceptor
         \/ \E fd \in Fds : a \in Client(fd) /\ b \in Client(fd)
         \/ \E fd \in Fds : a \in Timeouts(fd) /\ b \in Timeouts(fd)
<1>1. Fds \subseteq Nat \ {0}
  BY FdsAssumption
<1>2. CASE a = Acceptor /\ Owner(a) = 0
  <2>1. \A fd \in Fds : Owner(b) # fd /\ Owner(b) # -fd
    BY <1>1, <1>2
  <2> QED
    BY <1>2, <2>1, OwnerFacts
<1>3. ASSUME NEW fd \in Fds, a \in Client(fd), Owner(a) = fd
      PROVE  \E g \in Fds : a \in Client(g) /\ b \in Client(g)
  <2>1. Owner(b) # 0 /\ \A g \in Fds : Owner(b) # -g
    BY <1>1, <1>3
  <2>2. \E g \in Fds : b \in Client(g) /\ Owner(b) = g
    BY <2>1, OwnerFacts
  <2> QED
    BY <1>3, <2>2
<1>4. ASSUME NEW fd \in Fds, a \in Timeouts(fd), Owner(a) = -fd
      PROVE  \E g \in Fds : a \in Timeouts(g) /\ b \in Timeouts(g)
  <2>1. Owner(b) # 0 /\ \A g \in Fds : Owner(b) # g
    BY <1>1, <1>4
  <2>2. PICK g \in Fds : b \in Timeouts(g) /\ Owner(b) = -g
    BY <2>1, OwnerFacts
  <2>3. g = fd
    <3>1. g \in Nat /\ fd \in Nat
      BY <1>1
    <3>2. -g = -fd
      BY <1>4, <2>2
    <3>3. \A x, y \in Nat : -x = -y => x = y
      OBVIOUS
    <3> QED
      BY <3>1, <3>2, <3>3
  <2> QED
    BY <1>4, <2>2, <2>3
<1> QED
  BY <1>2, <1>3, <1>4, OwnerFacts

\* The queue holds two operations at most, a recv and its timeout, of everybody
\* who has one in it, and one accept.
LEMMA QueueFits ==
  ASSUME RingOK, OnePending, TimeoutsQueued, NEW F \in SUBSET Fds,
         \A fd \in Fds \ F : OpsAt(sq, Client(fd)) = {}
  PROVE  /\ Len(sq) \in Nat /\ Len(sq) <= 2 * Cardinality(F) + 1
         /\ OpsAt(sq, {Acceptor}) = {} => Len(sq) <= 2 * Cardinality(F)
<1> DEFINE g == [k \in 1 .. Len(sq) |-> Owner(sq[k])]
<1>1. Len(sq) \in Nat /\ \A k \in 1 .. Len(sq) : sq[k] \in Operation
  BY DEF RingOK, RingTypeOK
<1>2. ASSUME NEW j \in 1 .. Len(sq), NEW k \in 1 .. Len(sq), Owner(sq[j]) = Owner(sq[k]) PROVE j = k
  <2>1. sq[j] \in Operation /\ sq[k] \in Operation
    BY <1>1
  <2>2. CASE sq[j] = Acceptor /\ sq[k] = Acceptor
    <3>1. Once({Acceptor}) /\ j \in OpsAt(sq, {Acceptor}) /\ k \in OpsAt(sq, {Acceptor})
      BY <2>2 DEF OnePending, OpsAt
    <3>2. \A a, b \in OpsAt(sq, {Acceptor}) : a = b
      BY <3>1 DEF Once
    <3> QED
      BY <3>1, <3>2
  <2>3. ASSUME NEW fd \in Fds, sq[j] \in Client(fd), sq[k] \in Client(fd) PROVE j = k
    <3>1. Once(Client(fd)) /\ j \in OpsAt(sq, Client(fd)) /\ k \in OpsAt(sq, Client(fd))
      BY <2>3 DEF OnePending, AwaitsOne, OpsAt
    <3>2. \A a, b \in OpsAt(sq, Client(fd)) : a = b
      BY <3>1 DEF Once
    <3> QED
      BY <3>1, <3>2
  <2>4. ASSUME NEW fd \in Fds, sq[j] \in Timeouts(fd), sq[k] \in Timeouts(fd) PROVE j = k
    <3>1. j \in OpsAt(sq, Timeouts(fd)) /\ k \in OpsAt(sq, Timeouts(fd))
      BY <2>4 DEF OpsAt
    <3>2. \A a, b \in OpsAt(sq, Timeouts(fd)) : a = b
      BY DEF TimeoutsQueued
    <3> QED
      BY <3>1, <3>2
  <2> QED
    BY <1>2, <2>1, <2>2, <2>3, <2>4, SameOwner
<1>3. ASSUME NEW k \in 1 .. Len(sq)
      PROVE  /\ Owner(sq[k]) \in Owners(F) \cup {0}
             /\ OpsAt(sq, {Acceptor}) = {} => Owner(sq[k]) \in Owners(F)
  <2>1. CASE sq[k] = Acceptor /\ Owner(sq[k]) = 0
    BY <2>1 DEF OpsAt
  <2>2. ASSUME NEW fd \in Fds, sq[k] \in Client(fd), Owner(sq[k]) = fd PROVE Owner(sq[k]) \in Owners(F)
    <3>1. k \in OpsAt(sq, Client(fd))
      BY <2>2 DEF OpsAt
    <3>2. fd \in F
      BY <3>1
    <3> QED
      BY <2>2, <3>2 DEF Owners
  <2>3. ASSUME NEW fd \in Fds, sq[k] \in Timeouts(fd), Owner(sq[k]) = -fd PROVE Owner(sq[k]) \in Owners(F)
    <3>1. k \in OpsAt(sq, Timeouts(fd))
      BY <2>3 DEF OpsAt
    <3>2. OpsAt(sq, Client(fd)) # {}
      BY <3>1 DEF TimeoutsQueued
    <3>3. fd \in F
      BY <3>2
    <3> QED
      BY <2>3, <3>3 DEF Owners
  <2> QED
    BY <1>1, <2>1, <2>2, <2>3, OwnerFacts
<1>4. \A j, k \in 1 .. Len(sq) : g[j] = g[k] => j = k
  BY <1>2
<1>5. g \in [1 .. Len(sq) -> Owners(F) \cup {0}]
  BY <1>3
<1>6. OpsAt(sq, {Acceptor}) = {} => g \in [1 .. Len(sq) -> Owners(F)]
  BY <1>3
<1> HIDE DEF g
<1>7. /\ IsFiniteSet(Owners(F)) /\ Cardinality(Owners(F)) = 2 * Cardinality(F)
      /\ IsFiniteSet(Owners(F) \cup {0}) /\ Cardinality(Owners(F) \cup {0}) = 2 * Cardinality(F) + 1
  BY OwnersFacts
<1>8. Len(sq) <= 2 * Cardinality(F) + 1
  <2>1. Len(sq) <= Cardinality(Owners(F) \cup {0})
    BY <1>1, <1>4, <1>5, <1>7, OwnersBound
  <2> QED
    BY <1>7, <2>1
<1>9. ASSUME OpsAt(sq, {Acceptor}) = {} PROVE Len(sq) <= 2 * Cardinality(F)
  <2>1. Len(sq) <= Cardinality(Owners(F))
    BY <1>1, <1>4, <1>6, <1>7, <1>9, OwnersBound
  <2> QED
    BY <1>7, <2>1
<1> QED
  BY <1>1, <1>8, <1>9

\* With two entries for every client and one for the accept, a handler always
\* finds the room it needs: the completion it handles has left the queue.
LEMMA NextStaysUp ==
  ASSUME ServerInv, MCNext, SqDepth >= 2 * Cardinality(Fds) + 1
  PROVE  up'
<1>0. up /\ RingOK /\ OnePending /\ TimeoutsQueued
  BY UpToStep, InvParts
<1>f. IsFiniteSet(Fds) /\ Cardinality(Fds) \in Nat /\ SqDepth \in Nat
  BY FdsAssumption, FS_CardinalityType, SqDepthAssumption
<1>w. ASSUME NEW f \in Fds
      PROVE  Cardinality(Fds \ {f}) = Cardinality(Fds) - 1 /\ Fds \ {f} \in SUBSET Fds
  BY <1>f, FS_RemoveElement
<1>1. ASSUME NEW r, NEW ops, AcceptHandled(r, ops) PROVE up'
  <2>1. Peek("accept") /\ Prepare(ops)
    BY <1>1 DEF AcceptHandled
  <2>2. OpsAt(sq, {Acceptor}) = {} /\ (Res # FAILED => co[Res] = "none")
    BY <2>1, PeekAccept
  <2>3. CASE ops = <<Acceptor>>
    <3>1. Len(sq) \in Nat /\ Len(sq) <= 2 * Cardinality(Fds)
      BY <1>0, <2>2, QueueFits
    <3>2. ops \in Seq(Operation) /\ Len(ops) = 1
      BY <2>3, AcceptAgainFacts
    <3>3. Len(sq) + Len(ops) <= SqDepth
      BY <1>f, <3>1, <3>2
    <3> QED
      BY <1>0, <2>1, <3>2, <3>3, PrepareFacts
  <2>4. CASE r = Res /\ r \in Fds /\ ops = RecvOps(r) \o <<Acceptor>>
    <3>1. co[r] = "none"
      <4>1. FAILED \notin Fds
        BY FdsAssumption DEF FAILED
      <4> QED
        BY <2>2, <2>4, <4>1
    <3>2. OpsAt(sq, Client(r)) = {}
      BY <1>0, <2>4, <3>1 DEF OnePending, AwaitsOne, Absent
    <3>3. PICK F \in SUBSET Fds : F = Fds \ {r} /\ Cardinality(F) = Cardinality(Fds) - 1
      BY <1>w, <2>4
    <3>4. \A fd \in Fds \ F : OpsAt(sq, Client(fd)) = {}
      BY <3>2, <3>3
    <3>5. Len(sq) \in Nat /\ Len(sq) <= 2 * Cardinality(F)
      BY <1>0, <2>2, <3>4, QueueFits
    <3>6. ops \in Seq(Operation) /\ Len(ops) \in 2 .. 3
      <4>1. r \in Fds /\ ops = RecvOps(r) \o <<Acceptor>>
        BY <2>4
      <4> HIDE <2>4
      <4> QED
        BY <1>0, <4>1, AcceptOpsFacts
    <3>7. PICK n \in Nat, l \in Nat, o \in 2 .. 3, d \in Nat :
            /\ n = Cardinality(Fds) /\ l = Len(sq) /\ o = Len(ops) /\ d = SqDepth
            /\ l <= 2 * (n - 1) /\ d >= 2 * n + 1
      BY <1>f, <3>3, <3>5, <3>6
    <3>8. Len(sq) + Len(ops) <= SqDepth
      <4>1. l + o <= d
        <5>1. l <= 2 * (n - 1) /\ d >= 2 * n + 1
          BY <3>7
        <5> QED
          BY <5>1
      <4> QED
        BY <3>7, <4>1
    <3> QED
      BY <1>0, <2>1, <3>6, <3>8, PrepareFacts
  <2> QED
    BY <1>1, <2>3, <2>4 DEF AcceptHandled
<1>2. ASSUME NEW f \in Fds, NEW next, f = Op.fd, Resumed(f, next) PROVE up'
  <2>1. up /\ cq # << >> /\ Op \in Client(f)
    BY <1>2 DEF Resumed
  <2>2. CASE UNCHANGED <<up, sq>>
    BY <1>0, <2>2
  <2>3. ASSUME NEW ops, OpsOf(ops, f, next), Prepare(ops) PROVE up'
    <3>1. ops \in Seq(Operation) /\ Len(ops) \in 1 .. 2
      BY <2>3, OpsOfFacts
    <3>2. OpsAt(sq, Client(f)) = {}
      <4>1. 1 \in DoneAt(cq, Client(f))
        <5>1. PICK T : T = Completion /\ cq \in Seq(T)
          BY <1>0 DEF RingOK, RingTypeOK
        <5>2. 1 \in 1 .. Len(cq) /\ Head(cq) = cq[1]
          BY <2>1, <5>1
        <5> QED
          BY <2>1, <5>2 DEF DoneAt, Op
      <4> QED
        BY <1>0, <4>1 DEF OnePending, AwaitsOne, Once
    <3>3. PICK F \in SUBSET Fds : F = Fds \ {f} /\ Cardinality(F) = Cardinality(Fds) - 1
      BY <1>w
    <3>4. \A fd \in Fds \ F : OpsAt(sq, Client(fd)) = {}
      BY <3>2, <3>3
    <3>5. Len(sq) \in Nat /\ Len(sq) <= 2 * Cardinality(F) + 1
      BY <1>0, <3>4, QueueFits
    <3>6. PICK n \in Nat, l \in Nat, o \in 1 .. 2, d \in Nat :
            /\ n = Cardinality(Fds) /\ l = Len(sq) /\ o = Len(ops) /\ d = SqDepth
            /\ l <= 2 * (n - 1) + 1 /\ d >= 2 * n + 1
      BY <1>f, <3>1, <3>3, <3>5
    <3>7. Len(sq) + Len(ops) <= SqDepth
      <4>1. l + o <= d
        <5>1. l <= 2 * (n - 1) + 1 /\ d >= 2 * n + 1
          BY <3>6
        <5> QED
          BY <5>1
      <4> QED
        BY <3>6, <4>1
    <3> QED
      BY <1>0, <2>3, <3>1, <3>7, PrepareFacts
  <2> QED
    BY <1>2, <2>2, <2>3 DEF Resumed
<1>3. CASE LoopStep \/ TimeoutCqe
  BY <1>0, <1>3 DEF LoopStep, Submit, Wait, EndBatch, TimeoutCqe
<1>4. CASE KernelStep
  BY <1>0, <1>4 DEF KernelStep, Completed
<1> QED
  BY <1>1, <1>2, <1>3, <1>4, RingCases

\* The places an operation of client fd can have on the ring hold one at most.
LEMMA UnderClient ==
  ASSUME RingOK, NEW fd \in Fds, AwaitsOne(fd), NEW kind \in ClientKinds
  PROVE  Cardinality(Under(fd, kind)) = (IF co[fd] = kind THEN 1 ELSE 0)
<1>1. /\ sq \in Seq(Operation) /\ flight \subseteq Operation /\ cq \in Seq(Completion)
  BY DEF RingOK, RingTypeOK
<1>2. PICK M, N : M = Client(fd) /\ N = Other(fd, co[fd])
  OBVIOUS
<1>3. Once(M) /\ Absent(N) /\ (Absent(M) <=> co[fd] = "none")
  BY <1>2 DEF AwaitsOne
<1>4. ASSUME NEW op \in Pending
      PROVE  \/ \E k \in 1 .. Len(sq) : op = sq[k]
             \/ op \in flight
             \/ \E k \in 1 .. Len(cq) : op = cq[k].op
  BY <1>1, <1>4 DEF Pending, ToSet
<1>5. /\ \A k \in 1 .. Len(sq) : sq[k] \in Pending
      /\ flight \subseteq Pending
      /\ \A k \in 1 .. Len(cq) : cq[k].op \in Pending
  BY <1>1 DEF Pending, ToSet
<1>6. Pending \subseteq Operation
  <2>1. \A k \in 1 .. Len(sq) : sq[k] \in Operation
    BY <1>1
  <2>2. \A k \in 1 .. Len(cq) : cq[k] \in Completion
    BY <1>1
  <2>3. \A k \in 1 .. Len(cq) : cq[k].op \in Operation
    BY <2>2 DEF Completion
  <2> QED
    BY <1>1, <1>4, <2>1, <2>3
<1>7. ASSUME NEW op \in Under(fd, kind) PROVE op \in Pending /\ op \in M /\ op.op = kind
  BY <1>2, <1>6, <1>7, OperationKinds DEF Under
<1>8. \A x, y \in Pending \cap M : x = y
  <2>1. ASSUME NEW x \in Pending \cap M
        PROVE  \/ \E k \in OpsAt(sq, M) : x = sq[k]
               \/ x \in flight \cap M
               \/ \E k \in DoneAt(cq, M) : x = cq[k].op
    BY <1>4, <2>1 DEF OpsAt, DoneAt
  <2>2. CASE OpsAt(sq, M) # {}
    <3>1. flight \cap M = {} /\ DoneAt(cq, M) = {} /\ \A j, k \in OpsAt(sq, M) : j = k
      BY <1>3, <2>2 DEF Once
    <3> QED
      BY <2>1, <3>1
  <2>3. CASE OpsAt(sq, M) = {} /\ flight \cap M # {}
    <3>1. DoneAt(cq, M) = {} /\ \A a, b \in flight \cap M : a = b
      BY <1>3, <2>3 DEF Once
    <3> QED
      BY <2>1, <2>3, <3>1
  <2>4. CASE OpsAt(sq, M) = {} /\ flight \cap M = {}
    <3>1. \A j, k \in DoneAt(cq, M) : j = k
      BY <1>3 DEF Once
    <3> QED
      BY <2>1, <2>4, <3>1
  <2> QED
    BY <2>2, <2>3, <2>4
<1>9. ASSUME NEW op \in Pending, op \in N PROVE FALSE
  BY <1>3, <1>4, <1>9 DEF Absent, OpsAt, DoneAt
<1>10. Cardinality(Under(fd, kind)) = IF Under(fd, kind) = {} THEN 0 ELSE 1
  <2>1. \A x, y \in Under(fd, kind) : x = y
    BY <1>7, <1>8
  <2> QED
    BY <2>1, AtMostOne
<1>11. ASSUME co[fd] # kind PROVE Under(fd, kind) = {}
  <2>1. ASSUME NEW op \in Under(fd, kind) PROVE FALSE
    <3>1. op \in Pending /\ op \in Client(fd) /\ op.op # co[fd]
      BY <1>2, <1>7, <1>11, <2>1
    <3>2. op \in N
      BY <1>2, <3>1, OperationKinds
    <3> QED
      BY <1>9, <3>1, <3>2
  <2> QED
    BY <2>1
<1>12. ASSUME co[fd] = kind PROVE Under(fd, kind) # {}
  <2>1. ~Absent(M)
    BY <1>3, <1>12 DEF ClientKinds
  <2>2. \E op \in Pending : op \in M
    BY <1>5, <2>1 DEF Absent, OpsAt, DoneAt
  <2>3. PICK op \in Pending : op \in M
    BY <2>2
  <2>4. op \notin N
    BY <1>9, <2>3
  <2>5. op \in Client(fd) /\ op.op = kind /\ op.fd = fd
    BY <1>2, <1>12, <2>3, <2>4, OperationKinds
  <2>6. op \in Under(fd, kind)
    BY <2>3, <2>5 DEF Under
  <2> QED
    BY <2>6
<1> QED
  BY <1>10, <1>11, <1>12

\* A descriptor that is open is in accept's completion, or has a coroutine, and
\* if that is closing a slot, the close has not been done.
Owned(fd) ==
  \/ \E k \in DoneAt(cq, {Acceptor}) : cq[k].res = fd
  \/ co[fd] # "none" /\ (co[fd] = "close" => DoneAt(cq, Client(fd)) = {})
NoneLost == \A fd \in conns : Owned(fd)

\* A handler of something else leaves it so.
LEMMA OwnedSeen ==
  ASSUME RingOK, cq # << >>, cq' = Tail(cq), NEW fd, Owned(fd), co'[fd] = co[fd],
         Head(cq).op = Acceptor => Head(cq).res # fd
  PROVE  Owned(fd)'
<1>0. cq \in Seq(Completion)
  BY DEF RingOK, RingTypeOK
<1>1. PICK M, N : M = {Acceptor} /\ N = Client(fd)
  OBVIOUS
<1>2. ASSUME NEW k \in DoneAt(cq, M), cq[k].res = fd PROVE \E j \in DoneAt(cq', M) : cq'[j].res = fd
  <2>1. k # 1
    <3>1. Head(cq) = cq[1] /\ (1 \in DoneAt(cq, M) <=> Head(cq).op \in M)
      BY <1>0, TailAt
    <3> QED
      BY <1>1, <1>2, <3>1
  <2>2. k - 1 \in DoneAt(cq', M)
    BY <1>0, <1>2, <2>1, TailAt
  <2>3. cq'[k - 1] = cq[k]
    <3>1. k \in Int /\ k - 1 \in 1 .. Len(cq') /\ (k - 1) + 1 = k
      BY <1>2, <2>2 DEF DoneAt
    <3> QED
      BY <1>0, <3>1, TailEntries
  <2> QED
    BY <1>2, <2>2, <2>3
<1>3. ASSUME DoneAt(cq, N) = {} PROVE DoneAt(cq', N) = {}
  <2>1. \A k \in DoneAt(cq', N) : k + 1 \in DoneAt(cq, N)
    BY <1>0, TailAt
  <2> QED
    BY <1>3, <2>1
<1> QED
  BY <1>1, <1>2, <1>3 DEF Owned

\* So does a completion of something else than that close.
LEMMA OwnedCompleted ==
  ASSUME RingOK, NEW op, NEW res \in Int, Completed(op, res), co' = co,
         NEW fd, Owned(fd), op \in Client(fd) => co[fd] # "close"
  PROVE  Owned(fd)'
<1>1. PICK M, N : M = {Acceptor} /\ N = Client(fd)
  OBVIOUS
<1>2. ASSUME NEW k \in DoneAt(cq, M), cq[k].res = fd PROVE k \in DoneAt(cq', M) /\ cq'[k].res = fd
  <2>1. \A j \in 1 .. Len(cq) : j \in 1 .. Len(cq') /\ cq'[j] = cq[j]
    BY CompletedQueue
  <2> QED
    BY <1>2, <2>1 DEF DoneAt
<1>3. ASSUME co[fd] = "close", DoneAt(cq, N) = {} PROVE DoneAt(cq', N) = {}
  <2>1. \A m \in N : m.op # "timeout"
    BY <1>1, NoTimeouts
  <2>2. DoneAt(cq', N) = DoneAt(cq, N) \cup (IF op \in N THEN {Len(cq')} ELSE {})
    BY <2>1, CompletedOnce
  <2> QED
    BY <1>1, <1>3, <2>2
<1> QED
  BY <1>1, <1>2, <1>3 DEF Owned

\* Every action that leaves the process up does, or hands the descriptor on.
LEMMA NextNoneLost == ASSUME ServerInv, NoneLost, MCNext, up' PROVE NoneLost'
<1>0. /\ up /\ RingOK /\ OnePending /\ conns \subseteq Fds /\ StepCases
      /\ cq \in Seq(Completion) /\ co \in [Fds -> {"none"} \cup ClientKinds]
  BY UpToStep, InvParts, NextCases DEF RingTypeOK, RingOK
<1>1. CASE LoopStep
  <2>1. UNCHANGED <<cq, co, conns>>
    BY <1>1 DEF LoopStep, Submit, Wait, EndBatch, coroutines, network
  <2> QED
    BY <2>1 DEF NoneLost, Owned
<1>2. CASE TimeoutCqe
  <2>1. UNCHANGED <<co, conns>> /\ cq' = Tail(cq)
    BY <1>2 DEF TimeoutCqe, Seen, coroutines, network
  <2>2. cq # << >> /\ Op = Head(cq).op /\ Op.op = "timeout"
    BY <1>0, <1>2, PeekFacts DEF TimeoutCqe
  <2>3. Head(cq).op # Acceptor
    BY <2>2 DEF Acceptor
  <2> QED
    BY <1>0, <2>1, <2>2, <2>3, OwnedSeen DEF NoneLost
<1>3. CASE Accepted \/ NoPipe \/ AcceptFailed
  <2>1. Peek("accept") /\ cq' = Tail(cq)
    BY <1>3 DEF Accepted, NoPipe, AcceptFailed, Seen
  <2>2. cq # << >> /\ Op = Head(cq).op /\ Res = Head(cq).res /\ (Res # FAILED => Res \in Fds)
    BY <2>1, PeekAccept DEF Res
  <2>3. ASSUME NEW fd \in conns, fd # Res PROVE Owned(fd)'
    <3>1. co'[fd] = co[fd]
      BY <1>0, <1>3, <2>3 DEF Accepted, NoPipe, AcceptFailed, coroutines
    <3> QED
      BY <1>0, <2>1, <2>2, <2>3, <3>1, OwnedSeen DEF NoneLost
  <2>4. CASE Accepted
    <3>1. PICK r \in Fds : r = Res /\ co'[r] = "recv"
      BY <1>0, <2>2, <2>4 DEF Accepted
    <3>2. Owned(r)'
      BY <3>1 DEF Owned
    <3>3. conns' = conns
      BY <2>4 DEF Accepted, network
    <3> QED
      BY <2>3, <3>1, <3>2, <3>3 DEF NoneLost
  <2>5. CASE NoPipe
    <3>1. conns' = conns \ {Res}
      BY <2>5 DEF NoPipe
    <3> QED
      BY <2>3, <3>1 DEF NoneLost
  <2>6. CASE AcceptFailed
    <3>1. conns' = conns /\ Res = FAILED
      BY <2>6 DEF AcceptFailed, network
    <3>2. Res \notin conns
      BY <1>0, <3>1, FdsAssumption DEF FAILED
    <3> QED
      BY <2>3, <3>1, <3>2 DEF NoneLost
  <2> QED
    BY <1>3, <2>4, <2>5, <2>6
<1>4. CASE EchoResumes \/ FileResumes
  <2>1. PICK f \in Fds : \E n : f = Op.fd /\ Resumed(f, n)
    BY <1>4, EchoResumesResumed, FileResumesResumed
  <2>2. PICK next : f = Op.fd /\ Resumed(f, next)
    BY <2>1
  <2>3. /\ cq # << >> /\ Head(cq).op \in Client(f) /\ co[f] = Head(cq).op.op /\ cq' = Tail(cq)
        /\ co' = [co EXCEPT ![f] = next] /\ conns' \subseteq conns
    BY <2>2 DEF Resumed, Seen, Op
  <2>4. Head(cq).op # Acceptor
    BY <2>3, OperationKinds
  <2>5. ASSUME NEW g \in conns, g # f PROVE Owned(g)'
    <3>1. co'[g] = co[g]
      BY <1>0, <2>3, <2>5
    <3> QED
      BY <1>0, <2>3, <2>4, <2>5, <3>1, OwnedSeen DEF NoneLost
  <2>6. PICK N : N = Client(f)
    OBVIOUS
  <2>7. DoneAt(cq, N) = {1}
    <3>1. 1 \in DoneAt(cq, N)
      BY <1>0, <2>3, <2>6, TailAt
    <3>2. Once(N)
      BY <1>0, <2>6 DEF OnePending, AwaitsOne
    <3> QED
      BY <3>1, <3>2 DEF Once
  <2>8. ASSUME f \in conns' PROVE Owned(f)'
    <3>1. CASE next = "none"
      <4>1. co[f] = "close"
        BY <2>2, <2>8, <3>1 DEF Resumed, ClientKinds
      <4>2. PICK k \in DoneAt(cq, {Acceptor}) : cq[k].res = f
        <5>1. Owned(f)
          BY <2>3, <2>8 DEF NoneLost
        <5> QED
          BY <2>6, <2>7, <4>1, <5>1 DEF Owned
      <4>3. PICK M : M = {Acceptor}
        OBVIOUS
      <4>4. k # 1
        BY <2>3, <2>4, <4>2, <1>0, TailAt DEF DoneAt
      <4>5. k - 1 \in DoneAt(cq', M)
        BY <1>0, <2>3, <4>2, <4>3, <4>4, TailAt
      <4>6. cq'[k - 1] = cq[k]
        <5>1. k \in Int /\ k - 1 \in 1 .. Len(cq') /\ (k - 1) + 1 = k
          BY <4>2, <4>5 DEF DoneAt
        <5> QED
          BY <1>0, <2>3, <5>1, TailEntries
      <4> QED
        BY <4>2, <4>3, <4>5, <4>6 DEF Owned
    <3>2. CASE next # "none"
      <4>1. co'[f] = next
        BY <1>0, <2>3
      <4>2. DoneAt(cq', N) = {}
        <5>1. \A k \in DoneAt(cq', N) : k \in Nat \ {0} /\ k + 1 \in DoneAt(cq, N)
          BY <1>0, <2>3, TailAt
        <5>2. ASSUME NEW k \in DoneAt(cq', N) PROVE FALSE
          <6>1. k \in Nat \ {0} /\ k + 1 = 1
            BY <2>7, <5>1
          <6> QED
            BY <6>1
        <5> QED
          BY <5>2
      <4> QED
        BY <2>6, <3>2, <4>1, <4>2 DEF Owned
    <3> QED
      BY <3>1, <3>2
  <2> QED
    BY <2>3, <2>5, <2>8 DEF NoneLost
\* The kernel: a completion says of a connection that is open what NoneLost needs.
<1>5. ASSUME NEW op, NEW res \in Int, Completed(op, res), co' = co,
             \A fd \in conns' : \/ op = Acceptor /\ res = fd
                                \/ fd \in conns /\ (op \in Client(fd) => op.op # "close")
      PROVE  NoneLost'
  <2> SUFFICES ASSUME NEW fd \in conns' PROVE Owned(fd)'
    BY DEF NoneLost
  <2>1. CASE op = Acceptor /\ res = fd
    <3>1. PICK c : c = [op |-> op, res |-> res]
      OBVIOUS
    <3>2. Len(cq') \in 1 .. Len(cq') /\ cq'[Len(cq')] = c
      BY <1>0, <1>5, <3>1, CompletedQueue
    <3>3. Len(cq') \in DoneAt(cq', {Acceptor}) /\ cq'[Len(cq')].res = fd
      BY <2>1, <3>1, <3>2 DEF DoneAt
    <3> QED
      BY <3>3 DEF Owned
  <2>2. CASE fd \in conns /\ (op \in Client(fd) => op.op # "close")
    <3>1. op \in Client(fd) => co[fd] # "close"
      BY <1>0, <1>5, <2>2, InFlightClient DEF Completed
    <3> QED
      BY <1>0, <1>5, <2>2, <3>1, OwnedCompleted DEF NoneLost
  <2> QED
    BY <1>5, <2>1, <2>2
<1>6. ASSUME NEW fd \in Fds, Connects(fd) PROVE NoneLost'
  <2>1. Completed(Acceptor, fd) /\ conns' = conns \cup {fd} /\ co' = co /\ fd \in Int
    BY <1>6, CompletesCompleted, FdsAssumption DEF Connects, AcceptCompletes, coroutines
  <2>2. \A g : Acceptor \notin Client(g)
    BY OperationKinds
  <2> QED
    BY <1>5, <2>1, <2>2
<1>7. ASSUME NEW fd \in Fds, CloseCompletes(fd) PROVE NoneLost'
  <2>1. Completed(CloseSlot(fd), 0) /\ CloseSlot(fd) \in Client(fd) /\ conns' = conns \ {fd} /\ co' = co
    BY <1>7, CompletesCompleted, TaggedKinds DEF CloseCompletes, coroutines
  <2>2. \A g \in conns' : g \in conns /\ CloseSlot(fd) \notin Client(g)
    BY <1>0, <2>1, OperationKinds
  <2> QED
    BY <1>5, <2>1, <2>2
<1>8. ASSUME NEW fd \in Fds, NEW n \in 1 .. BufSize, RecvCompletes(fd, n) PROVE NoneLost'
  <2>1. n \in Int /\ UNCHANGED <<co, conns>>
    BY <1>8, BufAssumption DEF RecvCompletes
  <2>2. PICK op \in Client(fd) : op.op = "recv" /\ Completed(op, n)
    BY <1>0, <1>8, <2>1, RecvEndsCompletes DEF RecvCompletes
  <2> QED
    BY <1>5, <2>1, <2>2
<1>9. ASSUME NEW fd \in Fds, NEW n \in 1 .. BufSize, SendCompletes(fd, n) \/ ReplyCompletes(fd, n)
      PROVE  NoneLost'
  <2>1. Completed(Send(fd), n) /\ n \in Int /\ UNCHANGED <<co, conns>>
    BY <1>9, CompletesCompleted, BufAssumption
       DEF SendCompletes, ReplyCompletes, coroutines, network
  <2>2. Send(fd).op # "close"
    BY TaggedKinds
  <2> QED
    BY <1>5, <2>1, <2>2
<1>10. ASSUME NEW fd \in Fds, NEW n \in 0 .. BufSize, ReadCompletes(fd, n) PROVE NoneLost'
  <2>1. Completed(Read(fd), n) /\ n \in Int /\ UNCHANGED <<co, conns>>
    BY <1>10, CompletesCompleted, BufAssumption DEF ReadCompletes, network
  <2>2. Read(fd).op # "close"
    BY TaggedKinds
  <2> QED
    BY <1>5, <2>1, <2>2
<1>11. ASSUME NEW op, NEW res, Failed(op, res) PROVE NoneLost'
  <2>1. Completed(op, res) /\ res \in Int /\ op.op # "close" /\ UNCHANGED <<co, conns>>
    BY <1>11 DEF Failed, coroutines
  <2> QED
    BY <1>5, <2>1
<1> QED
  BY <1>0, <1>1, <1>2, <1>3, <1>4, <1>6, <1>7, <1>8, <1>9, <1>10, <1>11 DEF StepCases

\* Each live coroutine has one operation under way, of the kind it awaits, and
\* nobody else has one; a connection a coroutine serves is open, and one
\* that is open has a coroutine or is about to get one; and the server does not run
\* into a full submission queue, for any number of descriptors and any queue with
\* two entries for each of them and one for the accept.
THEOREM OneAwaitAlways == MCSpec => []OneAwait
<1> DEFINE RoomInv == SqDepth >= 2 * Cardinality(Fds) + 1 => up
           OwnedInv == up => NoneLost
<1>1. MCInit => RoomInv
  BY DEF MCInit, Init, RingInit
<1>2. ServerInv /\ RoomInv /\ [MCNext]_mcvars => RoomInv'
  <2>1. ServerInv /\ RoomInv /\ MCNext => RoomInv'
    BY NextStaysUp
  <2>2. RoomInv /\ UNCHANGED mcvars => RoomInv'
    BY DEF mcvars, vars, ring
  <2> QED
    BY <2>1, <2>2
<1>3. MCInit => OwnedInv
  BY DEF MCInit, Init, NoneLost
<1>4. ServerInv /\ OwnedInv /\ [MCNext]_mcvars => OwnedInv'
  <2>1. ServerInv /\ OwnedInv /\ MCNext => OwnedInv'
    BY UpToStep, NextNoneLost
  <2>2. OwnedInv /\ UNCHANGED mcvars => OwnedInv'
    BY DEF mcvars, vars, ring, coroutines, network, NoneLost, Owned
  <2> QED
    BY <2>1, <2>2
<1>5. ServerInv /\ RoomInv /\ OwnedInv => OneAwait
  <2> SUFFICES ASSUME ServerInv, RoomInv, OwnedInv PROVE OneAwait
    OBVIOUS
  <2>1. RingOK /\ BytesOK
    BY DEF ServerInv
  <2>2. TypeOK
    BY <2>1 DEF RingOK, BytesOK, TypeOK
  <2>3. StaysUp
    BY DEF StaysUp
  <2>4. ASSUME up, NEW fd \in Fds, NEW kind \in {"recv", "send", "read", "close"}
        PROVE  Cardinality(Under(fd, kind)) = (IF co[fd] = kind THEN 1 ELSE 0)
    <3>1. AwaitsOne(fd) /\ kind \in ClientKinds
      BY <2>4, InvParts DEF OnePending, ClientKinds
    <3> QED
      BY <2>1, <3>1, UnderClient
  <2>5. ASSUME up, NEW fd \in Fds PROVE co[fd] \in {"recv", "send", "read"} => fd \in conns
    <3>1. InPhase(fd)
      BY <2>5, InvParts
    <3>2. CASE DoneAt(cq, Client(fd)) = {}
      BY <3>1, <3>2 DEF InPhase, Asked
    <3>3. CASE DoneAt(cq, Client(fd)) # {}
      BY <3>1, <3>3 DEF InPhase, Answered
    <3> QED
      BY <3>2, <3>3
  <2>6. ASSUME up, NEW fd \in conns PROVE co[fd] # "none" \/ Arriving(fd)
    <3>1. DOMAIN cq = 1 .. Len(cq)
      BY <2>1 DEF RingOK, RingTypeOK
    <3>2. Owned(fd)
      BY <2>6 DEF NoneLost
    <3> QED
      BY <3>1, <3>2 DEF Owned, DoneAt, Arriving
  <2> QED
    BY <2>2, <2>3, <2>4, <2>5, <2>6 DEF OneAwait
<1> QED
  BY <1>1, <1>2, <1>3, <1>4, <1>5, ServerInvariance, PTL DEF MCSpec

----
\* The bytes that come back with a send are the next ones: what the buffer of a
\* client holds from sent on is what has not come back yet.
LEMMA EchoedNext ==
  ASSUME ServerInv, up, variant # "files",
         NEW fd \in Fds, NEW n \in 1 .. BufSize, SendCompletes(fd, n)
  PROVE  /\ fd \in conns /\ n \in 1 .. MaxBytes /\ Len(echoed[fd]) + n <= read[fd]
         /\ echoed' = [echoed EXCEPT ![fd] = @ \o [k \in 1 .. n |-> Len(@) + k]]
         /\ UNCHANGED <<conns, read>>
<1>t. echoed \in [Fds -> Seq(Nat)]
  BY Types
<1>1. co[fd] = "send" /\ Asked(fd)
  <2>1. Send(fd) \in Client(fd) /\ Send(fd).op = "send"
    BY TaggedKinds
  <2>2. Send(fd) \in flight
    BY DEF SendCompletes, Completes, Complete
  <2>3. co[fd] = Send(fd).op /\ Asked(fd)
    BY <2>1, <2>2, InFlightClient
  <2> QED
    BY <2>1, <2>3
<1>2. fd \in conns /\ Numbered(fd) /\ Len(echoed[fd]) + Len(buf[fd]) = read[fd] + sent[fd]
  BY <1>1 DEF Asked
<1>3. PICK t \in Seq(Nat), e \in Nat, b \in Nat, r \in Nat, o \in Nat, m \in Nat \ {0}, x \in Nat :
        /\ t = buf[fd] /\ e = Len(echoed[fd]) /\ b = Len(buf[fd]) /\ r = read[fd] /\ o = sent[fd]
        /\ m = n /\ x = MaxBytes /\ r <= x
  <2>1. n \in Nat \ {0}
    BY BufAssumption
  <2>2. /\ buf[fd] \in Seq(Nat) /\ Len(echoed[fd]) \in Nat /\ Len(buf[fd]) \in Nat /\ read[fd] \in Nat
        /\ sent[fd] \in Nat /\ MaxBytes \in Nat /\ read[fd] <= MaxBytes
    BY Types
  <2> QED
    BY <2>1, <2>2
<1>4. /\ o + m <= b /\ b <= r /\ e + b = r + o /\ r <= x
      /\ \A k \in 1 .. b : t[k] = r - b + k
  <2>1. sent[fd] + n <= Len(buf[fd])
    BY DEF SendCompletes
  <2> QED
    BY <1>2, <1>3, <2>1 DEF Numbered
<1>5. /\ m \in 1 .. x /\ e + m <= r
      /\ \A k \in 1 .. m : o + k \in 1 .. b /\ r - b + (o + k) = e + k
  <2>1. o + m <= b /\ b <= r /\ e + b = r + o /\ r <= x
    BY <1>4
  <2>2. m \in 1 .. x
    BY <2>1
  <2>3. e + m <= r
    <3>1. e = r + o - b
      BY <2>1
    <3> QED
      BY <2>1, <3>1
  <2>4. ASSUME NEW k \in 1 .. m PROVE o + k \in 1 .. b /\ r - b + (o + k) = e + k
    <3>1. PICK j \in Nat : j = k /\ 1 <= j /\ j <= m
      OBVIOUS
    <3>2. o + j <= b /\ 1 <= o + j /\ r - b + (o + j) = e + j
      BY <2>1, <3>1
    <3> QED
      BY <3>1, <3>2
  <2> QED
    BY <2>2, <2>3, <2>4
<1>6. SubSeq(t, o + 1, o + m) = [k \in 1 .. m |-> e + k]
  <2>1. PICK s \in Seq(Nat) : s = SubSeq(t, o + 1, o + m) /\ Len(s) = m /\ \A k \in 1 .. m : s[k] = t[o + k]
    <3>1. o + m <= Len(t)
      BY <1>3, <1>4
    <3> QED
      BY <3>1, SubSeqFacts
  <2>2. \A k \in 1 .. m : s[k] = e + k
    BY <1>4, <1>5, <2>1
  <2>3. Len(s) = m
    BY <2>1
  <2>4. s = [k \in 1 .. m |-> s[k]]
    BY <2>3
  <2> QED
    BY <2>1, <2>2, <2>4
<1>7. /\ echoed' = [echoed EXCEPT ![fd] = @ \o SubSeq(t, o + 1, o + m)]
      /\ UNCHANGED <<conns, read>>
  BY <1>3 DEF SendCompletes
<1>8. echoed' = [echoed EXCEPT ![fd] = @ \o [k \in 1 .. n |-> Len(@) + k]]
  BY <1>3, <1>6, <1>7, <1>t
<1>9. n \in 1 .. MaxBytes /\ Len(echoed[fd]) + n <= read[fd]
  BY <1>3, <1>5
<1> QED
  BY <1>2, <1>7, <1>8, <1>9

\* What a step of a server is to its clients: a step of the echo service, or
\* nothing.
LEMMA StepServes == ServerInv /\ [MCNext]_mcvars => [Service!Next]_(Service!vars)
<1> SUFFICES ASSUME ServerInv, MCNext PROVE [Service!Next]_(Service!vars)
  BY DEF mcvars, vars, network, Service!vars
<1>0. up /\ RingOK /\ StepCases
  BY UpToStep, InvParts, NextCases DEF ServerInv
<1>1. ASSUME UNCHANGED <<conns, read, echoed>> PROVE [Service!Next]_(Service!vars)
  BY <1>1 DEF Service!vars
<1>2. ASSUME NEW fd \in Fds, fd \in conns, conns' = conns \ {fd}, UNCHANGED <<read, echoed>>
      PROVE  Service!Next
  <2>1. Service!Close(fd)
    BY <1>2 DEF Service!Close
  <2> QED
    BY <2>1 DEF Service!Next
<1>3. ASSUME NEW f \in Fds, NEW next, f = Op.fd, Resumed(f, next) PROVE [Service!Next]_(Service!vars)
  <2>1. UNCHANGED <<read, echoed>> /\ (conns' = conns \/ (Op.op # "close" /\ conns' = conns \ {f}))
    BY <1>3 DEF Resumed
  <2>2. CASE conns' = conns
    BY <1>1, <2>1, <2>2
  <2>3. CASE Op.op # "close" /\ conns' = conns \ {f}
    <3>1. Op \in Client(f) /\ Op.op = co[f] /\ cq # << >>
      BY <1>3 DEF Resumed
    <3>2. co[f] \in {"recv", "send", "read"}
      BY <2>3, <3>1, OperationKinds DEF ClientKinds
    <3>3. f \in conns
      <4>1. InPhase(f)
        BY <1>0, InvParts
      <4>2. DoneAt(cq, Client(f)) = {} => f \in conns
        BY <3>2, <4>1 DEF InPhase, Asked
      <4>3. DoneAt(cq, Client(f)) # {} => f \in conns
        BY <3>2, <4>1 DEF InPhase, Answered
      <4> QED
        BY <4>2, <4>3
    <3> QED
      BY <1>2, <2>1, <2>3, <3>3
  <2> QED
    BY <2>1, <2>2, <2>3
<1>4. CASE EchoResumes \/ FileResumes
  BY <1>3, <1>4, EchoResumesResumed, FileResumesResumed
<1>5. CASE (Accepted \/ NoPipe \/ AcceptFailed) /\ UNCHANGED fvars
  <2>1. CASE Accepted \/ AcceptFailed
    BY <1>1, <2>1 DEF Accepted, AcceptFailed, network
  <2>2. CASE NoPipe
    <3>1. Res \in Fds /\ Res \in conns
      BY <2>2, PeekAccept DEF NoPipe
    <3> QED
      BY <1>2, <2>2, <3>1 DEF NoPipe
  <2> QED
    BY <1>5, <2>1, <2>2
<1>6. ASSUME NEW fd \in Fds, AcceptCompletes(fd) PROVE Service!Next
  <2>1. Service!Connect(fd)
    BY <1>6 DEF AcceptCompletes, Service!Connect
  <2> QED
    BY <2>1 DEF Service!Next
<1>7. ASSUME NEW fd \in Fds, NEW op \in Client(fd), op \in flight PROVE fd \in conns
  <2>1. Asked(fd) /\ co[fd] = op.op
    BY <1>0, <1>7, InFlightClient
  <2>2. co[fd] # "none"
    BY <1>7, <2>1, OperationKinds DEF ClientKinds
  <2> QED
    BY <2>1, <2>2 DEF Asked
<1>8. ASSUME NEW fd \in Fds, CloseCompletes(fd) PROVE Service!Next
  <2>1. CloseSlot(fd) \in Client(fd) /\ CloseSlot(fd) \in flight
    BY <1>8, TaggedKinds DEF CloseCompletes, Completes, Complete
  <2> QED
    BY <1>2, <1>7, <1>8, <2>1 DEF CloseCompletes
<1>9. ASSUME NEW fd \in Fds, NEW n \in 1 .. BufSize, RecvCompletes(fd, n) PROVE Service!Next
  <2>1. n \in Nat \ {0} /\ read[fd] \in Nat /\ MaxBytes \in Nat
    BY Types
  <2>2. PICK op \in Client(fd) : Completed(op, n)
    BY <1>0, <1>9, <2>1, RecvEndsCompletes DEF RecvCompletes
  <2>3. fd \in conns
    BY <1>7, <2>2 DEF Completed
  <2>4. read[fd] + n <= MaxBytes
    BY <1>9 DEF RecvCompletes
  <2>5. n \in 1 .. MaxBytes
    BY <2>1, <2>4
  <2>6. Service!Write(fd, n)
    BY <1>9, <2>3, <2>4 DEF RecvCompletes, Service!Write
  <2> QED
    BY <2>5, <2>6 DEF Service!Next
<1>10. ASSUME NEW fd \in Fds, NEW n \in 1 .. BufSize, variant # "files", SendCompletes(fd, n)
       PROVE  Service!Next
  <2>1. n \in 1 .. MaxBytes /\ Service!Echo(fd, n)
    BY <1>0, <1>10, EchoedNext DEF Service!Echo
  <2> QED
    BY <2>1 DEF Service!Next
<1>11. ASSUME NEW fd \in Fds, NEW n, ReplyCompletes(fd, n) \/ ReadCompletes(fd, n)
       PROVE  [Service!Next]_(Service!vars)
  BY <1>1, <1>11 DEF ReplyCompletes, ReadCompletes, network
<1>12. ASSUME NEW op, NEW res, Failed(op, res) PROVE [Service!Next]_(Service!vars)
  BY <1>1, <1>12 DEF Failed
<1>13. CASE LoopStep \/ TimeoutCqe
  BY <1>1, <1>13 DEF LoopStep, TimeoutCqe, network
<1> QED
  BY <1>0, <1>4, <1>5, <1>6, <1>8, <1>9, <1>10, <1>11, <1>12, <1>13 DEF StepCases, Connects

\* The coroutine servers implement the echo service: on every connection the bytes
\* come back in order, unchanged and each once, however the kernel cuts the
\* receives and the sends and whichever descriptors and slots are used again.
THEOREM CoroutinesImplementService == MCSpec => ImplementsService
<1>1. MCInit => Service!Init
  BY DEF MCInit, Init, Service!Init
<1> QED
  BY <1>1, StepServes, ServerInvariance, PTL DEF MCSpec, ImplementsService, Service!Spec
====
