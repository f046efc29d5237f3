---- MODULE BufferEchoProofs ----
(***************************************************************************)
(* Proofs about the servers with a pool of buffers (io_uring/10, 11), for  *)
(* any numbers of descriptors, connections, buffers and bytes: a buffer is *)
(* always in one place, no client is forgotten, and in exercise 10 every   *)
(* connection gets back its own bytes in order.                            *)
(***************************************************************************)
EXTENDS BufferEcho, IoRingProofs

\* The types.  An operation names a buffer of the pool; one that the kernel has is
\* on a connection.
Operation ==
  {Acceptor}
  \cup [op : {"recv"}, fd : Fds, conn : Conns \cup {0}, ev : Nat]
  \cup [op : {"send"}, fd : Fds, conn : Conns \cup {0}, bid : Bids, offset : Nat, rearm : BOOLEAN]
Completion == [op : Operation, res : Int, bid : Bids, more : BOOLEAN]
ServerTypes ==
  /\ multishot \in BOOLEAN /\ up \in BOOLEAN /\ pc \in {"submit", "wait", "cqe"}
  /\ RingTypeOK(Operation, Completion) /\ IsFiniteSet(flight)
  /\ Len(sq) <= SqDepth /\ ready \in Nat /\ ready <= Len(cq)
  /\ clients \subseteq Fds /\ pool \in Seq(Bids) /\ content \in [Bids -> Seq(Conns \X Nat)]
  /\ table \in [Fds -> Conns \cup {0}] /\ accepted \subseteq Conns
  /\ read \in [Conns -> 0 .. MaxBytes] /\ echoed \in [Conns -> Seq(Conns \X Nat)]
EntryTypes ==
  /\ \A op \in flight : op.op # "accept" => op.conn \in Conns
  /\ \A k \in 1 .. Len(cq) :
       cq[k].op.op = "accept" /\ cq[k].res # FAILED => cq[k].res \in Fds

\* Where buffer b is: in the pool, in a completion with data, or with a send.
SendsOf(b) == {op \in Operation : op.op = "send" /\ op.bid = b}
Given(b) == {c \in Completion : c.op.op = "recv" /\ c.res > 0 /\ c.bid = b}
OnePlace(b) ==
  /\ Once(SendsOf(b))
  /\ \A j, k \in OpsAt(pool, {b}) : j = k
  /\ \A j, k \in OpsAt(cq, Given(b)) : j = k
  /\ OpsAt(pool, {b}) # {} => OpsAt(cq, Given(b)) = {}
  /\ Absent(SendsOf(b)) <=> OpsAt(pool, {b}) # {} \/ OpsAt(cq, Given(b)) # {}

BufferInv == ServerTypes /\ EntryTypes /\ (up => \A b \in Bids : OnePlace(b))

----
\* The pool is never empty at the start, and its size is one of two.
LEMMA BidsFacts == ASSUME multishot \in BOOLEAN
                   PROVE  NumBufs \in Nat \ {0} /\ Bids = 0 .. NumBufs - 1 /\ 0 \in Bids
<1>1. NumBufs \in Nat \ {0}
  BY BufAssumption DEF NumBufs
<1> QED
  BY <1>1 DEF Bids

\* Which it is never changes, so the types do not either.
LEMMA SameTypes ==
  ASSUME multishot' = multishot
  PROVE  /\ Bids' = Bids /\ Operation' = Operation /\ Completion' = Completion
         /\ \A b : SendsOf(b)' = SendsOf(b) /\ Given(b)' = Given(b)
<1>1. Bids' = Bids
  BY DEF Bids, NumBufs
<1>2. Operation' = Operation
  BY <1>1 DEF Operation
<1>3. Completion' = Completion
  BY <1>1, <1>2 DEF Completion
<1> QED
  BY <1>1, <1>2, <1>3 DEF SendsOf, Given

\* The kinds of operations are told apart.
LEMMA OperationKinds ==
  /\ Acceptor \in Operation /\ Acceptor.op = "accept"
  /\ \A op \in Operation :
       /\ op.op \in {"accept", "recv", "send"} /\ (op.op = "accept" <=> op = Acceptor)
       /\ op.op = "recv" => /\ op.fd \in Fds /\ op.conn \in Conns \cup {0} /\ op.ev \in Nat
                            /\ op = [op |-> "recv", fd |-> op.fd, conn |-> op.conn, ev |-> op.ev]
       /\ op.op = "send" => /\ op.fd \in Fds /\ op.conn \in Conns \cup {0} /\ op.bid \in Bids
                            /\ op.offset \in Nat /\ op.rearm \in BOOLEAN
                            /\ op = [op |-> "send", fd |-> op.fd, conn |-> op.conn, bid |-> op.bid,
                                     offset |-> op.offset, rearm |-> op.rearm]
  /\ \A fd \in Fds, c \in Conns \cup {0} :
       /\ \A ev \in Nat : [op |-> "recv", fd |-> fd, conn |-> c, ev |-> ev] \in Operation
       /\ \A b \in Bids, n \in Nat, rearm \in BOOLEAN :
            [op |-> "send", fd |-> fd, conn |-> c, bid |-> b, offset |-> n, rearm |-> rearm]
              \in Operation
<1>1. /\ Acceptor \in Operation /\ Acceptor.op = "accept"
  BY DEF Operation, Acceptor
<1>2. ASSUME NEW op \in [op : {"recv"}, fd : Fds, conn : Conns \cup {0}, ev : Nat]
      PROVE  /\ op.op = "recv" /\ op.fd \in Fds /\ op.conn \in Conns \cup {0} /\ op.ev \in Nat
             /\ op = [op |-> "recv", fd |-> op.fd, conn |-> op.conn, ev |-> op.ev]
  OBVIOUS
<1>3. ASSUME NEW op \in [op : {"send"}, fd : Fds, conn : Conns \cup {0}, bid : Bids, offset : Nat,
                         rearm : BOOLEAN]
      PROVE  /\ op.op = "send" /\ op.fd \in Fds /\ op.conn \in Conns \cup {0} /\ op.bid \in Bids
             /\ op.offset \in Nat /\ op.rearm \in BOOLEAN
             /\ op = [op |-> "send", fd |-> op.fd, conn |-> op.conn, bid |-> op.bid,
                      offset |-> op.offset, rearm |-> op.rearm]
  OBVIOUS
<1>4. \A op \in Operation : op = Acceptor \/ op \in [op : {"recv"}, fd : Fds, conn : Conns \cup {0}, ev : Nat]
         \/ op \in [op : {"send"}, fd : Fds, conn : Conns \cup {0}, bid : Bids, offset : Nat,
                         rearm : BOOLEAN]
  BY DEF Operation
<1>5. \A fd \in Fds, c \in Conns \cup {0} :
       /\ \A ev \in Nat : [op |-> "recv", fd |-> fd, conn |-> c, ev |-> ev] \in Operation
       /\ \A b \in Bids, n \in Nat, rearm \in BOOLEAN :
            [op |-> "send", fd |-> fd, conn |-> c, bid |-> b, offset |-> n, rearm |-> rearm]
              \in Operation
  BY DEF Operation
<1> QED
  BY <1>1, <1>2, <1>3, <1>4, <1>5

\* As long as finitely many operations are pending there is an Event not in use.
LEMMA FreshRecv ==
  ASSUME ServerTypes, NEW fd \in Fds
  PROVE  Recv(fd) \in [op : {"recv"}, fd : {fd}, conn : {0}, ev : Nat] /\ Recv(fd) \in Operation
<1>1. /\ sq \in Seq(Operation) /\ cq \in Seq(Completion) /\ IsFiniteSet(flight)
  BY DEF ServerTypes, RingTypeOK
<1>2. IsFiniteSet(ToSet(sq))
  <2>1. PICK n \in Nat : n = Len(sq) /\ 1 .. n = DOMAIN sq
    BY <1>1
  <2>2. IsFiniteSet(1 .. n)
    BY FS_Interval
  <2>3. [k \in 1 .. n |-> sq[k]] \in Surjection(1 .. n, ToSet(sq))
    BY <1>1, <2>1 DEF Surjection, ToSet
  <2> QED
    BY <2>2, <2>3, FS_Surjection
<1>3. IsFiniteSet({cq[k].op : k \in DOMAIN cq})
  <2>1. PICK n \in Nat : n = Len(cq) /\ 1 .. n = DOMAIN cq
    BY <1>1
  <2>2. IsFiniteSet(1 .. n)
    BY FS_Interval
  <2>3. [k \in 1 .. n |-> cq[k].op] \in Surjection(1 .. n, {cq[k].op : k \in DOMAIN cq})
    BY <2>1 DEF Surjection
  <2> QED
    BY <2>2, <2>3, FS_Surjection
<1>4. IsFiniteSet(Pending)
  BY <1>1, <1>2, <1>3, FS_Union DEF Pending
<1> DEFINE old == {o \in Pending : o.op = "recv" /\ o.fd = fd}
           used == {op.ev : op \in old}
<1>5. IsFiniteSet(used)
  <2>1. IsFiniteSet(old)
    BY <1>4, FS_Subset
  <2>2. [o \in old |-> o.ev] \in Surjection(old, used)
    BY DEF Surjection
  <2> QED
    BY <2>1, <2>2, FS_Surjection
<1> HIDE DEF used
<1>6. \E n \in 0 .. Cardinality(used) : n \notin used
  <2>1. Cardinality(used) \in Nat
    BY <1>5, FS_CardinalityType
  <2>2. Cardinality(0 .. Cardinality(used)) = Cardinality(used) + 1
    BY <2>1, FS_Interval
  <2>3. ~(0 .. Cardinality(used) \subseteq used)
    BY <1>5, <2>1, <2>2, FS_Subset
  <2> QED
    BY <2>3
<1> DEFINE ev == CHOOSE n \in 0 .. Cardinality(used) : n \notin used
<1>7. ev \in Nat
  <2>1. ev \in 0 .. Cardinality(used)
    BY <1>6
  <2>2. Cardinality(used) \in Nat
    BY <1>5, FS_CardinalityType
  <2> QED
    BY <2>1, <2>2
<1>8. Recv(fd) = RecvEvent(fd, ev)
  BY DEF Recv, used
<1> HIDE DEF ev
<1> QED
  BY <1>7, <1>8 DEF RecvEvent, Operation

----
\* What a handler finds.
LEMMA PeekHere ==
  ASSUME ServerTypes, EntryTypes, NEW kind, Peek(kind)
  PROVE  /\ up /\ pc = "cqe" /\ ready \in Nat \ {0} /\ cq # << >> /\ Len(cq) \in Nat \ {0}
         /\ Head(cq) \in Completion /\ Head(cq) = cq[1] /\ Op = Head(cq).op /\ Res = Head(cq).res
         /\ Op \in Operation /\ Op.op = kind /\ Res \in Int
         /\ Head(cq).bid \in Bids /\ Head(cq).more \in BOOLEAN
         /\ kind = "accept" /\ Res # FAILED => Res \in Fds
<1>1. /\ up /\ pc = "cqe" /\ ready > 0 /\ Head(cq).op.op = kind
      /\ ready \in Nat /\ ready <= Len(cq) /\ cq \in Seq(Completion)
  BY DEF Peek, ServerTypes, RingTypeOK
<1>2. Len(cq) \in Nat \ {0} /\ cq # << >>
  BY <1>1
<1>3. Head(cq) = cq[1] /\ cq[1] \in Completion /\ 1 \in 1 .. Len(cq)
  BY <1>1, <1>2
<1>4. \A c \in Completion : c.op \in Operation /\ c.res \in Int /\ c.bid \in Bids /\ c.more \in BOOLEAN
  BY DEF Completion
<1>5. kind = "accept" /\ Res # FAILED => Res \in Fds
  BY <1>1, <1>3 DEF EntryTypes, Res
<1> QED
  BY <1>1, <1>2, <1>3, <1>4, <1>5 DEF Op, Res

\* A handler consumes the completion and prepares ops: the types.
LEMMA HandledTypes ==
  ASSUME ServerTypes, EntryTypes, NEW kind, Peek(kind), NEW ops \in Seq(Operation), Prepare(ops), Seen,
         UNCHANGED <<multishot, content, accepted, read, echoed>>,
         clients' \subseteq Fds, table' \in [Fds -> Conns \cup {0}],
         pool' = pool \/ \E b \in Bids : pool' = Append(pool, b)
  PROVE  ServerTypes' /\ EntryTypes'
<1>1. /\ up /\ ready \in Nat \ {0} /\ cq # << >>
  BY PeekHere
<1>2. /\ cq' = Tail(cq) /\ ready' = ready - 1 /\ pc' = pc /\ flight' = flight
  BY DEF Seen
<1>3. /\ Bids' = Bids /\ Operation' = Operation /\ Completion' = Completion
  BY SameTypes
<1>4. /\ sq' \in Seq(Operation) /\ Len(sq') <= SqDepth /\ up' \in BOOLEAN
  BY <1>1, PrepareRing DEF ServerTypes, RingTypeOK
<1>5. cq' \in Seq(Completion) /\ Len(cq') = Len(cq) - 1 /\ Len(cq) \in Nat
  BY <1>1, <1>2 DEF ServerTypes, RingTypeOK
<1>6. ready' \in Nat /\ ready' <= Len(cq')
  BY <1>1, <1>2, <1>5 DEF ServerTypes
<1>7. RingTypeOK(Operation, Completion)'
  BY <1>2, <1>3, <1>4, <1>5 DEF ServerTypes, RingTypeOK
<1>8. pool' \in Seq(Bids)
  <2>1. pool \in Seq(Bids) /\ \A a \in Bids : Append(pool, a) \in Seq(Bids)
    BY DEF ServerTypes
  <2> QED
    BY <2>1
<1>9. ServerTypes'
  BY <1>2, <1>3, <1>4, <1>6, <1>7, <1>8 DEF ServerTypes
<1>10. \A k \in 1 .. Len(cq') : k + 1 \in 1 .. Len(cq) /\ cq'[k] = cq[k + 1]
  BY <1>1, <1>2, TailEntries DEF ServerTypes, RingTypeOK
<1>11. EntryTypes'
  BY <1>2, <1>10 DEF EntryTypes
<1> QED
  BY <1>9, <1>11

\* The places of the buffers: the one the completion names, if it does, is handed to a send
\* or goes back to the pool.
LEMMA HandledPlaces ==
  ASSUME BufferInv, NEW kind, Peek(kind), NEW ops \in Seq(Operation), Prepare(ops), Seen, up',
         multishot' = multishot, NEW b \in Bids,
         LET named == Head(cq) \in Given(b) \/ Op \in SendsOf(b)
         IN  \/ ~named /\ OpsAt(ops, SendsOf(b)) = {}
                       /\ (pool' = pool \/ \E a \in Bids \ {b} : pool' = Append(pool, a))
             \/ named /\ OpsAt(ops, SendsOf(b)) = {} /\ pool' = Append(pool, b)
             \/ named /\ ops \in {<<op>> : op \in SendsOf(b)} /\ pool' = pool
  PROVE  OnePlace(b)'
<1>m. PICK M, G : M = SendsOf(b) /\ G = Given(b)
  OBVIOUS
<1>0. up /\ cq # << >> /\ Op = Head(cq).op /\ Op \in Operation
  BY PeekHere DEF BufferInv
<1>1. /\ cq' = Tail(cq) /\ flight' = flight /\ sq' = sq \o ops
  BY <1>0, PrepareRing DEF Seen, BufferInv, ServerTypes, RingTypeOK
<1>2. /\ RingTypeOK(Operation, Completion) /\ pool \in Seq(Bids) /\ cq \in Seq(Completion)
      /\ OnePlace(b)
  BY <1>0 DEF BufferInv, ServerTypes, RingTypeOK
<1>3. SendsOf(b)' = M /\ Given(b)' = G
  BY <1>m, SameTypes
<1>4. /\ \A k \in OpsAt(cq', G) : k \in Nat \ {0} /\ k + 1 \in OpsAt(cq, G)
      /\ \A k \in OpsAt(cq, G) : k = 1 \/ k - 1 \in OpsAt(cq', G)
      /\ 1 \in OpsAt(cq, G) <=> Head(cq) \in G
  BY <1>0, <1>1, <1>2, TailAt
<1>5. \A a \in Bids : OpsAt(Append(pool, a), {b}) = OpsAt(pool, {b}) \cup (IF a = b THEN {Len(pool) + 1} ELSE {})
  BY <1>2, AppendAt
<1>6. Head(cq) \in G => Op \notin M
  BY <1>0, <1>m DEF SendsOf, Given
<1>7. Op \in M => ~Absent(M)
  <2>1. 1 \in DoneAt(cq, M) <=> Head(cq).op \in M
    BY <1>0, <1>2, TailAt
  <2> QED
    BY <1>0, <2>1 DEF Absent
<1>8. ASSUME NEW op \in M PROVE OpsAt(<<op>>, M) = {1}
  BY <1>8, PlaceOfOne
<1>9. \A j, k \in OpsAt(ops, M) : j = k
  BY <1>8, <1>m DEF OpsAt
<1>10. OpsAt(ops, M) # {} => Head(cq).op \in M \/ Absent(M)
  BY <1>0, <1>2, <1>4, <1>m DEF OnePlace
<1>11. /\ Once(M)'
       /\ OpsAt(ops, M) # {} => ~Absent(M)'
       /\ OpsAt(ops, M) = {} /\ Op \in M => Absent(M)'
       /\ OpsAt(ops, M) = {} /\ Op \notin M => (Absent(M)' <=> Absent(M))
  BY <1>0, <1>1, <1>2, <1>9, <1>10, SeenOnce, <1>m DEF OnePlace
<1>12. /\ Once(M) /\ (\A j, k \in OpsAt(pool, {b}) : j = k) /\ (\A j, k \in OpsAt(cq, G) : j = k)
       /\ OpsAt(pool, {b}) # {} => OpsAt(cq, G) = {}
       /\ Absent(M) <=> OpsAt(pool, {b}) # {} \/ OpsAt(cq, G) # {}
  BY <1>2, <1>m DEF OnePlace
<1>13. SUFFICES /\ Once(M)'
                /\ \A j, k \in OpsAt(pool', {b}) : j = k
                /\ \A j, k \in OpsAt(cq', G) : j = k
                /\ OpsAt(pool', {b}) # {} => OpsAt(cq', G) = {}
                /\ Absent(M)' <=> OpsAt(pool', {b}) # {} \/ OpsAt(cq', G) # {}
  BY <1>3 DEF OnePlace
<1>14. CASE Head(cq) \notin G /\ Op \notin M /\ OpsAt(ops, M) = {}
            /\ (pool' = pool \/ \E a \in Bids \ {b} : pool' = Append(pool, a))
  <2>1. OpsAt(pool', {b}) = OpsAt(pool, {b})
    BY <1>5, <1>14
  <2>2. OpsAt(cq', G) = {} <=> OpsAt(cq, G) = {}
    BY <1>4, <1>14
  <2>3. \A j, k \in OpsAt(cq', G) : j = k
    BY <1>4, <1>12
  <2> QED
    BY <1>11, <1>12, <1>14, <2>1, <2>2, <2>3
<1>15. ASSUME Head(cq) \in G \/ Op \in M
       PROVE  OpsAt(pool, {b}) = {} /\ OpsAt(cq', G) = {} /\ (Op \notin M => Absent(M))
  <2>1. Head(cq) \in G => OpsAt(cq', G) = {} /\ OpsAt(cq, G) # {}
    BY <1>4, <1>12
  <2>2. Op \in M => OpsAt(cq', G) = {} /\ OpsAt(pool, {b}) = {}
    BY <1>4, <1>7, <1>12
  <2> QED
    BY <1>12, <1>15, <2>1, <2>2
<1>16. CASE (Head(cq) \in G \/ Op \in M) /\ OpsAt(ops, M) = {} /\ pool' = Append(pool, b)
  <2>1. OpsAt(pool', {b}) = {Len(pool) + 1}
    BY <1>5, <1>15, <1>16
  <2>2. Absent(M)'
    BY <1>11, <1>15, <1>16
  <2> QED
    BY <1>11, <1>15, <1>16, <2>1, <2>2
<1>17. CASE (Head(cq) \in G \/ Op \in M) /\ ops \in {<<op>> : op \in M} /\ pool' = pool
  <2>1. OpsAt(ops, M) # {}
    BY <1>8, <1>17
  <2>2. OpsAt(pool', {b}) = {}
    BY <1>15, <1>17
  <2> QED
    BY <1>11, <1>15, <1>17, <2>1, <2>2
<1> QED
  BY <1>14, <1>16, <1>17, <1>m

\* What is left of a send.
LEMMA SendsRest ==
  ASSUME NEW op, NEW res,
         op = [op |-> "send", fd |-> op.fd, conn |-> op.conn, bid |-> op.bid,
               offset |-> op.offset, rearm |-> op.rearm]
  PROVE  [op EXCEPT !.offset = @ + res, !.conn = 0]
           = [op |-> "send", fd |-> op.fd, conn |-> 0, bid |-> op.bid,
              offset |-> op.offset + res, rearm |-> op.rearm]
<1>1. [op EXCEPT !.offset = @ + res, !.conn = 0]
        = [[op EXCEPT !.offset = op.offset + res] EXCEPT !.conn = 0]
  OBVIOUS
<1>2. PICK fd, conn, bid, offset, rearm :
        /\ fd = op.fd /\ conn = op.conn /\ bid = op.bid /\ offset = op.offset /\ rearm = op.rearm
        /\ op = [op |-> "send", fd |-> fd, conn |-> conn, bid |-> bid, offset |-> offset,
                 rearm |-> rearm]
  OBVIOUS
<1>3. [op EXCEPT !.offset = offset + res]
        = [op |-> "send", fd |-> fd, conn |-> conn, bid |-> bid, offset |-> offset + res,
           rearm |-> rearm]
  BY <1>2
<1>4. \A n : [[op |-> "send", fd |-> fd, conn |-> conn, bid |-> bid, offset |-> n,
               rearm |-> rearm] EXCEPT !.conn = 0]
              = [op |-> "send", fd |-> fd, conn |-> 0, bid |-> bid, offset |-> n, rearm |-> rearm]
  OBVIOUS
<1> QED
  BY <1>1, <1>2, <1>3, <1>4

\* What is left of a send is a send for the same client, from the same buffer.
LEMMA RestOfSend ==
  ASSUME NEW op \in Operation, op.op = "send", NEW res \in Nat
  PROVE  LET rest == [op EXCEPT !.offset = @ + res, !.conn = 0]
         IN  /\ rest \in Operation /\ rest.op = "send" /\ rest.fd = op.fd /\ rest.bid = op.bid
             /\ rest.rearm = op.rearm /\ rest.offset = op.offset + res
<1> DEFINE rest == [op EXCEPT !.offset = @ + res, !.conn = 0]
<1>1. /\ op.fd \in Fds /\ op.bid \in Bids /\ op.offset \in Nat /\ op.rearm \in BOOLEAN
      /\ op = [op |-> "send", fd |-> op.fd, conn |-> op.conn, bid |-> op.bid,
               offset |-> op.offset, rearm |-> op.rearm]
  BY OperationKinds
<1>2. rest = [op |-> "send", fd |-> op.fd, conn |-> 0, bid |-> op.bid,
              offset |-> op.offset + res, rearm |-> op.rearm]
  BY <1>1, SendsRest
<1> HIDE DEF rest
<1>3. op.offset + res \in Nat /\ 0 \in Conns \cup {0}
  BY <1>1
<1>4. rest \in Operation
  BY <1>1, <1>2, <1>3, OperationKinds
<1>5. /\ rest.op = "send" /\ rest.fd = op.fd /\ rest.bid = op.bid /\ rest.rearm = op.rearm
      /\ rest.offset = op.offset + res
  BY <1>2
<1>6. rest \in Operation /\ rest.op = "send" /\ rest.fd = op.fd /\ rest.bid = op.bid
      /\ rest.rearm = op.rearm /\ rest.offset = op.offset + res
  BY <1>4, <1>5
<1> QED
  BY <1>6 DEF rest

\* Two lists of one.
LEMMA ConcatOfTwo == ASSUME NEW T, NEW a \in T, NEW b \in T PROVE <<a>> \o <<b>> = <<a, b>>
<1>1. PICK q, t : q = <<a>> \o <<b>> /\ t = <<a, b>>
  OBVIOUS
<1>2. q \in Seq(T) /\ Len(q) = 2 /\ q[1] = a /\ q[2] = b
  BY <1>1
<1>3. t \in Seq(T) /\ Len(t) = 2 /\ t[1] = a /\ t[2] = b
  BY <1>1
<1>4. \A k \in 1 .. 2 : q[k] = t[k]
  BY <1>2, <1>3
<1>5. q = t
  BY <1>2, <1>3, <1>4
<1> QED
  BY <1>1, <1>5

\* Every handler.
LEMMA HandlersKeepBuffers ==
  ASSUME BufferInv,
         HandleAccept \/ HandleAcceptFailed \/ HandleNoBufs \/ HandleRecvEnd \/ HandleRecv
         \/ HandleSendFailed \/ HandleSendShort \/ HandleSendDone
  PROVE  BufferInv'
<1>0. ServerTypes /\ EntryTypes /\ multishot \in BOOLEAN /\ clients \subseteq Fds
      /\ table \in [Fds -> Conns \cup {0}]
  BY DEF BufferInv, ServerTypes
<1>1. ASSUME NEW kind, Peek(kind)
      PROVE  /\ up /\ Op = Head(cq).op /\ Op.op = kind /\ Op \in Operation /\ Res \in Int
             /\ Head(cq) \in Completion /\ Res = Head(cq).res /\ Head(cq).bid \in Bids
             /\ Head(cq).more \in BOOLEAN
             /\ kind = "accept" /\ Res # FAILED => Res \in Fds
             /\ \A b : (Op \in SendsOf(b) <=> kind = "send" /\ Op.bid = b)
                       /\ (Head(cq) \in Given(b) <=> kind = "recv" /\ Res > 0 /\ Head(cq).bid = b)
  BY <1>0, <1>1, PeekHere DEF SendsOf, Given
<1>2. ASSUME NEW kind, Peek(kind), NEW ops \in Seq(Operation), Prepare(ops), Seen,
             UNCHANGED <<multishot, content, accepted, read, echoed>>,
             clients' \subseteq Fds, table' \in [Fds -> Conns \cup {0}],
             \/ /\ \A b \in Bids : OpsAt(ops, SendsOf(b)) = {}
                /\ kind = "accept" \/ (kind = "recv" /\ Res <= 0)
                /\ pool' = pool
             \/ /\ \A b \in Bids : OpsAt(ops, SendsOf(b)) = {}
                /\ kind = "send" /\ pool' = Append(pool, Op.bid)
             \/ \E b \in Bids : /\ ops \in {<<op>> : op \in SendsOf(b)}
                                /\ \/ kind = "send" /\ Op.bid = b
                                   \/ kind = "recv" /\ Res > 0 /\ Head(cq).bid = b
                                /\ pool' = pool
      PROVE  BufferInv'
  <2>1. kind = "send" => Op.bid \in Bids
    BY <1>1, <1>2, OperationKinds
  <2>2. ServerTypes' /\ EntryTypes'
    <3>1. pool' = pool \/ \E b \in Bids : pool' = Append(pool, b)
      BY <1>2, <2>1
    <3> QED
      BY <1>0, <1>2, <3>1, HandledTypes
  <2>3. ASSUME up', NEW b \in Bids PROVE OnePlace(b)'
    <3> DEFINE named == Head(cq) \in Given(b) \/ Op \in SendsOf(b)
    <3>1. named <=> \/ kind = "send" /\ Op.bid = b
                    \/ kind = "recv" /\ Res > 0 /\ Head(cq).bid = b
      BY <1>1, <1>2
    <3>2. Res \in Int /\ \A a \in Bids : a # b => \A op \in SendsOf(a) : OpsAt(<<op>>, SendsOf(b)) = {}
      BY <1>1, <1>2, PlaceOfOne DEF SendsOf
    <3>3. \/ ~named /\ OpsAt(ops, SendsOf(b)) = {}
                    /\ (pool' = pool \/ \E a \in Bids \ {b} : pool' = Append(pool, a))
          \/ named /\ OpsAt(ops, SendsOf(b)) = {} /\ pool' = Append(pool, b)
          \/ named /\ ops \in {<<op>> : op \in SendsOf(b)} /\ pool' = pool
      <4> HIDE DEF named
      <4>1. CASE /\ \A a \in Bids : OpsAt(ops, SendsOf(a)) = {}
                 /\ kind = "accept" \/ (kind = "recv" /\ Res <= 0)
                 /\ pool' = pool
        BY <3>1, <3>2, <4>1
      <4>2. CASE /\ \A a \in Bids : OpsAt(ops, SendsOf(a)) = {}
                 /\ kind = "send" /\ pool' = Append(pool, Op.bid)
        BY <2>1, <3>1, <4>2
      <4>3. ASSUME NEW a \in Bids, ops \in {<<op>> : op \in SendsOf(a)}, pool' = pool,
                   \/ kind = "send" /\ Op.bid = a
                   \/ kind = "recv" /\ Res > 0 /\ Head(cq).bid = a
            PROVE  \/ ~named /\ OpsAt(ops, SendsOf(b)) = {} /\ pool' = pool
                   \/ named /\ ops \in {<<op>> : op \in SendsOf(b)} /\ pool' = pool
        <5>1. CASE a = b
          BY <3>1, <4>3, <5>1
        <5>2. CASE a # b
          BY <3>1, <3>2, <4>3, <5>2
        <5> QED
          BY <5>1, <5>2
      <4> QED
        BY <1>2, <4>1, <4>2, <4>3
    <3> QED
      BY <1>2, <2>3, <3>3, HandledPlaces
  <2>4. Bids' = Bids
    BY <1>2, SameTypes
  <2> QED
    BY <2>2, <2>3, <2>4 DEF BufferInv
<1>3. /\ << >> \in Seq(Operation) /\ \A b : OpsAt(<< >>, SendsOf(b)) = {}
      /\ Prepare(<< >>) <=> (IF Len(sq) <= SqDepth THEN sq' = sq /\ up' = up ELSE up' = FALSE /\ sq' = sq)
  <2>1. sq \in Seq(Operation)
    BY <1>0 DEF ServerTypes, RingTypeOK
  <2>2. Len(<< >>) = 0 /\ sq \o << >> = sq /\ Len(sq) + 0 = Len(sq)
    BY <2>1
  <2> QED
    BY <2>2, PlacesOfNone DEF Prepare
<1>4. \A fd \in Fds : /\ <<Recv(fd)>> \in Seq(Operation) /\ <<Recv(fd), Acceptor>> \in Seq(Operation)
                      /\ <<Recv(fd)>> \o << >> = <<Recv(fd)>>
                      /\ <<Recv(fd)>> \o <<Acceptor>> = <<Recv(fd), Acceptor>>
                      /\ \A b : /\ OpsAt(<<Recv(fd)>>, SendsOf(b)) = {}
                                /\ OpsAt(<<Recv(fd), Acceptor>>, SendsOf(b)) = {}
  <2> TAKE fd \in Fds
  <2>1. Recv(fd) \in Operation /\ Recv(fd).op = "recv" /\ Acceptor \in Operation
        /\ Acceptor.op = "accept"
    BY <1>0, FreshRecv, OperationKinds
  <2>2. \A b : Recv(fd) \notin SendsOf(b) /\ Acceptor \notin SendsOf(b)
    BY <2>1 DEF SendsOf
  <2>3. PICK r : r = Recv(fd)
    OBVIOUS
  <2>4. /\ <<r>> \in Seq(Operation) /\ <<r, Acceptor>> \in Seq(Operation)
        /\ <<r>> \o << >> = <<r>> /\ <<r>> \o <<Acceptor>> = <<r, Acceptor>>
    <3>1. r \in Operation /\ Acceptor \in Operation
      BY <2>1, <2>3
    <3>2. <<r>> \in Seq(Operation) /\ <<r, Acceptor>> \in Seq(Operation)
      BY <3>1
    <3>3. \A q \in Seq(Operation) : q \o << >> = q
      OBVIOUS
    <3>4. <<r>> \o << >> = <<r>>
      BY <3>2, <3>3
    <3>5. <<r>> \o <<Acceptor>> = <<r, Acceptor>>
      BY <3>1, ConcatOfTwo
    <3> QED
      BY <3>2, <3>4, <3>5
  <2> QED
    BY <2>2, <2>3, <2>4, PlaceOfOne, PlacesOfTwo
<1>5. <<Acceptor>> \in Seq(Operation) /\ \A b : OpsAt(<<Acceptor>>, SendsOf(b)) = {}
  <2>1. Acceptor \in Operation /\ \A b : Acceptor \notin SendsOf(b)
    BY OperationKinds DEF SendsOf
  <2> QED
    BY <2>1, PlaceOfOne
<1>6. \A fd \in Fds : [table EXCEPT ![fd] = 0] \in [Fds -> Conns \cup {0}]
  BY <1>0
<1>7. CASE HandleAccept
  <2>1. Peek("accept") /\ Res \in Fds /\ Prepare(<<Recv(Res)>> \o Rearm) /\ Seen
        /\ clients' = clients \cup {Res} /\ UNCHANGED <<multishot, buffers, network>>
    BY <1>1, <1>7 DEF HandleAccept
  <2>2. <<Recv(Res)>> \o Rearm \in {<<Recv(Res)>>, <<Recv(Res), Acceptor>>}
    BY <1>4, <2>1 DEF Rearm
  <2> QED
    BY <1>0, <1>2, <1>4, <2>1, <2>2 DEF buffers, network
<1>8. CASE HandleAcceptFailed
  <2>1. Peek("accept") /\ Rearm \in {<< >>, <<Acceptor>>} /\ Prepare(Rearm) /\ Seen
        /\ UNCHANGED <<multishot, clients, buffers, network>>
    BY <1>8 DEF HandleAcceptFailed, Rearm
  <2> QED
    BY <1>0, <1>2, <1>3, <1>5, <2>1 DEF buffers, network
<1>9. CASE HandleNoBufs
  <2>1. Peek("recv") /\ Res <= 0 /\ Prepare(<<Recv(Op.fd)>>) /\ Seen
        /\ UNCHANGED <<multishot, clients, buffers, network>>
    BY <1>9 DEF HandleNoBufs, ENOBUFS
  <2>2. Op.fd \in Fds
    BY <1>1, <2>1, OperationKinds
  <2> QED
    BY <1>0, <1>2, <1>4, <2>1, <2>2 DEF buffers, network
<1>10. CASE HandleRecvEnd
  <2>1. /\ Peek("recv") /\ Res <= 0 /\ Close(Op.fd) /\ Seen /\ up' = up /\ sq' = sq
        /\ UNCHANGED <<multishot, buffers, accepted, read, echoed, gone>>
    BY <1>10 DEF HandleRecvEnd
  <2>2. Op.fd \in Fds
    BY <1>1, <2>1, OperationKinds
  <2>3. Prepare(<< >>) /\ clients' \subseteq Fds /\ table' \in [Fds -> Conns \cup {0}]
    BY <1>0, <1>3, <1>6, <2>1, <2>2 DEF Close, ServerTypes
  <2> QED
    BY <1>2, <1>3, <2>1, <2>3 DEF buffers
<1>11. CASE HandleRecv
  <2> DEFINE send == SendEvent(Op.fd, Head(cq).bid, ~Head(cq).more)
  <2>1. Peek("recv") /\ Res > 0 /\ Prepare(<<send>>) /\ Seen
        /\ UNCHANGED <<multishot, clients, buffers, network>>
    BY <1>11 DEF HandleRecv
  <2>2. Op.fd \in Fds /\ Head(cq).bid \in Bids /\ (~Head(cq).more) \in BOOLEAN
    BY <1>1, <2>1, OperationKinds
  <2>3. send \in Operation /\ send.op = "send" /\ send.bid = Head(cq).bid
    BY <2>2, OperationKinds DEF SendEvent
  <2>4. send \in SendsOf(Head(cq).bid)
    BY <2>3 DEF SendsOf
  <2> HIDE DEF send
  <2>5. <<send>> \in Seq(Operation)
    BY <2>3
  <2> QED
    BY <1>0, <1>2, <2>1, <2>2, <2>4, <2>5 DEF buffers, network
<1>12. CASE HandleSendFailed
  <2>1. /\ Peek("send") /\ recycle_buf(Op.bid) /\ Close(Op.fd) /\ Seen /\ up' = up /\ sq' = sq
        /\ UNCHANGED <<multishot, accepted, read, echoed, gone>>
    BY <1>12 DEF HandleSendFailed
  <2>2. Op.fd \in Fds
    BY <1>1, <2>1, OperationKinds
  <2>3. Prepare(<< >>) /\ clients' \subseteq Fds /\ table' \in [Fds -> Conns \cup {0}]
    BY <1>0, <1>3, <1>6, <2>1, <2>2 DEF Close, ServerTypes
  <2> QED
    BY <1>2, <1>3, <2>1, <2>3 DEF recycle_buf
<1>13. CASE HandleSendShort
  <2> DEFINE send == [Op EXCEPT !.offset = @ + Res, !.conn = 0]
  <2>1. Peek("send") /\ Res > 0 /\ Prepare(<<send>>) /\ Seen
        /\ UNCHANGED <<multishot, clients, buffers, network>>
    BY <1>13 DEF HandleSendShort
  <2>2. Op \in Operation /\ Op.op = "send" /\ Res \in Nat /\ Op.bid \in Bids
    BY <1>1, <2>1, OperationKinds
  <2>3. send \in Operation /\ send.op = "send" /\ send.bid = Op.bid
    BY <2>2, RestOfSend
  <2>4. send \in SendsOf(Op.bid)
    BY <2>3 DEF SendsOf
  <2> HIDE DEF send
  <2>5. <<send>> \in Seq(Operation)
    BY <2>3
  <2> QED
    BY <1>0, <1>2, <2>1, <2>2, <2>4, <2>5 DEF buffers, network
<1>14. CASE HandleSendDone
  <2>1. /\ Peek("send") /\ recycle_buf(Op.bid) /\ Seen
        /\ Prepare(IF Op.rearm /\ Op.fd \in clients THEN <<Recv(Op.fd)>> ELSE << >>)
        /\ UNCHANGED <<multishot, clients, network>>
    BY <1>14 DEF HandleSendDone
  <2>2. Op.fd \in Fds
    BY <1>1, <2>1, OperationKinds
  <2> QED
    BY <1>0, <1>2, <1>3, <1>4, <2>1, <2>2 DEF recycle_buf, network
<1> QED
  BY <1>7, <1>8, <1>9, <1>10, <1>11, <1>12, <1>13, <1>14

\* What the kernel takes is the operation, on the connection that its descriptor names.
LEMMA TakenOp ==
  ASSUME ServerTypes, NEW op \in Operation, ~BadFd(op)
  PROVE  /\ Resolved(op) \in Operation /\ Resolved(op).op = op.op
         /\ op.op = "accept" => Resolved(op) = op
         /\ op.op # "accept" => /\ Resolved(op).fd = op.fd /\ Resolved(op).conn = table[op.fd]
                                /\ Resolved(op).conn \in Conns
         /\ op.op = "send" => /\ Resolved(op).bid = op.bid /\ Resolved(op).offset = op.offset
                              /\ Resolved(op).rearm = op.rearm
<1>0. table \in [Fds -> Conns \cup {0}]
  BY DEF ServerTypes
<1>1. CASE op.op = "accept"
  BY <1>1 DEF Resolved
<1>2. CASE op.op = "recv"
  <2>1. /\ op.fd \in Fds /\ op.ev \in Nat
        /\ op = [op |-> "recv", fd |-> op.fd, conn |-> op.conn, ev |-> op.ev]
    BY <1>2, OperationKinds
  <2>2. Resolved(op) = [op |-> "recv", fd |-> op.fd, conn |-> table[op.fd], ev |-> op.ev]
    BY <1>2, <2>1 DEF Resolved
  <2>3. table[op.fd] \in Conns \cup {0} /\ table[op.fd] \in Conns
    BY <1>0, <1>2, <2>1 DEF BadFd
  <2> QED
    BY <1>2, <2>1, <2>2, <2>3, OperationKinds
<1>3. CASE op.op = "send"
  <2>1. /\ op.fd \in Fds /\ op.bid \in Bids /\ op.offset \in Nat /\ op.rearm \in BOOLEAN
        /\ op = [op |-> "send", fd |-> op.fd, conn |-> op.conn, bid |-> op.bid,
                 offset |-> op.offset, rearm |-> op.rearm]
    BY <1>3, OperationKinds
  <2>2. Resolved(op) = [op |-> "send", fd |-> op.fd, conn |-> table[op.fd], bid |-> op.bid,
                        offset |-> op.offset, rearm |-> op.rearm]
    BY <1>3, <2>1 DEF Resolved
  <2>3. table[op.fd] \in Conns \cup {0} /\ table[op.fd] \in Conns
    BY <1>0, <1>3, <2>1 DEF BadFd
  <2> QED
    BY <1>3, <2>1, <2>2, <2>3, OperationKinds
<1> QED
  BY <1>1, <1>2, <1>3, OperationKinds

\* The kernel takes an entry, or refuses it.
LEMMA SubmitKeepsBuffers == ASSUME BufferInv, SubmitNext PROVE BufferInv'
<1> DEFINE op == Head(sq)
           c == Cqe(op, FAILED, 0, FALSE)
<1>0. /\ up /\ pc = "submit" /\ sq # << >> /\ sq' = Tail(sq) /\ up' = up /\ pc' = pc
      /\ BadFd(op) => cq' = Append(cq, c) /\ flight' = flight
      /\ ~BadFd(op) => flight' = flight \cup {Resolved(op)} /\ cq' = cq
      /\ UNCHANGED <<ready, multishot, clients, pool, content, table, accepted, read, echoed>>
  BY DEF SubmitNext, buffers, network
<1>1. /\ ServerTypes /\ EntryTypes /\ multishot' = multishot /\ RingTypeOK(Operation, Completion)
      /\ sq \in Seq(Operation) /\ cq \in Seq(Completion) /\ flight \subseteq Operation
      /\ table \in [Fds -> Conns \cup {0}] /\ IsFiniteSet(flight)
  BY <1>0 DEF BufferInv, ServerTypes, RingTypeOK
<1>2. /\ Bids' = Bids /\ Operation' = Operation /\ Completion' = Completion
      /\ \A b : SendsOf(b)' = SendsOf(b) /\ Given(b)' = Given(b)
  BY <1>1, SameTypes
<1>3. op \in Operation /\ Tail(sq) \in Seq(Operation) /\ Len(Tail(sq)) = Len(sq) - 1 /\ Len(sq) \in Nat
  BY <1>0, <1>1
<1>4. BadFd(op) => op.op # "accept" /\ c \in Completion /\ c.op = op /\ c.res = -1
  <2>1. multishot \in BOOLEAN
    BY <1>1 DEF ServerTypes
  <2>2. 0 \in Bids
    BY <2>1, BidsFacts
  <2> QED
    BY <1>3, <2>2 DEF BadFd, Cqe, FAILED, Completion
<1>5. ~BadFd(op) => /\ Resolved(op) \in Operation /\ Resolved(op).op = op.op
                    /\ op.op # "accept" => Resolved(op).conn \in Conns
                    /\ op.op = "send" => Resolved(op).bid = op.bid
  BY <1>1, <1>3, TakenOp
<1> HIDE DEF op, c
<1>6. RingTypeOK(Operation, Completion)' /\ IsFiniteSet(flight') /\ Len(cq) <= Len(cq')
      /\ Len(cq) \in Nat /\ Len(cq') \in Nat
  <2>1. CASE BadFd(op)
    <3>1. cq' \in Seq(Completion) /\ Len(cq') = Len(cq) + 1 /\ Len(cq) \in Nat
      <4>1. c \in Completion /\ cq \in Seq(Completion) /\ cq' = Append(cq, c)
        BY <1>0, <1>1, <1>4, <2>1
      <4> QED
        BY <4>1
    <3> QED
      BY <1>0, <1>1, <1>2, <1>3, <2>1, <3>1 DEF RingTypeOK
  <2>2. CASE ~BadFd(op)
    BY <1>0, <1>1, <1>2, <1>3, <1>5, <2>2, FS_AddElement DEF RingTypeOK
  <2> QED
    BY <2>1, <2>2
<1>7. ServerTypes'
  <2>1. Len(sq') <= SqDepth /\ ready' \in Nat /\ ready' <= Len(cq')
    BY <1>0, <1>1, <1>3, <1>6, SqDepthAssumption DEF ServerTypes
  <2> QED
    BY <1>0, <1>1, <1>2, <1>6, <2>1 DEF ServerTypes
<1>8. EntryTypes'
  <2>1. CASE BadFd(op)
    <3>1. \A k \in 1 .. Len(cq') : (k \in 1 .. Len(cq) /\ cq'[k] = cq[k]) \/ cq'[k] = c
      BY <1>0, <1>1, <1>4, <2>1, AppendEntries
    <3> QED
      BY <1>0, <1>1, <1>4, <2>1, <3>1 DEF EntryTypes
  <2>2. CASE ~BadFd(op)
    BY <1>0, <1>1, <1>5, <2>2 DEF EntryTypes
  <2> QED
    BY <2>1, <2>2
<1>9. ASSUME NEW b \in Bids PROVE OnePlace(b)'
  <2>0. OnePlace(b)
    BY <1>0 DEF BufferInv
  <2>1. PICK M, G : M = SendsOf(b) /\ G = Given(b) /\ SendsOf(b)' = M /\ Given(b)' = G
    BY <1>2
  <2>2. Once(M)
    BY <2>0, <2>1 DEF OnePlace
  <2>3. Once(M)' /\ (Absent(M)' <=> Absent(M))
    <3>1. CASE BadFd(op)
      BY <1>0, <1>1, <1>4, <2>2, <3>1, CompleteAtOnce DEF op
    <3>2. CASE ~BadFd(op)
      <4>1. Resolved(op) \in M <=> Head(sq) \in M
        BY <1>3, <1>5, <2>1, <3>2 DEF SendsOf, op
      <4> QED
        BY <1>0, <1>1, <2>2, <3>2, <4>1, TakeAsOnce
    <3> QED
      BY <3>1, <3>2
  <2>4. OpsAt(cq', G) = OpsAt(cq, G)
    <3>1. CASE BadFd(op)
      <4>1. c \notin G
        BY <1>4, <2>1, <3>1 DEF Given
      <4> QED
        <5>1. OpsAt(Append(cq, c), G) = OpsAt(cq, G) \cup (IF c \in G THEN {Len(cq) + 1} ELSE {})
          BY <1>1, <1>4, <3>1, AppendAt
        <5> QED
          BY <1>0, <3>1, <4>1, <5>1
    <3> QED
      BY <1>0, <3>1
  <2> QED
    BY <1>0, <2>0, <2>1, <2>3, <2>4 DEF OnePlace
<1> QED
  BY <1>2, <1>7, <1>8, <1>9 DEF BufferInv

\* Nothing moves between the batches.
LEMMA StillBuffers ==
  ASSUME BufferInv,
         UNCHANGED <<up, sq, flight, cq, multishot, clients, pool, content, table, accepted, read,
                     echoed>>,
         pc' \in {"submit", "wait", "cqe"}, ready' \in Nat, ready' <= Len(cq)
  PROVE  BufferInv'
<1>1. /\ Bids' = Bids /\ Operation' = Operation /\ Completion' = Completion
      /\ \A b : SendsOf(b)' = SendsOf(b) /\ Given(b)' = Given(b)
  BY SameTypes
<1>2. ServerTypes'
  BY <1>1 DEF BufferInv, ServerTypes, RingTypeOK
<1>3. EntryTypes'
  BY DEF BufferInv, EntryTypes
<1>4. \A b : OnePlace(b) => OnePlace(b)'
  <2> TAKE b
  <2>1. PICK M, G : M = SendsOf(b) /\ G = Given(b) /\ SendsOf(b)' = M /\ Given(b)' = G
    BY <1>1
  <2>2. (Once(M)' <=> Once(M)) /\ (Absent(M)' <=> Absent(M))
    BY DEF Once, Absent
  <2> QED
    BY <2>1, <2>2 DEF OnePlace
<1> QED
  BY <1>1, <1>2, <1>3, <1>4 DEF BufferInv

\* The kernel completes an operation: the types.
LEMMA CompletedTypes ==
  ASSUME ServerTypes, EntryTypes, NEW op, NEW res \in Int, NEW bid \in Bids, NEW more \in BOOLEAN,
         Completes(op, res, bid, more), op.op = "accept" /\ res # FAILED => res \in Fds,
         pool' = pool \/ (pool # << >> /\ pool' = Tail(pool)),
         content' \in [Bids -> Seq(Conns \X Nat)], table' \in [Fds -> Conns \cup {0}],
         accepted' \subseteq Conns, read' \in [Conns -> 0 .. MaxBytes],
         echoed' \in [Conns -> Seq(Conns \X Nat)]
  PROVE  ServerTypes' /\ EntryTypes'
<1> DEFINE c == Cqe(op, res, bid, more)
<1>0. /\ up /\ op \in flight /\ cq' = Append(cq, c)
      /\ flight' = flight \/ flight' = flight \ {op}
      /\ UNCHANGED <<up, pc, sq, ready, multishot, clients>>
  BY DEF Completes
<1>1. /\ sq \in Seq(Operation) /\ cq \in Seq(Completion) /\ flight \subseteq Operation
      /\ IsFiniteSet(flight) /\ ready \in Nat /\ ready <= Len(cq)
  BY DEF ServerTypes, RingTypeOK
<1>2. /\ Bids' = Bids /\ Operation' = Operation /\ Completion' = Completion
  BY <1>0, SameTypes
<1>3. c \in Completion /\ c.op = op /\ c.res = res
  BY <1>0, <1>1 DEF Completion, Cqe
<1> HIDE DEF c
<1>4. cq' \in Seq(Completion) /\ Len(cq') = Len(cq) + 1 /\ Len(cq) \in Nat
  BY <1>0, <1>1, <1>3
<1>5. IsFiniteSet(flight') /\ flight' \subseteq flight
  BY <1>0, <1>1, FS_RemoveElement
<1>6. RingTypeOK(Operation, Completion)'
  BY <1>0, <1>1, <1>2, <1>4, <1>5 DEF RingTypeOK
<1>7. pool' \in Seq(Bids)
  <2>1. pool \in Seq(Bids)
    BY DEF ServerTypes
  <2>2. pool # << >> => Tail(pool) \in Seq(Bids)
    BY <2>1
  <2> QED
    BY <2>1, <2>2
<1>8. ready' \in Nat /\ ready' <= Len(cq')
  BY <1>0, <1>1, <1>4
<1>9. ServerTypes'
  BY <1>0, <1>2, <1>5, <1>6, <1>7, <1>8 DEF ServerTypes
<1>10. \A k \in 1 .. Len(cq') : (k \in 1 .. Len(cq) /\ cq'[k] = cq[k]) \/ cq'[k] = c
  BY <1>0, <1>1, <1>3, AppendEntries
<1>11. EntryTypes'
  BY <1>3, <1>5, <1>10 DEF EntryTypes
<1> QED
  BY <1>9, <1>11

\* The places: a recv takes the buffer at the head of the pool, nothing else moves one.
LEMMA CompletedPlaces ==
  ASSUME BufferInv, NEW op, NEW res \in Int, NEW bid \in Bids, NEW more \in BOOLEAN,
         Completes(op, res, bid, more), more => op.op # "send",
         \/ op.op = "recv" /\ res > 0 /\ pool # << >> /\ bid = Head(pool) /\ pool' = Tail(pool)
         \/ (op.op = "recv" => res <= 0) /\ pool' = pool
  PROVE  \A b \in Bids : OnePlace(b)'
<1> DEFINE c == Cqe(op, res, bid, more)
<1>0. /\ up /\ op \in flight /\ cq' = Append(cq, c) /\ sq' = sq
      /\ flight' = IF more THEN flight ELSE flight \ {op}
      /\ UNCHANGED <<up, pc, sq, ready, multishot, clients>>
  BY DEF Completes
<1>1. /\ RingTypeOK(Operation, Completion) /\ cq \in Seq(Completion) /\ flight \subseteq Operation
      /\ pool \in Seq(Bids)
  BY DEF BufferInv, ServerTypes, RingTypeOK
<1>2. \A b : SendsOf(b)' = SendsOf(b) /\ Given(b)' = Given(b)
  BY <1>0, SameTypes
<1>3. c \in Completion /\ c.op = op /\ c.res = res /\ c.bid = bid /\ op \in Operation
  BY <1>0, <1>1 DEF Completion, Cqe
<1> HIDE DEF c
<1>4. SUFFICES ASSUME NEW b \in Bids PROVE OnePlace(b)'
  OBVIOUS
<1>5. PICK M, G, B : B = {b} /\ M = SendsOf(b) /\ G = Given(b) /\ SendsOf(b)' = M /\ Given(b)' = G
  BY <1>2
<1>6. /\ Once(M) /\ (\A j, k \in OpsAt(pool, B) : j = k) /\ (\A j, k \in OpsAt(cq, G) : j = k)
      /\ OpsAt(pool, B) # {} => OpsAt(cq, G) = {}
      /\ Absent(M) <=> OpsAt(pool, B) # {} \/ OpsAt(cq, G) # {}
  <2>1. OnePlace(b)
    BY <1>0 DEF BufferInv
  <2> QED
    BY <1>5, <2>1 DEF OnePlace
<1>7. Once(M)' /\ (Absent(M)' <=> Absent(M))
  <2>1. CASE more
    <3>1. op \notin M
      BY <1>5, <2>1 DEF SendsOf
    <3> QED
      BY <1>0, <1>1, <1>3, <1>6, <2>1, <3>1, MoreOnce
  <2>2. CASE ~more
    BY <1>0, <1>1, <1>3, <1>6, <2>2, CompleteOnce
  <2> QED
    BY <2>1, <2>2
<1>8. c \in G <=> op.op = "recv" /\ res > 0 /\ bid = b
  BY <1>3, <1>5 DEF Given
<1>9. OpsAt(cq', G) = OpsAt(cq, G) \cup (IF c \in G THEN {Len(cq) + 1} ELSE {})
  BY <1>0, <1>1, <1>3, AppendAt
<1>10. SUFFICES /\ \A j, k \in OpsAt(pool', B) : j = k
                /\ \A j, k \in OpsAt(cq', G) : j = k
                /\ OpsAt(pool', B) # {} => OpsAt(cq', G) = {}
                /\ Absent(M)' <=> OpsAt(pool', B) # {} \/ OpsAt(cq', G) # {}
  BY <1>5, <1>7 DEF OnePlace
<1>11. CASE pool' = pool /\ (op.op = "recv" => res <= 0)
  <2>1. OpsAt(cq', G) = OpsAt(cq, G)
    BY <1>8, <1>9, <1>11
  <2> QED
    BY <1>6, <1>7, <1>11, <2>1
<1>12. CASE op.op = "recv" /\ res > 0 /\ pool # << >> /\ bid = Head(pool) /\ pool' = Tail(pool)
  <2>1. /\ \A k \in OpsAt(pool', B) : k \in Nat \ {0} /\ k + 1 \in OpsAt(pool, B)
        /\ \A k \in OpsAt(pool, B) : k = 1 \/ k - 1 \in OpsAt(pool', B)
        /\ 1 \in OpsAt(pool, B) <=> bid \in {b}
    BY <1>1, <1>5, <1>12, TailAt
  <2>2. \A j, k \in OpsAt(pool', B) : j = k
    BY <1>6, <2>1
  <2>3. CASE bid = b
    <3>1. OpsAt(pool', B) = {} /\ OpsAt(pool, B) # {}
      BY <1>6, <2>1, <2>3
    <3>2. OpsAt(cq', G) = {Len(cq) + 1}
      BY <1>6, <1>8, <1>9, <1>12, <2>3, <3>1
    <3> QED
      BY <1>6, <1>7, <3>1, <3>2
  <2>4. CASE bid # b
    <3>1. OpsAt(pool', B) = {} <=> OpsAt(pool, B) = {}
      BY <2>1, <2>4
    <3>2. OpsAt(cq', G) = OpsAt(cq, G)
      BY <1>8, <1>9, <2>4
    <3> QED
      BY <1>6, <1>7, <2>2, <3>1, <3>2
  <2> QED
    BY <2>3, <2>4
<1> QED
  BY <1>11, <1>12

\* A list of n bytes is one of bytes.
LEMMA BytesOf ==
  ASSUME NEW c \in Conns, NEW from \in Nat, NEW n \in Nat
  PROVE  /\ [k \in 1 .. n |-> <<c, from + k>>] \in Seq(Conns \X Nat)
         /\ Len([k \in 1 .. n |-> <<c, from + k>>]) = n
         /\ \A k \in 1 .. n : [j \in 1 .. n |-> <<c, from + j>>][k] = <<c, from + k>>
<1>1. \A k \in 1 .. n : <<c, from + k>> \in Conns \X Nat
  OBVIOUS
<1>2. PICK f : f = [k \in 1 .. n |-> <<c, from + k>>]
  OBVIOUS
<1>3. f \in [1 .. n -> Conns \X Nat]
  BY <1>1, <1>2
<1>4. f \in Seq(Conns \X Nat) /\ Len(f) = n
  BY <1>3
<1> QED
  BY <1>2, <1>4

\* What the kernel does, by kind of operation: also with the other servers' part of the
\* state, which it leaves alone.
LEMMA KernelKeepsBuffers ==
  ASSUME BufferInv,
         \/ AcceptFails
         \/ \E c \in Conns, fd \in Fds, more \in BOOLEAN : Connect(c, fd, more)
         \/ \E c \in Conns : Received(c) \/ Sent(c)
         \/ \E op \in Of("recv") : OpFails(op, 0)
         \/ \E op \in Of("send") : OpFails(op, FAILED)
  PROVE  BufferInv'
<1>0. /\ ServerTypes /\ EntryTypes /\ flight \subseteq Operation /\ pool \in Seq(Bids)
      /\ content \in [Bids -> Seq(Conns \X Nat)] /\ table \in [Fds -> Conns \cup {0}]
      /\ accepted \subseteq Conns /\ read \in [Conns -> 0 .. MaxBytes]
      /\ echoed \in [Conns -> Seq(Conns \X Nat)] /\ multishot \in BOOLEAN
  BY DEF BufferInv, ServerTypes, RingTypeOK
<1>1. 0 \in Bids
  BY <1>0, BidsFacts
<1>2. ASSUME NEW op, NEW res \in Int, NEW bid \in Bids, NEW more \in BOOLEAN,
             Completes(op, res, bid, more), op.op = "accept" /\ res # FAILED => res \in Fds,
             content' \in [Bids -> Seq(Conns \X Nat)], table' \in [Fds -> Conns \cup {0}],
             accepted' \subseteq Conns, read' \in [Conns -> 0 .. MaxBytes],
             echoed' \in [Conns -> Seq(Conns \X Nat)], more => op.op # "send",
             \/ op.op = "recv" /\ res > 0 /\ pool # << >> /\ bid = Head(pool) /\ pool' = Tail(pool)
             \/ (op.op = "recv" => res <= 0) /\ pool' = pool
      PROVE  BufferInv'
  <2>1. pool' = pool \/ (pool # << >> /\ pool' = Tail(pool))
    BY <1>2
  <2>2. ServerTypes' /\ EntryTypes'
    BY <1>0, <1>2, <2>1, CompletedTypes
  <2>3. Bids' = Bids
    BY <1>2, SameTypes DEF Completes
  <2>4. \A b \in Bids : OnePlace(b)'
    BY <1>2, CompletedPlaces
  <2> QED
    BY <2>2, <2>3, <2>4 DEF BufferInv
<1>3. CASE AcceptFails
  <2>1. Completes(Acceptor, FAILED, 0, FALSE) /\ UNCHANGED <<buffers, network>>
    BY <1>3 DEF AcceptFails
  <2>2. Acceptor.op = "accept" /\ FAILED \in Int
    BY DEF Acceptor, FAILED
  <2> QED
    BY <1>0, <1>1, <1>2, <2>1, <2>2 DEF buffers, network
<1>4. ASSUME NEW c \in Conns, NEW fd \in Fds, NEW more \in BOOLEAN, Connect(c, fd, more)
      PROVE  BufferInv'
  <2>1. /\ Completes(Acceptor, fd, 0, more) /\ table' = [table EXCEPT ![fd] = c]
        /\ accepted' = accepted \cup {c} /\ UNCHANGED <<buffers, read, echoed, gone>>
    BY <1>4 DEF Connect
  <2>2. Acceptor.op = "accept" /\ fd \in Int
    BY FdsAssumption DEF Acceptor
  <2>3. table' \in [Fds -> Conns \cup {0}] /\ accepted' \subseteq Conns
    BY <1>0, <2>1
  <2> QED
    <3>1. /\ content' \in [Bids -> Seq(Conns \X Nat)] /\ read' \in [Conns -> 0 .. MaxBytes]
          /\ echoed' \in [Conns -> Seq(Conns \X Nat)] /\ pool' = pool
      BY <1>0, <2>1 DEF buffers
    <3>2. (more => Acceptor.op # "send") /\ (Acceptor.op = "recv" => fd <= 0)
      BY <2>2
    <3> QED
      <4>1. ASSUME NEW m \in BOOLEAN, more = m PROVE BufferInv'
        <5>1. Completes(Acceptor, fd, 0, m)
          BY <2>1, <4>1
        <5> QED
          BY <1>1, <1>2, <2>2, <2>3, <3>1, <3>2, <5>1
      <4> QED
        BY <4>1
<1>5. ASSUME NEW c \in Conns, Received(c)
      PROVE  BufferInv'
  <2>1. PICK op \in Of("recv"), n \in 1 .. BUF_SIZE, more \in BOOLEAN :
          op.conn = c /\ (RecvCompletes(op, n, more) \/ RecvFindsNoBuffer(op))
    BY <1>5 DEF Received
  <2>2. op \in flight /\ op.op = "recv" /\ n \in Nat /\ n > 0
    BY <2>1, BufAssumption DEF Of
  <2>3. CASE RecvCompletes(op, n, more)
    <3>1. /\ read[c] + n <= MaxBytes /\ pool # << >> /\ Completes(op, n, Head(pool), more)
          /\ pool' = Tail(pool) /\ read' = [read EXCEPT ![c] = @ + n]
          /\ content' = [content EXCEPT ![Head(pool)] = [k \in 1 .. n |-> <<c, read[c] + k>>]]
          /\ UNCHANGED <<table, accepted, echoed, gone>>
      BY <2>1, <2>3 DEF RecvCompletes
    <3>2. Head(pool) \in Bids /\ read[c] \in Nat /\ read[c] + n \in 0 .. MaxBytes
      BY <1>0, <2>2, <3>1, BoundAssumption
    <3>3. read' \in [Conns -> 0 .. MaxBytes]
      BY <1>0, <3>1, <3>2
    <3>4. content' \in [Bids -> Seq(Conns \X Nat)]
      <4>1. [k \in 1 .. n |-> <<c, read[c] + k>>] \in Seq(Conns \X Nat)
        BY <2>2, <3>2, BytesOf
      <4> QED
        BY <1>0, <3>1, <4>1
    <3>5. /\ table' \in [Fds -> Conns \cup {0}] /\ accepted' \subseteq Conns
          /\ echoed' \in [Conns -> Seq(Conns \X Nat)]
      BY <1>0, <3>1
    <3>6. PICK b \in Bids : b = Head(pool)
      BY <3>2
    <3>7. n \in Int /\ op.op # "accept" /\ op.op # "send" /\ op.op = "recv" /\ n > 0
      BY <2>2
    <3>8. pool # << >> /\ b = Head(pool) /\ pool' = Tail(pool)
      BY <3>1, <3>6
    <3> QED
      <4>1. ASSUME NEW m \in BOOLEAN, more = m PROVE BufferInv'
        <5>1. Completes(op, n, b, m)
          BY <3>1, <3>6, <4>1
        <5> QED
          BY <1>2, <3>3, <3>4, <3>5, <3>7, <3>8, <5>1
      <4> QED
        BY <4>1
  <2>4. CASE RecvFindsNoBuffer(op)
    <3>1. Completes(op, ENOBUFS, 0, FALSE) /\ UNCHANGED <<buffers, network>>
      BY <2>4 DEF RecvFindsNoBuffer
    <3>2. ENOBUFS \in Int /\ ENOBUFS <= 0
      BY DEF ENOBUFS
    <3> QED
      BY <1>0, <1>1, <1>2, <2>2, <3>1, <3>2 DEF buffers, network
  <2> QED
    BY <2>1, <2>3, <2>4
<1>6. ASSUME NEW c \in Conns, Sent(c)
      PROVE  BufferInv'
  <2>1. PICK op \in Of("send"), n \in 1 .. BUF_SIZE : op.conn = c /\ SendCompletes(op, n)
    BY <1>6 DEF Sent
  <2>2. op \in flight /\ op.op = "send" /\ n \in Nat /\ op.bid \in Bids /\ op.offset \in Nat
    BY <1>0, <2>1, BufAssumption, OperationKinds DEF Of
  <2>3. /\ Completes(op, n, 0, FALSE) /\ op.offset + n <= Len(content[op.bid])
        /\ echoed' = [echoed EXCEPT ![c] = @ \o SubSeq(content[op.bid], op.offset + 1, op.offset + n)]
        /\ UNCHANGED <<buffers, table, accepted, read, gone>>
    BY <2>1 DEF SendCompletes
  <2>4. echoed' \in [Conns -> Seq(Conns \X Nat)]
    <3>1. PICK T : T = Conns \X Nat
      OBVIOUS
    <3>2. SubSeq(content[op.bid], op.offset + 1, op.offset + n) \in Seq(T)
      <4>1. PICK q, i, j : q = content[op.bid] /\ i = op.offset + 1 /\ j = op.offset + n
        OBVIOUS
      <4>2. q \in Seq(T) /\ i \in 1 .. Len(q) + 1 /\ j \in 1 .. Len(q) /\ i <= j
        <5>1. q \in Seq(T) /\ Len(q) \in Nat
          BY <1>0, <2>2, <3>1, <4>1
        <5>2. n >= 1
          BY <2>1
        <5> QED
          BY <2>2, <2>3, <4>1, <5>1, <5>2
      <4>3. SubSeq(q, i, j) \in Seq(T)
        BY <4>2
      <4> QED
        BY <4>1, <4>3
    <3>3. echoed[c] \o SubSeq(content[op.bid], op.offset + 1, op.offset + n) \in Seq(T)
      BY <1>0, <3>1, <3>2
    <3> QED
      BY <1>0, <2>3, <3>1, <3>3
  <2> QED
    <3>1. /\ content' \in [Bids -> Seq(Conns \X Nat)] /\ read' \in [Conns -> 0 .. MaxBytes]
          /\ table' \in [Fds -> Conns \cup {0}] /\ accepted' \subseteq Conns /\ pool' = pool
      BY <1>0, <2>3 DEF buffers
    <3>2. n \in Int /\ op.op # "accept" /\ op.op # "recv"
      BY <2>2
    <3> QED
      BY <1>1, <1>2, <2>3, <2>4, <3>1, <3>2
<1>7. ASSUME NEW op \in flight, op.op \in {"recv", "send"}, NEW res \in {0, FAILED}, OpFails(op, res)
      PROVE  BufferInv'
  <2>1. Completes(op, res, 0, FALSE) /\ UNCHANGED <<buffers, table, accepted, read, echoed>>
    BY <1>7 DEF OpFails
  <2>2. res \in Int /\ res <= 0
    BY DEF FAILED
  <2> QED
    BY <1>0, <1>1, <1>2, <1>7, <2>1, <2>2 DEF buffers
<1> QED
  BY <1>3, <1>4, <1>5, <1>6, <1>7 DEF Of

\* Every step.
LEMMA NextBuffers == ASSUME BufferInv, Next PROVE BufferInv'
<1>1. CASE Server
  <2>1. CASE Collect
    <3>1. /\ UNCHANGED <<up, sq, flight, cq, multishot, clients, pool, content, table, accepted,
                          read, echoed>>
          /\ pc' \in {"cqe", "submit"} /\ ready' \in {ready, Len(cq)}
      BY <2>1 DEF Collect, Wait, EndBatch, buffers, network
    <3>2. ready' \in Nat /\ ready' <= Len(cq)
      BY <3>1 DEF BufferInv, ServerTypes, RingTypeOK
    <3> QED
      BY <3>1, <3>2, StillBuffers
  <2>2. CASE Submitted
    <3>1. /\ UNCHANGED <<up, sq, flight, cq, multishot, clients, pool, content, table, accepted,
                          read, echoed, ready>>
          /\ pc' = "wait" /\ ready \in Nat /\ ready <= Len(cq)
      BY <2>2 DEF Submitted, BufferInv, ServerTypes, buffers, network
    <3> QED
      BY <3>1, StillBuffers
  <2> QED
    BY <1>1, <2>1, <2>2, SubmitKeepsBuffers, HandlersKeepBuffers DEF Server
<1> QED
  BY <1>1, KernelKeepsBuffers DEF Next

\* At the start every buffer is in the pool.
LEMMA InitBuffers == Init => BufferInv
<1> SUFFICES ASSUME Init PROVE BufferInv
  OBVIOUS
<1>1. /\ multishot \in BOOLEAN /\ up = TRUE /\ pc = "submit" /\ sq = <<Acceptor>> /\ flight = {}
      /\ cq = << >> /\ ready = 0 /\ clients = {} /\ pool = [k \in 1 .. NumBufs |-> k - 1]
      /\ content = [b \in Bids |-> << >>] /\ table = [fd \in Fds |-> 0] /\ accepted = {}
      /\ read = [c \in Conns |-> 0] /\ echoed = [c \in Conns |-> << >>]
  BY DEF Init, RingInit
<1>2. NumBufs \in Nat \ {0} /\ Bids = 0 .. NumBufs - 1
  BY <1>1, BidsFacts
<1>3. pool \in [1 .. NumBufs -> Bids]
  BY <1>1, <1>2
<1>4. pool \in Seq(Bids) /\ Len(pool) = NumBufs /\ \A k \in 1 .. NumBufs : pool[k] = k - 1
  <2>1. pool \in Seq(Bids) /\ Len(pool) = NumBufs
    BY <1>2, <1>3
  <2> QED
    BY <1>1, <2>1
<1>5. RingTypeOK(Operation, Completion)
  <2>1. Acceptor \in Operation
    BY OperationKinds
  <2>2. sq \in Seq(Operation) /\ cq \in Seq(Completion)
    BY <1>1, <2>1
  <2> QED
    BY <1>1, <2>2 DEF RingTypeOK
<1>6. ServerTypes
  <2>1. Len(sq) = 1 /\ 1 <= SqDepth /\ Len(cq) = 0 /\ 0 \in 0 .. MaxBytes
    BY <1>1, SqDepthAssumption, BoundAssumption
  <2>2. \A S : << >> \in Seq(S)
    OBVIOUS
  <2>3. content \in [Bids -> Seq(Conns \X Nat)] /\ echoed \in [Conns -> Seq(Conns \X Nat)]
        /\ read \in [Conns -> 0 .. MaxBytes] /\ table \in [Fds -> Conns \cup {0}]
    BY <1>1, <2>1, <2>2
  <2> QED
    BY <1>1, <1>4, <1>5, <2>1, <2>3, FS_EmptySet DEF ServerTypes
<1>7. EntryTypes
  BY <1>1 DEF EntryTypes
<1>8. ASSUME NEW b \in Bids PROVE OnePlace(b)
  <2>1. OpsAt(pool, {b}) = {b + 1}
    BY <1>2, <1>4 DEF OpsAt
  <2>2. \A M : OpsAt(cq, M) = {} /\ DoneAt(cq, M) = {}
    BY <1>1 DEF OpsAt, DoneAt
  <2>3. OpsAt(sq, SendsOf(b)) = {}
    <3>1. Acceptor \notin SendsOf(b)
      BY OperationKinds DEF SendsOf
    <3> QED
      BY <1>1, <3>1, PlaceOfOne
  <2> QED
    BY <1>1, <2>1, <2>2, <2>3 DEF OnePlace, Once, Absent
<1> QED
  BY <1>6, <1>7, <1>8 DEF BufferInv

\* The sets of places are sets with at most one element, and one of them has one.
LEMMA PlacesOfBuffer == ASSUME BufferInv, up, NEW b \in Bids PROVE Places(b) = 1
<1> DEFINE P == {k \in DOMAIN pool : pool[k] = b}
           G == {k \in DOMAIN cq : cq[k].op.op = "recv" /\ cq[k].res > 0 /\ cq[k].bid = b}
           S == {k \in DOMAIN sq : sq[k].op = "send" /\ sq[k].bid = b}
           F == {op \in Of("send") : op.bid = b}
           D == {k \in DOMAIN cq : cq[k].op.op = "send" /\ cq[k].op.bid = b}
<1>1. /\ pool \in Seq(Bids) /\ cq \in Seq(Completion) /\ sq \in Seq(Operation)
      /\ flight \subseteq Operation /\ OnePlace(b)
  BY DEF BufferInv, ServerTypes, RingTypeOK
<1>2. P = OpsAt(pool, {b})
  BY <1>1 DEF OpsAt
<1>3. G = OpsAt(cq, Given(b))
  BY <1>1 DEF OpsAt, Given
<1>4. S = OpsAt(sq, SendsOf(b))
  BY <1>1 DEF OpsAt, SendsOf
<1>5. F = flight \cap SendsOf(b)
  BY <1>1 DEF Of, SendsOf
<1>6. D = DoneAt(cq, SendsOf(b))
  <2>1. \A k \in 1 .. Len(cq) : cq[k].op \in Operation
    <3>1. \A k \in 1 .. Len(cq) : cq[k] \in Completion
      BY <1>1
    <3> QED
      BY <3>1 DEF Completion
  <2> QED
    BY <1>1, <2>1 DEF DoneAt, SendsOf
<1>7. Places(b) = Cardinality(P) + Cardinality(G) + Cardinality(S) + Cardinality(F) + Cardinality(D)
  BY DEF Places
<1> HIDE DEF P, G, S, F, D
<1>8. /\ \A j, k \in P : j = k
      /\ \A j, k \in G : j = k
      /\ \A j, k \in S : j = k
      /\ \A j, k \in F : j = k
      /\ \A j, k \in D : j = k
  BY <1>1, <1>2, <1>3, <1>4, <1>5, <1>6 DEF OnePlace, Once
<1>9. /\ Cardinality(P) = IF P = {} THEN 0 ELSE 1
      /\ Cardinality(G) = IF G = {} THEN 0 ELSE 1
      /\ Cardinality(S) = IF S = {} THEN 0 ELSE 1
      /\ Cardinality(F) = IF F = {} THEN 0 ELSE 1
      /\ Cardinality(D) = IF D = {} THEN 0 ELSE 1
  BY <1>8, AtMostOne
<1>10. /\ P # {} => G = {}
       /\ S = {} /\ F = {} /\ D = {} <=> P # {} \/ G # {}
       /\ S # {} => F = {} /\ D = {}
       /\ F # {} => D = {}
  BY <1>1, <1>2, <1>3, <1>4, <1>5, <1>6 DEF OnePlace, Once, Absent
<1> QED
  BY <1>7, <1>9, <1>10

\* The invariant says what is promised.
LEMMA BuffersKept == ASSUME BufferInv PROVE BuffersConserved
<1>1. pool \in Seq(Bids) /\ ToSet(pool) \subseteq Bids
  BY DEF BufferInv, ServerTypes, ToSet
<1>2. \A c \in Conns : read[c] <= MaxBytes
  BY BoundAssumption DEF BufferInv, ServerTypes
<1>3. TypeOK
  BY <1>1, <1>2 DEF BufferInv, ServerTypes, TypeOK
<1> QED
  BY <1>3, PlacesOfBuffer DEF BuffersConserved

\* A buffer is never lost and never in two hands: the kernel does not receive into a buffer
\* that is being sent, however operations fail, are refused, repeat or find the descriptor
\* closed or used again, in both exercises and for every pool.
THEOREM BuffersAlwaysConserved == Spec => []BuffersConserved
<1>1. BufferInv /\ [Next]_vars => BufferInv'
  <2>1. ASSUME BufferInv, UNCHANGED vars PROVE BufferInv'
    <3>1. UNCHANGED <<up, sq, flight, cq, multishot, clients, pool, content, table, accepted, read,
                     echoed, pc, ready>>
      BY <2>1 DEF vars, ring, buffers, network
    <3>2. pc' \in {"submit", "wait", "cqe"} /\ ready' \in Nat /\ ready' <= Len(cq)
      BY <2>1, <3>1 DEF BufferInv, ServerTypes
    <3> QED
      BY <2>1, <3>1, <3>2, StillBuffers
  <2> QED
    BY <2>1, NextBuffers
<1> QED
  BY <1>1, InitBuffers, BuffersKept, PTL DEF Spec

----
\* The operations of a client.
OpsOf(fd) == {op \in Operation : op.op \in {"recv", "send"} /\ op.fd = fd}

\* Exercise 10.  A client has one operation under way, which is on the connection its
\* descriptor names, and so is its completion; one that ends the connection is the
\* client's doing.  A new connection whose completion has not been handled is nobody's client.
SoleOp(fd) == Once(OpsOf(fd)) /\ (Absent(OpsOf(fd)) <=> fd \notin clients)
OnConn(op) == op.op # "accept" => op.conn = table[op.fd]
Rearms(op) == op.op = "send" => op.rearm
Ends(c) == c.op.op # "accept" /\ c.res <= 0 /\ (c.op.op = "recv" => c.res # ENOBUFS)
EntryOK(c) ==
  /\ ~c.more /\ OnConn(c.op) /\ Rearms(c.op)
  /\ c.op.op = "accept" /\ c.res # FAILED => c.res \notin clients /\ table[c.res] # 0
  /\ Ends(c) => c.op.conn \in gone
SingleInv ==
  /\ \A fd \in Fds : SoleOp(fd)
  /\ \A fd \in clients : table[fd] # 0
  /\ \A op \in flight : OnConn(op) /\ Rearms(op)
  /\ \A k \in 1 .. Len(sq) : Rearms(sq[k])
  /\ \A k \in 1 .. Len(cq) : EntryOK(cq[k])
  /\ \A j, k \in 1 .. Len(cq) :
       cq[j].op.op = "accept" /\ cq[j].res # FAILED /\ cq[k].op.op = "accept" /\ cq[k].res = cq[j].res
         => j = k
  /\ accepted \subseteq gone \cup {table[fd] : fd \in Fds}

\* Exercise 11.  A recv that has completed with more to come is still armed: the kernel has it,
\* or another completion of it follows.
MultiInv ==
  /\ \A fd \in clients : Armed(fd) # {}
  /\ \A k \in 1 .. Len(cq) :
       cq[k].op.op = "recv" /\ cq[k].more =>
         cq[k].op \in flight \/ \E j \in 1 .. Len(cq) : j > k /\ cq[j].op = cq[k].op

ClientInv == up => IF multishot THEN MultiInv ELSE SingleInv

\* Exercise 10.  Where a connection stands between a recv and the last byte of its echo.
Numbered(b, c) ==
  /\ Len(content[b]) <= read[c]
  /\ \A n \in 1 .. Len(content[b]) : content[b][n] = <<c, read[c] - Len(content[b]) + n>>
Asked(op) ==
  LET c == table[op.fd]
  IN  /\ op.op = "recv" => Len(echoed[c]) = read[c]
      /\ op.op = "send" => /\ Numbered(op.bid, c) /\ op.offset < Len(content[op.bid])
                           /\ Len(echoed[c]) + Len(content[op.bid]) = read[c] + op.offset
Answered(e) ==
  LET c == table[e.op.fd]
  IN  /\ e.op.op = "accept" /\ e.res # FAILED => read[table[e.res]] = 0 /\ echoed[table[e.res]] = << >>
      /\ e.op.op = "recv" /\ e.res <= 0 => Len(echoed[c]) = read[c]
      /\ e.op.op = "recv" /\ e.res > 0 =>
           Numbered(e.bid, c) /\ Len(content[e.bid]) = e.res /\ Len(echoed[c]) + e.res = read[c]
      /\ e.op.op = "send" /\ e.res > 0 =>
           /\ Numbered(e.op.bid, c) /\ e.op.offset + e.res <= Len(content[e.op.bid])
           /\ Len(echoed[c]) + Len(content[e.op.bid]) = read[c] + e.op.offset + e.res
InStep ==
  /\ InOrder
  /\ \A f, g \in Fds : table[f] = table[g] /\ table[f] # 0 => f = g
  /\ \A fd \in Fds : table[fd] \in accepted \cup {0}
  /\ \A c \in Conns \ accepted : read[c] = 0 /\ echoed[c] = << >>
  /\ \A k \in 1 .. Len(sq) : Asked(sq[k])
  /\ \A op \in flight : Asked(op)
  /\ \A k \in 1 .. Len(cq) : Answered(cq[k])
OrderInv == ~multishot => InOrder /\ (up => InStep)

----
\* What tells the operations of clients apart.
LEMMA ClientOps ==
  /\ \A op \in Operation : op.op # "accept" => op.fd \in Fds /\ op \in OpsOf(op.fd)
  /\ \A op, fd : op \in OpsOf(fd) => op \in Operation /\ op.fd = fd /\ op.op # "accept"
                                    /\ op.op \in {"recv", "send"}
  /\ \A fd : Acceptor \notin OpsOf(fd)
<1>1. \A op \in Operation : op.op # "accept" => op.fd \in Fds /\ op.op \in {"recv", "send"}
  BY OperationKinds
<1>2. Acceptor.op = "accept"
  BY OperationKinds
<1> QED
  BY <1>1, <1>2 DEF OpsOf

\* The operations of a client stay the same ones.
LEMMA SameOps == ASSUME multishot' = multishot PROVE \A fd : OpsOf(fd)' = OpsOf(fd)
BY SameTypes DEF OpsOf

\* Exercise 10: what is completed is all that is pending of its client.
LEMMA SoleHere ==
  ASSUME ServerTypes, EntryTypes, SingleInv, NEW kind, Peek(kind), kind # "accept"
  PROVE  /\ Op.fd \in clients /\ Op.fd \in Fds /\ Op \in OpsOf(Op.fd)
         /\ \A k \in 1 .. Len(cq) : cq[k].op \in OpsOf(Op.fd) => k = 1
         /\ \A op \in flight : op \notin OpsOf(Op.fd)
         /\ \A k \in 1 .. Len(sq) : sq[k] \notin OpsOf(Op.fd)
<1>1. /\ up /\ cq # << >> /\ Len(cq) \in Nat \ {0} /\ Op = Head(cq).op /\ Head(cq) = cq[1]
      /\ Op \in Operation /\ Op.op # "accept"
  BY PeekHere
<1>2. Op.fd \in Fds /\ Op \in OpsOf(Op.fd)
  BY <1>1, ClientOps
<1>3. PICK M : M = OpsOf(Op.fd)
  OBVIOUS
<1>4. Once(M) /\ (Absent(M) => Op.fd \notin clients)
  BY <1>2, <1>3 DEF SingleInv, SoleOp
<1>5. 1 \in DoneAt(cq, M)
  BY <1>1, <1>2, <1>3 DEF DoneAt
<1>6. /\ OpsAt(sq, M) = {} /\ flight \cap M = {} /\ \A j, k \in DoneAt(cq, M) : j = k
      /\ Op.fd \in clients \/ Op.fd \notin Fds
  <2>1. ~Absent(M)
    BY <1>5 DEF Absent
  <2>2. Op.fd \in clients
    BY <1>2, <1>3, <2>1 DEF SingleInv, SoleOp
  <2> QED
    BY <1>4, <1>5, <2>2 DEF Once
<1> QED
  BY <1>2, <1>3, <1>5, <1>6 DEF OpsAt, DoneAt

\* Exercise 10, a handler: it makes a client of a new connection, it asks for the next
\* operation of the client it handles, or it closes.
LEMMA HandledSingle ==
  ASSUME BufferInv, SingleInv, NEW kind, Peek(kind), NEW ops \in Seq(Operation), Prepare(ops), Seen,
         up', UNCHANGED <<multishot, accepted, gone>>, \A k \in 1 .. Len(ops) : Rearms(ops[k]),
         \/ /\ kind = "accept" /\ Res # FAILED /\ clients' = clients \cup {Res} /\ table' = table
            /\ \E op \in OpsOf(Res) : ops = <<op>> \/ ops = <<op, Acceptor>>
         \/ /\ kind = "accept" /\ clients' = clients /\ table' = table
            /\ \A fd : OpsAt(ops, OpsOf(fd)) = {} /\ Res = FAILED
         \/ /\ kind # "accept" /\ clients' = clients /\ table' = table
            /\ \E op \in OpsOf(Op.fd) : ops = <<op>>
         \/ kind # "accept" /\ Ends(Head(cq)) /\ Close(Op.fd) /\ ops = << >>
  PROVE  SingleInv'
<1>1. /\ up /\ cq # << >> /\ Len(cq) \in Nat \ {0} /\ Op = Head(cq).op /\ Head(cq) = cq[1]
      /\ Op \in Operation /\ Op.op = kind /\ Res = cq[1].res /\ (kind = "accept" /\ Res # FAILED => Res \in Fds)
      /\ ServerTypes /\ EntryTypes /\ RingTypeOK(Operation, Completion)
      /\ table \in [Fds -> Conns \cup {0}] /\ sq \in Seq(Operation) /\ cq \in Seq(Completion)
      /\ flight \subseteq Operation /\ clients \subseteq Fds
  BY PeekHere DEF BufferInv, ServerTypes, RingTypeOK
<1>2. cq' = Tail(cq) /\ flight' = flight /\ sq' = sq \o ops
  BY <1>1, PrepareRing DEF Seen, ServerTypes
<1>3. \A fd : OpsOf(fd)' = OpsOf(fd)
  BY SameOps
<1>4. \A k \in 1 .. Len(cq') : k + 1 \in 1 .. Len(cq) /\ cq'[k] = cq[k + 1] /\ k + 1 # 1
  BY <1>1, <1>2, TailEntries
<1>5. \A k \in 1 .. Len(sq') : Rearms(sq'[k])
  <2>1. \A k \in 1 .. Len(sq') :
          \/ k \in 1 .. Len(sq) /\ sq'[k] = sq[k]
          \/ k - Len(sq) \in 1 .. Len(ops) /\ sq'[k] = ops[k - Len(sq)]
    <3>1. sq \in Seq(Operation) /\ ops \in Seq(Operation)
      BY <1>1
    <3>2. \A s, t \in Seq(Operation) : \A k \in 1 .. Len(s \o t) :
            \/ k \in 1 .. Len(s) /\ (s \o t)[k] = s[k]
            \/ k - Len(s) \in 1 .. Len(t) /\ (s \o t)[k] = t[k - Len(s)]
      OBVIOUS
    <3>3. sq' = sq \o ops
      BY <1>2
    <3> QED
      BY <3>1, <3>2, <3>3
  <2> QED
    BY <2>1 DEF SingleInv
<1>6. ASSUME NEW fd \in Fds
      PROVE  Once(OpsOf(fd))' /\ (Absent(OpsOf(fd))' <=> fd \notin clients')
  <2>1. PICK M : M = OpsOf(fd) /\ OpsOf(fd)' = M
    BY <1>3
  <2>2. Once(M) /\ (Absent(M) <=> fd \notin clients)
    BY <2>1 DEF SingleInv, SoleOp
  <2>3. \A op : \A g : op \in OpsOf(g) => (op \in M <=> g = fd)
    BY <2>1, ClientOps
  <2>4. Acceptor \notin M
    BY <2>1, ClientOps
  <2>5. Op \in M <=> kind # "accept" /\ Op.fd = fd
    BY <1>1, <2>1, ClientOps
  <2>6. Op \in M => ~Absent(M)
    <3>1. 1 \in DoneAt(cq, M) <=> Head(cq).op \in M
      BY <1>1, TailAt
    <3> QED
      BY <1>1, <3>1 DEF Absent
  <2>7. /\ \A j, k \in OpsAt(ops, M) : j = k
        /\ OpsAt(ops, M) # {} => Op \in M \/ Absent(M)
        /\ OpsAt(ops, M) = {} /\ (Op \in M \/ Absent(M)) <=> fd \notin clients'
    <3>1. ASSUME NEW op \in OpsOf(Res), ops = <<op>> \/ ops = <<op, Acceptor>>,
                 kind = "accept", Res # FAILED, clients' = clients \cup {Res}
          PROVE  /\ \A j, k \in OpsAt(ops, M) : j = k
                 /\ OpsAt(ops, M) # {} => Op \in M \/ Absent(M)
                 /\ OpsAt(ops, M) = {} /\ (Op \in M \/ Absent(M)) <=> fd \notin clients'
      <4>1. OpsAt(ops, M) = IF Res = fd THEN {1} ELSE {}
        BY <2>3, <2>4, <3>1, PlaceOfOne, PlacesOfTwo
      <4>2. Res \notin clients
        <5>1. EntryOK(cq[1])
          BY <1>1 DEF SingleInv
        <5> QED
          BY <1>1, <3>1, <5>1 DEF EntryOK
      <4> QED
        BY <2>2, <2>5, <3>1, <4>1, <4>2
    <3>2. CASE /\ kind = "accept" /\ clients' = clients
               /\ \A g : OpsAt(ops, OpsOf(g)) = {} /\ Res = FAILED
      BY <2>1, <2>2, <2>5, <3>2
    <3>3. ASSUME NEW op \in OpsOf(Op.fd), ops = <<op>>, kind # "accept", clients' = clients
          PROVE  /\ \A j, k \in OpsAt(ops, M) : j = k
                 /\ OpsAt(ops, M) # {} => Op \in M \/ Absent(M)
                 /\ OpsAt(ops, M) = {} /\ (Op \in M \/ Absent(M)) <=> fd \notin clients'
      <4>1. OpsAt(ops, M) = IF Op.fd = fd THEN {1} ELSE {}
        BY <2>3, <3>3, PlaceOfOne
      <4> QED
        BY <2>2, <2>5, <2>6, <3>3, <4>1
    <3>4. CASE kind # "accept" /\ Close(Op.fd) /\ ops = << >>
      <4>1. OpsAt(ops, M) = {} /\ clients' = clients \ {Op.fd}
        BY <3>4, PlacesOfNone DEF Close
      <4> QED
        BY <2>2, <2>5, <2>6, <3>4, <4>1
    <3> QED
      BY <3>1, <3>2, <3>3, <3>4
  <2>8. /\ Once(M)'
        /\ OpsAt(ops, M) # {} => ~Absent(M)'
        /\ OpsAt(ops, M) = {} /\ Op \in M => Absent(M)'
        /\ OpsAt(ops, M) = {} /\ Op \notin M => (Absent(M)' <=> Absent(M))
    BY <1>1, <1>2, <2>2, <2>7, SeenOnce
  <2> QED
    BY <2>1, <2>7, <2>8
<1>7. CASE /\ table' = table
           /\ \/ clients' = clients
              \/ kind = "accept" /\ Res # FAILED /\ clients' = clients \cup {Res}
  <2>1. \A op : (OnConn(op)' <=> OnConn(op)) /\ (Rearms(op)' <=> Rearms(op))
    BY <1>7 DEF OnConn, Rearms
  <2>2. EntryOK(cq[1])
    BY <1>1 DEF SingleInv
  <2>3. \A fd \in clients' : table'[fd] # 0
    BY <1>1, <1>7, <2>2 DEF SingleInv, EntryOK
  <2>4. ASSUME NEW k \in 1 .. Len(cq') PROVE EntryOK(cq[k])'
    <3>1. k + 1 \in 1 .. Len(cq) /\ cq'[k] = cq[k + 1] /\ k + 1 # 1 /\ 1 \in 1 .. Len(cq)
      BY <1>1, <1>4
    <3>2. PICK c : c = cq[k + 1] /\ c = cq'[k] /\ EntryOK(c)
      BY <3>1 DEF SingleInv
    <3>3. c.op.op = "accept" /\ c.res # FAILED => c.res \notin clients' /\ table'[c.res] # 0
      <4>1. kind = "accept" /\ Res # FAILED /\ c.op.op = "accept" /\ c.res # FAILED => c.res # Res
        <5>1. Op.op = "accept" /\ c.res = Res /\ Res # FAILED /\ c.op.op = "accept" => k + 1 = 1
          BY <1>1, <3>1, <3>2 DEF SingleInv
        <5> QED
          BY <1>1, <3>1, <5>1
      <4> QED
        BY <1>7, <3>2, <4>1 DEF EntryOK
    <3> QED
      BY <2>1, <3>2, <3>3 DEF EntryOK
  <2>5. \A j, k \in 1 .. Len(cq') :
          cq'[j].op.op = "accept" /\ cq'[j].res # FAILED /\ cq'[k].op.op = "accept"
            /\ cq'[k].res = cq'[j].res => j = k
    <3> TAKE j, k \in 1 .. Len(cq')
    <3>1. /\ j + 1 \in 1 .. Len(cq) /\ k + 1 \in 1 .. Len(cq) /\ cq'[j] = cq[j + 1]
          /\ cq'[k] = cq[k + 1] /\ j \in Int /\ k \in Int
      BY <1>4
    <3> QED
      BY <3>1 DEF SingleInv
  <2>6. accepted' \subseteq gone' \cup {table'[fd] : fd \in Fds}
    BY <1>7 DEF SingleInv
  <2>7. \A op \in flight' : OnConn(op)' /\ Rearms(op)'
    BY <1>2, <2>1 DEF SingleInv
  <2>8. \A k \in 1 .. Len(sq') : Rearms(sq[k])'
    BY <1>5 DEF Rearms
  <2> QED
    BY <1>6, <2>3, <2>4, <2>5, <2>6, <2>7, <2>8 DEF SingleInv, SoleOp
<1>8. CASE kind # "accept" /\ Ends(Head(cq)) /\ Close(Op.fd)
  <2>1. /\ Op.fd \in clients /\ Op.fd \in Fds /\ Op \in OpsOf(Op.fd)
        /\ \A k \in 1 .. Len(cq) : cq[k].op \in OpsOf(Op.fd) => k = 1
        /\ \A op \in flight : op \notin OpsOf(Op.fd)
    BY <1>1, <1>8, SoleHere
  <2>2. /\ table' = [table EXCEPT ![Op.fd] = 0] /\ clients' = clients \ {Op.fd}
    BY <1>8 DEF Close
  <2>3. \A fd \in Fds : table'[fd] = IF fd = Op.fd THEN 0 ELSE table[fd]
    BY <1>1, <2>2
  <2>4. \A fd \in clients' : table'[fd] # 0
    BY <1>1, <2>2, <2>3 DEF SingleInv
  <2>5. \A op \in Operation : op \notin OpsOf(Op.fd) => (OnConn(op)' <=> OnConn(op))
    <3> TAKE op \in Operation
    <3>1. op.op # "accept" => op.fd \in Fds /\ op \in OpsOf(op.fd)
      BY ClientOps
    <3> QED
      BY <2>3, <3>1 DEF OnConn
  <2>6. \A op \in flight' : OnConn(op)' /\ Rearms(op)'
    <3>1. \A op : Rearms(op)' <=> Rearms(op)
      BY DEF Rearms
    <3> QED
      BY <1>1, <1>2, <2>1, <2>5, <3>1 DEF SingleInv
  <2>7. ASSUME NEW k \in 1 .. Len(cq') PROVE EntryOK(cq[k])'
    <3>1. k + 1 \in 1 .. Len(cq) /\ cq'[k] = cq[k + 1] /\ k + 1 # 1
      BY <1>4
    <3>2. PICK c : c = cq[k + 1] /\ c = cq'[k] /\ EntryOK(c)
      BY <3>1 DEF SingleInv
    <3>3. c.op \in Operation /\ c.op \notin OpsOf(Op.fd)
          /\ (c.op.op = "accept" /\ c.res # FAILED => c.res \in Fds)
      <4>1. c \in Completion
        BY <1>1, <3>1, <3>2
      <4> QED
        BY <1>1, <2>1, <3>1, <3>2, <4>1 DEF Completion, EntryTypes
    <3>4. OnConn(c.op)'
      BY <2>5, <3>2, <3>3 DEF EntryOK
    <3>5. c.op.op = "accept" /\ c.res # FAILED => c.res \notin clients' /\ table'[c.res] # 0
      <4>1. c.op.op = "accept" /\ c.res # FAILED => c.res # Op.fd
        BY <2>1, <3>2 DEF EntryOK
      <4> QED
        BY <2>2, <2>3, <3>2, <3>3, <4>1 DEF EntryOK
    <3> QED
      BY <3>2, <3>4, <3>5 DEF EntryOK, Rearms
  <2>8. \A j, k \in 1 .. Len(cq') :
          cq'[j].op.op = "accept" /\ cq'[j].res # FAILED /\ cq'[k].op.op = "accept"
            /\ cq'[k].res = cq'[j].res => j = k
    <3> TAKE j, k \in 1 .. Len(cq')
    <3>1. /\ j + 1 \in 1 .. Len(cq) /\ k + 1 \in 1 .. Len(cq) /\ cq'[j] = cq[j + 1]
          /\ cq'[k] = cq[k + 1] /\ j \in Int /\ k \in Int
      BY <1>4
    <3> QED
      BY <3>1 DEF SingleInv
  <2>9. accepted' \subseteq gone' \cup {table'[fd] : fd \in Fds}
    <3>1. table[Op.fd] \in gone
      <4>1. EntryOK(cq[1]) /\ Op = cq[1].op
        BY <1>1 DEF SingleInv
      <4> QED
        BY <1>1, <1>8, <4>1 DEF EntryOK, OnConn
    <3>2. \A fd \in Fds : table[fd] \in gone \/ table[fd] \in {table'[g] : g \in Fds}
      BY <2>3, <3>1
    <3> QED
      BY <3>2 DEF SingleInv
  <2>10. \A k \in 1 .. Len(sq') : Rearms(sq[k])'
    BY <1>5 DEF Rearms
  <2> QED
    BY <1>6, <2>4, <2>6, <2>7, <2>8, <2>9, <2>10 DEF SingleInv, SoleOp
<1> QED
  BY <1>7, <1>8

\* Exercise 11.  An operation by which its client is not forgotten.
Arms(op, fd) == op.op \in {"recv", "send"} /\ op.fd = fd /\ (op.op = "send" => op.rearm)

\* See Arms.
LEMMA ArmedPlaces ==
  ASSUME NEW T, NEW U, NEW s \in Seq(T), NEW f, NEW c \in Seq(U), NEW fd
  PROVE  {op \in ToSet(s) \cup f \cup {c[k].op : k \in DOMAIN c} :
            op.op \in {"recv", "send"} /\ op.fd = fd /\ (op.op = "send" => op.rearm)} # {}
           <=> \/ \E k \in 1 .. Len(s) : Arms(s[k], fd)
               \/ \E op \in f : Arms(op, fd)
               \/ \E k \in 1 .. Len(c) : Arms(c[k].op, fd)
<1>1. DOMAIN s = 1 .. Len(s) /\ DOMAIN c = 1 .. Len(c)
  OBVIOUS
<1>2. \A op : op \in ToSet(s) \cup f \cup {c[k].op : k \in DOMAIN c}
                <=> \/ \E k \in 1 .. Len(s) : s[k] = op
                    \/ op \in f
                    \/ \E k \in 1 .. Len(c) : c[k].op = op
  BY <1>1 DEF ToSet
<1> QED
  BY <1>2 DEF Arms

\* See Arms.
LEMMA ArmedHere ==
  ASSUME ServerTypes
  PROVE  \A fd : Armed(fd) # {} <=> \/ \E k \in 1 .. Len(sq) : Arms(sq[k], fd)
                                    \/ \E op \in flight : Arms(op, fd)
                                    \/ \E k \in 1 .. Len(cq) : Arms(cq[k].op, fd)
<1>1. sq \in Seq(Operation) /\ cq \in Seq(Completion)
  BY DEF ServerTypes, RingTypeOK
<1> QED
  BY <1>1, ArmedPlaces DEF Armed, Pending

\* See Arms.
LEMMA ArmedNext ==
  ASSUME ServerTypes'
  PROVE  \A fd : Armed(fd)' # {} <=> \/ \E k \in 1 .. Len(sq') : Arms(sq'[k], fd)
                                     \/ \E op \in flight' : Arms(op, fd)
                                     \/ \E k \in 1 .. Len(cq') : Arms(cq'[k].op, fd)
<1>1. sq' \in Seq(Operation') /\ cq' \in Seq(Completion')
  BY DEF ServerTypes, RingTypeOK
<1> QED
  BY <1>1, ArmedPlaces DEF Armed, Pending

\* Exercise 11, a handler: a client whose operation it consumes has another one, or the
\* consumed one does not arm.
LEMMA HandledMulti ==
  ASSUME BufferInv, MultiInv, NEW kind, Peek(kind), NEW ops \in Seq(Operation), Prepare(ops), Seen,
         up', BufferInv',
         \A fd \in clients' : \/ \E k \in 1 .. Len(ops) : Arms(ops[k], fd)
                              \/ fd \in clients /\ ~Arms(Op, fd)
                              \/ fd \in clients /\ Op.op = "recv" /\ Head(cq).more
  PROVE  MultiInv'
<1>1. /\ up /\ cq # << >> /\ Len(cq) \in Nat \ {0} /\ Op = Head(cq).op /\ Head(cq) = cq[1]
      /\ ServerTypes /\ EntryTypes /\ sq \in Seq(Operation) /\ cq \in Seq(Completion)
  BY PeekHere DEF BufferInv, ServerTypes, RingTypeOK
<1>2. cq' = Tail(cq) /\ flight' = flight /\ sq' = sq \o ops /\ Len(cq') = Len(cq) - 1
  BY <1>1, PrepareRing DEF Seen, ServerTypes
<1>3. \A k \in 1 .. Len(cq') : k + 1 \in 1 .. Len(cq) /\ cq'[k] = cq[k + 1] /\ k + 1 # 1
  BY <1>1, <1>2, TailEntries
<1>4. \A k \in 1 .. Len(cq) : k # 1 => k - 1 \in 1 .. Len(cq') /\ cq'[k - 1] = cq[k]
  BY <1>1, <1>2, <1>3
<1>5. /\ \A k \in 1 .. Len(sq) : k \in 1 .. Len(sq') /\ sq'[k] = sq[k]
      /\ \A k \in 1 .. Len(ops) : k + Len(sq) \in 1 .. Len(sq') /\ sq'[k + Len(sq)] = ops[k]
  <2>1. \A s, t \in Seq(Operation) :
          /\ \A k \in 1 .. Len(s) : k \in 1 .. Len(s \o t) /\ (s \o t)[k] = s[k]
          /\ \A k \in 1 .. Len(t) : k + Len(s) \in 1 .. Len(s \o t) /\ (s \o t)[k + Len(s)] = t[k]
    OBVIOUS
  <2>2. sq' = sq \o ops
    BY <1>2
  <2> QED
    BY <1>1, <2>1, <2>2
<1>6. ASSUME NEW k \in 1 .. Len(cq'), cq'[k].op.op = "recv", cq'[k].more
      PROVE  cq'[k].op \in flight' \/ \E j \in 1 .. Len(cq') : j > k /\ cq'[j].op = cq'[k].op
  <2>1. k + 1 \in 1 .. Len(cq) /\ cq'[k] = cq[k + 1] /\ k \in Int
    BY <1>3
  <2>2. CASE cq[k + 1].op \in flight
    BY <1>2, <2>1, <2>2
  <2>3. ASSUME NEW j \in 1 .. Len(cq), j > k + 1, cq[j].op = cq[k + 1].op
        PROVE  \E i \in 1 .. Len(cq') : i > k /\ cq'[i].op = cq'[k].op
    <3>1. j # 1 /\ j - 1 > k
      BY <2>1, <2>3
    <3>2. j - 1 \in 1 .. Len(cq') /\ cq'[j - 1] = cq[j]
      BY <1>4, <3>1
    <3> QED
      BY <2>1, <2>3, <3>1, <3>2
  <2>4. cq[k + 1].op \in flight \/ \E j \in 1 .. Len(cq) : j > k + 1 /\ cq[j].op = cq[k + 1].op
    BY <1>6, <2>1 DEF MultiInv
  <2> QED
    BY <2>2, <2>3, <2>4
<1>7. ASSUME NEW fd \in clients' PROVE Armed(fd)' # {}
  <2>1. Armed(fd)' # {} <=> \/ \E k \in 1 .. Len(sq') : Arms(sq'[k], fd)
                            \/ \E op \in flight' : Arms(op, fd)
                            \/ \E k \in 1 .. Len(cq') : Arms(cq'[k].op, fd)
    <3>1. ServerTypes'
      BY DEF BufferInv
    <3> QED
      BY <3>1, ArmedNext
  <2>2. CASE \E k \in 1 .. Len(ops) : Arms(ops[k], fd)
    BY <1>5, <2>1, <2>2
  <2>3. CASE fd \in clients /\ (~Arms(Op, fd) \/ (Op.op = "recv" /\ Head(cq).more))
    <3>1. \/ \E k \in 1 .. Len(sq) : Arms(sq[k], fd)
          \/ \E op \in flight : Arms(op, fd)
          \/ \E k \in 1 .. Len(cq) : Arms(cq[k].op, fd)
      BY <1>1, <2>3, ArmedHere DEF MultiInv
    <3>2. ASSUME NEW k \in 1 .. Len(cq), Arms(cq[k].op, fd)
          PROVE  \/ \E op \in flight : Arms(op, fd)
                 \/ \E j \in 1 .. Len(cq) : j # 1 /\ Arms(cq[j].op, fd)
      <4>1. CASE k # 1
        BY <3>2, <4>1
      <4>2. CASE k = 1 /\ Op.op = "recv" /\ Head(cq).more
        <5>1. 1 \in 1 .. Len(cq) /\ cq[1].op.op = "recv" /\ cq[1].more
          BY <1>1, <4>2
        <5>2. cq[1].op \in flight \/ \E j \in 1 .. Len(cq) : j > 1 /\ cq[j].op = cq[1].op
          BY <5>1 DEF MultiInv
        <5> QED
          BY <3>2, <4>2, <5>2
      <4> QED
        BY <1>1, <2>3, <3>2, <4>1, <4>2
    <3>3. \/ \E k \in 1 .. Len(sq) : Arms(sq[k], fd)
          \/ \E op \in flight : Arms(op, fd)
          \/ \E k \in 1 .. Len(cq) : k # 1 /\ Arms(cq[k].op, fd)
      BY <3>1, <3>2
    <3> QED
      BY <1>2, <1>4, <1>5, <2>1, <3>3
  <2> QED
    BY <2>2, <2>3
<1> QED
  BY <1>6, <1>7 DEF MultiInv

\* Every handler.  When the queue overflows the process ends, and nothing is claimed.
LEMMA HandlersKeepClients ==
  ASSUME BufferInv, BufferInv', ClientInv,
         HandleAccept \/ HandleAcceptFailed \/ HandleNoBufs \/ HandleRecvEnd \/ HandleRecv
         \/ HandleSendFailed \/ HandleSendShort \/ HandleSendDone
  PROVE  ClientInv'
<1> SUFFICES ASSUME up' PROVE ClientInv'
  BY DEF ClientInv
<1>0. ServerTypes /\ EntryTypes /\ multishot \in BOOLEAN /\ clients \subseteq Fds
      /\ sq \in Seq(Operation)
  BY DEF BufferInv, ServerTypes, RingTypeOK
<1>1. ASSUME NEW kind, Peek(kind)
      PROVE  /\ up /\ Op = Head(cq).op /\ Op.op = kind /\ Op \in Operation /\ Res \in Int
             /\ Head(cq) = cq[1] /\ 1 \in 1 .. Len(cq) /\ Head(cq).bid \in Bids /\ Head(cq).more \in BOOLEAN
             /\ kind = "accept" /\ Res # FAILED => Res \in Fds
             /\ kind # "accept" => Op.fd \in Fds /\ Op \in OpsOf(Op.fd)
             /\ ClientInv => IF multishot THEN MultiInv ELSE SingleInv
  BY <1>0, <1>1, PeekHere, ClientOps DEF ClientInv
<1>2. ASSUME NEW kind, Peek(kind), NEW ops \in Seq(Operation), Prepare(ops), Seen,
             UNCHANGED <<multishot, accepted, gone>>,
             ~multishot => \A k \in 1 .. Len(ops) : Rearms(ops[k]),
             \/ /\ kind = "accept" /\ Res # FAILED /\ clients' = clients \cup {Res} /\ table' = table
                /\ \E op \in OpsOf(Res) : Arms(op, Res) /\ (ops = <<op>> \/ ops = <<op, Acceptor>>)
             \/ /\ kind = "accept" /\ clients' = clients /\ table' = table
                /\ \A fd : OpsAt(ops, OpsOf(fd)) = {} /\ Res = FAILED
             \/ /\ kind # "accept" /\ clients' = clients /\ table' = table
                /\ \E op \in OpsOf(Op.fd) :
                     ops = <<op>> /\ (Arms(op, Op.fd) \/ ~Arms(Op, Op.fd) \/ (Op.op = "recv" /\ Head(cq).more))
             \/ kind # "accept" /\ Ends(Head(cq)) /\ Close(Op.fd) /\ ops = << >>
             \/ /\ multishot /\ clients' = clients /\ table' = table
                /\ \A fd \in clients : ~Arms(Op, fd)
      PROVE  ClientInv'
  <2>1. CASE ~multishot
    <3>1. SingleInv
      BY <1>1, <1>2, <2>1
    <3>2. SingleInv'
      BY <1>2, <2>1, <3>1, HandledSingle
    <3> QED
      BY <1>2, <2>1, <3>2 DEF ClientInv
  <2>2. CASE multishot
    <3>1. MultiInv
      BY <1>1, <1>2, <2>2
    <3>2. \A fd : Arms(Op, fd) => kind # "accept" /\ Op.fd = fd
      BY <1>1, <1>2 DEF Arms
    <3>3. \A fd \in clients' : \/ \E k \in 1 .. Len(ops) : Arms(ops[k], fd)
                               \/ fd \in clients /\ ~Arms(Op, fd)
                               \/ fd \in clients /\ Op.op = "recv" /\ Head(cq).more
      <4>1. ASSUME NEW op \in OpsOf(Res), ops = <<op>> \/ ops = <<op, Acceptor>>, Arms(op, Res),
                   kind = "accept", clients' = clients \cup {Res}
            PROVE  \A fd \in clients' : \/ \E k \in 1 .. Len(ops) : Arms(ops[k], fd)
                                        \/ fd \in clients /\ ~Arms(Op, fd)
        <5>1. 1 \in 1 .. Len(ops) /\ ops[1] = op
          BY <4>1
        <5> QED
          BY <3>2, <4>1, <5>1
      <4>2. ASSUME NEW op \in OpsOf(Op.fd), ops = <<op>>, clients' = clients, kind # "accept",
                   Arms(op, Op.fd) \/ ~Arms(Op, Op.fd) \/ (Op.op = "recv" /\ Head(cq).more)
            PROVE  \A fd \in clients' : \/ \E k \in 1 .. Len(ops) : Arms(ops[k], fd)
                                        \/ fd \in clients /\ ~Arms(Op, fd)
                                        \/ fd \in clients /\ Op.op = "recv" /\ Head(cq).more
        <5>1. 1 \in 1 .. Len(ops) /\ ops[1] = op
          BY <4>2
        <5> QED
          BY <3>2, <4>2, <5>1
      <4>3. CASE kind # "accept" /\ Close(Op.fd)
        BY <3>2, <4>3 DEF Close
      <4>4. CASE clients' = clients /\ (kind = "accept" \/ \A fd \in clients : ~Arms(Op, fd))
        BY <3>2, <4>4
      <4> QED
        BY <1>2, <4>1, <4>2, <4>3, <4>4
    <3>4. MultiInv'
      BY <1>2, <3>1, <3>3, HandledMulti
    <3> QED
      BY <1>2, <2>2, <3>4 DEF ClientInv
  <2> QED
    BY <2>1, <2>2
<1>3. << >> \in Seq(Operation) /\ (sq' = sq /\ up' = up => Prepare(<< >>)) /\ Len(<< >>) = 0
  <2>1. Len(<< >>) = 0 /\ sq \o << >> = sq /\ Len(sq) + 0 = Len(sq) /\ << >> \in Seq(Operation)
    BY <1>0
  <2>2. Len(sq) <= SqDepth
    BY <1>0 DEF ServerTypes
  <2> QED
    BY <2>1, <2>2 DEF Prepare
<1>4. ASSUME NEW fd \in Fds
      PROVE  \E op \in OpsOf(fd) : /\ Recv(fd) = op /\ op \in Operation /\ op.op = "recv" /\ Arms(op, fd)
                                   /\ Rearms(op)
  <2>1. PICK op : op = Recv(fd)
    OBVIOUS
  <2>2. op \in [op : {"recv"}, fd : {fd}, conn : {0}, ev : Nat] /\ op \in Operation
    BY <1>0, <2>1, FreshRecv
  <2>3. op.op = "recv" /\ op.fd = fd
    BY <2>2
  <2> QED
    BY <2>1, <2>2, <2>3 DEF OpsOf, Arms, Rearms
<1>5. ASSUME NEW op \in Operation, Rearms(op)
      PROVE  /\ <<op>> \in Seq(Operation) /\ <<op, Acceptor>> \in Seq(Operation)
             /\ \A k \in 1 .. Len(<<op>>) : Rearms(<<op>>[k])
             /\ \A k \in 1 .. Len(<<op, Acceptor>>) : Rearms(<<op, Acceptor>>[k])
  <2>1. Acceptor \in Operation /\ Rearms(Acceptor)
    BY OperationKinds DEF Rearms
  <2>2. <<op>> \in Seq(Operation) /\ Len(<<op>>) = 1 /\ <<op>>[1] = op
    BY <1>5
  <2>3. /\ <<op, Acceptor>> \in Seq(Operation) /\ Len(<<op, Acceptor>>) = 2
        /\ <<op, Acceptor>>[1] = op /\ <<op, Acceptor>>[2] = Acceptor
    BY <1>5, <2>1
  <2> QED
    BY <1>5, <2>1, <2>2, <2>3
<1>6. \A op, fd : op \in OpsOf(fd) => op \in Operation /\ op.fd = fd /\ op.op \in {"recv", "send"}
  BY ClientOps
<1>7. CASE HandleAccept
  <2>1. Peek("accept") /\ Res \in Fds /\ Res # FAILED /\ Prepare(<<Recv(Res)>> \o Rearm) /\ Seen
        /\ clients' = clients \cup {Res} /\ UNCHANGED <<multishot, buffers, network>>
    BY <1>1, <1>7 DEF HandleAccept
  <2>2. PICK op \in OpsOf(Res) : Recv(Res) = op /\ op \in Operation /\ Arms(op, Res) /\ Rearms(op)
    BY <1>4, <2>1
  <2>3. PICK ops : ops = <<op>> \o Rearm
    OBVIOUS
  <2>4. ops = <<op>> \/ ops = <<op, Acceptor>>
    <3>1. <<op>> \o << >> = <<op>>
      <4>1. <<op>> \in Seq(Operation) /\ \A q \in Seq(Operation) : q \o << >> = q
        BY <2>2
      <4> QED
        BY <4>1
    <3>2. <<op>> \o <<Acceptor>> = <<op, Acceptor>>
      BY <2>2, ConcatOfTwo, OperationKinds
    <3> QED
      BY <2>3, <3>1, <3>2 DEF Rearm
  <2>5. ops \in Seq(Operation) /\ \A k \in 1 .. Len(ops) : Rearms(ops[k])
    BY <1>5, <2>2, <2>4
  <2>6. Prepare(ops)
    BY <2>1, <2>2, <2>3
  <2> QED
    BY <1>2, <2>1, <2>2, <2>4, <2>5, <2>6 DEF network
<1>8. CASE HandleAcceptFailed
  <2>1. Peek("accept") /\ Rearm \in {<< >>, <<Acceptor>>} /\ Prepare(Rearm) /\ Seen /\ Res = FAILED
        /\ UNCHANGED <<multishot, clients, buffers, network>>
    BY <1>8 DEF HandleAcceptFailed, Rearm
  <2>2. PICK ops : ops = Rearm
    OBVIOUS
  <2>3. \A fd : OpsAt(<< >>, OpsOf(fd)) = {} /\ OpsAt(<<Acceptor>>, OpsOf(fd)) = {}
    BY PlacesOfNone, PlaceOfOne, ClientOps
  <2>4. <<Acceptor>> \in Seq(Operation) /\ \A k \in 1 .. Len(<<Acceptor>>) : Rearms(<<Acceptor>>[k])
    BY <1>5, OperationKinds DEF Rearms
  <2>5. ops \in Seq(Operation) /\ (\A k \in 1 .. Len(ops) : Rearms(ops[k]))
        /\ \A fd : OpsAt(ops, OpsOf(fd)) = {}
    <3>1. CASE ops = << >>
      BY <1>3, <2>3, <3>1
    <3>2. CASE ops = <<Acceptor>>
      BY <2>3, <2>4, <3>2
    <3> QED
      BY <2>1, <2>2, <3>1, <3>2
  <2>6. Prepare(ops)
    BY <2>1, <2>2
  <2> QED
    BY <1>2, <2>1, <2>5, <2>6 DEF network
<1>9. ASSUME NEW kind, Peek(kind), kind # "accept", NEW op \in OpsOf(Op.fd), Prepare(<<op>>), Seen,
             UNCHANGED <<multishot, clients, network>>, ~multishot => Rearms(op),
             Arms(op, Op.fd) \/ ~Arms(Op, Op.fd) \/ (Op.op = "recv" /\ Head(cq).more)
      PROVE  ClientInv'
  <2>1. op \in Operation
    BY <1>6, <1>9
  <2>2. <<op>> \in Seq(Operation) /\ (~multishot => \A k \in 1 .. Len(<<op>>) : Rearms(<<op>>[k]))
    BY <1>5, <1>9, <2>1
  <2>3. PICK ops : ops = <<op>>
    OBVIOUS
  <2>4. ops \in Seq(Operation) /\ (~multishot => \A k \in 1 .. Len(ops) : Rearms(ops[k]))
        /\ Prepare(ops)
    BY <1>9, <2>2, <2>3
  <2> QED
    BY <1>2, <1>9, <2>3, <2>4 DEF network
<1>10. CASE HandleNoBufs
  <2>1. Peek("recv") /\ Prepare(<<Recv(Op.fd)>>) /\ Seen
        /\ UNCHANGED <<multishot, clients, buffers, network>>
    BY <1>10 DEF HandleNoBufs
  <2>2. PICK op \in OpsOf(Op.fd) : Recv(Op.fd) = op /\ Arms(op, Op.fd) /\ Rearms(op)
    BY <1>1, <1>4, <2>1
  <2> QED
    BY <1>9, <2>1, <2>2
<1>11. CASE HandleRecvEnd \/ HandleSendFailed
  <2>1. PICK kind : /\ Peek(kind) /\ kind # "accept" /\ Ends(Head(cq)) /\ Close(Op.fd)
                    /\ Seen /\ sq' = sq /\ up' = up /\ UNCHANGED <<multishot, accepted, gone>>
    <3>1. CASE HandleRecvEnd
      <4>1. Peek("recv") /\ Res <= 0 /\ Res # ENOBUFS
        BY <3>1 DEF HandleRecvEnd
      <4>2. Ends(Head(cq))
        BY <1>1, <4>1 DEF Ends, Res
      <4> QED
        BY <3>1, <4>1, <4>2 DEF HandleRecvEnd
    <3>2. CASE HandleSendFailed
      <4>1. Peek("send") /\ Res <= 0
        BY <3>2 DEF HandleSendFailed
      <4>2. Ends(Head(cq))
        BY <1>1, <4>1 DEF Ends, Res
      <4> QED
        BY <3>2, <4>1, <4>2 DEF HandleSendFailed
    <3> QED
      BY <1>11, <3>1, <3>2
  <2>2. PICK ops : ops = << >>
    OBVIOUS
  <2>3. ops \in Seq(Operation) /\ Len(ops) = 0
    BY <1>3, <2>2
  <2>4. Prepare(ops)
    BY <1>3, <2>1, <2>2
  <2>5. \A k \in 1 .. Len(ops) : Rearms(ops[k])
    BY <2>3
  <2> QED
    BY <1>2, <2>1, <2>2, <2>3, <2>4, <2>5
<1>12. CASE HandleRecv
  <2>1. Peek("recv") /\ Prepare(<<SendEvent(Op.fd, Head(cq).bid, ~Head(cq).more)>>) /\ Seen
        /\ UNCHANGED <<multishot, clients, buffers, network>>
    BY <1>12 DEF HandleRecv
  <2>2. /\ Op.fd \in Fds /\ Head(cq).bid \in Bids /\ (~Head(cq).more) \in BOOLEAN /\ Op.op = "recv"
        /\ ~multishot => ~Head(cq).more
    <3>1. ~multishot => EntryOK(cq[1])
      BY <1>1, <2>1 DEF SingleInv, ClientInv
    <3> QED
      BY <1>1, <2>1, <3>1 DEF EntryOK
  <2>3. PICK op : op = SendEvent(Op.fd, Head(cq).bid, ~Head(cq).more)
    OBVIOUS
  <2>4. op \in Operation /\ op.op = "send" /\ op.fd = Op.fd /\ op.rearm = ~Head(cq).more
    BY <2>2, <2>3, OperationKinds DEF SendEvent
  <2>5. op \in OpsOf(Op.fd) /\ (~multishot => Rearms(op)) /\ (Arms(op, Op.fd) \/ Head(cq).more)
    BY <2>2, <2>4 DEF OpsOf, Arms, Rearms
  <2> QED
    BY <1>9, <2>1, <2>2, <2>3, <2>5
<1>13. CASE HandleSendShort
  <2> DEFINE send == [Op EXCEPT !.offset = @ + Res, !.conn = 0]
  <2>1. Peek("send") /\ Res > 0 /\ Prepare(<<send>>) /\ Seen
        /\ UNCHANGED <<multishot, clients, buffers, network>>
    BY <1>13 DEF HandleSendShort
  <2>2. Op \in Operation /\ Op.op = "send" /\ Res \in Nat /\ Op.fd \in Fds
    BY <1>1, <2>1
  <2>3. send \in Operation /\ send.op = "send" /\ send.fd = Op.fd /\ send.rearm = Op.rearm
    BY <2>2, RestOfSend
  <2> HIDE DEF send
  <2>4. ~multishot => Rearms(Op)
    <3>1. ~multishot => EntryOK(cq[1])
      BY <1>1, <2>1 DEF SingleInv, ClientInv
    <3> QED
      BY <1>1, <2>1, <3>1 DEF EntryOK
  <2>5. send \in OpsOf(Op.fd) /\ (~multishot => Rearms(send)) /\ (Arms(send, Op.fd) \/ ~Arms(Op, Op.fd))
    BY <2>2, <2>3, <2>4 DEF OpsOf, Arms, Rearms
  <2> QED
    BY <1>9, <2>1, <2>5
<1>14. CASE HandleSendDone
  <2>1. /\ Peek("send") /\ Seen /\ UNCHANGED <<multishot, clients, network>>
        /\ Prepare(IF Op.rearm /\ Op.fd \in clients THEN <<Recv(Op.fd)>> ELSE << >>)
    BY <1>14 DEF HandleSendDone
  <2>2. Op.op = "send" /\ Op.fd \in Fds
    BY <1>1, <2>1
  <2>3. CASE Op.rearm /\ Op.fd \in clients
    <3>1. PICK op \in OpsOf(Op.fd) : Recv(Op.fd) = op /\ Arms(op, Op.fd) /\ Rearms(op)
      BY <1>4, <2>2
    <3> QED
      BY <1>9, <2>1, <2>3, <3>1
  <2>4. CASE ~(Op.rearm /\ Op.fd \in clients)
    <3>1. multishot
      <4>1. ~multishot => EntryOK(cq[1]) /\ Op.fd \in clients
        BY <1>0, <1>1, <2>1, SoleHere DEF SingleInv, ClientInv
      <4> QED
        BY <1>1, <2>1, <2>2, <2>4, <4>1 DEF EntryOK, Rearms
    <3>2. \A fd \in clients : ~Arms(Op, fd)
      BY <2>2, <2>4 DEF Arms
    <3>3. Prepare(<< >>)
      BY <2>1, <2>4
    <3> QED
      BY <1>2, <1>3, <2>1, <3>1, <3>2, <3>3 DEF network
  <2> QED
    BY <2>3, <2>4
<1> QED
  BY <1>7, <1>8, <1>10, <1>11, <1>12, <1>13, <1>14

\* Exercise 10: an operation that has been prepared is a client's, so its descriptor is open.
LEMMA SubmitSingle ==
  ASSUME BufferInv, SingleInv, SubmitNext
  PROVE  SingleInv' /\ ~BadFd(Head(sq))
<1> DEFINE op == Head(sq)
           o == Resolved(op)
<1>1. /\ up /\ sq # << >> /\ sq' = Tail(sq)
      /\ ~BadFd(op) => flight' = flight \cup {o} /\ cq' = cq
      /\ UNCHANGED <<multishot, clients, table, accepted, gone>>
  BY DEF SubmitNext, network
<1>2. /\ ServerTypes /\ RingTypeOK(Operation, Completion) /\ sq \in Seq(Operation) /\ op \in Operation
      /\ op = sq[1] /\ Len(sq) \in Nat \ {0} /\ flight \subseteq Operation /\ clients \subseteq Fds
  <2>1. ServerTypes /\ RingTypeOK(Operation, Completion) /\ sq \in Seq(Operation)
        /\ flight \subseteq Operation /\ clients \subseteq Fds
    BY DEF BufferInv, ServerTypes, RingTypeOK
  <2> QED
    BY <1>1, <2>1
<1>3. ~BadFd(op)
  <2>1. CASE op.op # "accept"
    <3>1. op.fd \in Fds /\ op \in OpsOf(op.fd)
      BY <1>2, <2>1, ClientOps
    <3>2. 1 \in OpsAt(sq, OpsOf(op.fd))
      BY <1>2, <3>1 DEF OpsAt
    <3>3. op.fd \in clients
      BY <3>1, <3>2 DEF SingleInv, SoleOp, Absent
    <3> QED
      BY <3>3 DEF SingleInv, BadFd
  <2> QED
    BY <2>1 DEF BadFd
<1>4. /\ o \in Operation /\ o.op = op.op /\ (op.op = "accept" => o = op)
      /\ op.op # "accept" => o.fd = op.fd /\ o.conn = table[op.fd]
      /\ op.op = "send" => o.rearm = op.rearm
  BY <1>2, <1>3, TakenOp
<1>5. flight' = flight \cup {o} /\ cq' = cq
  BY <1>1, <1>3
<1> HIDE DEF o, op
<1>6. ASSUME NEW fd \in Fds PROVE SoleOp(fd)'
  <2>1. PICK M : M = OpsOf(fd) /\ OpsOf(fd)' = M
    BY <1>1, SameOps
  <2>2. Once(M) /\ (Absent(M) <=> fd \notin clients)
    BY <2>1 DEF SingleInv, SoleOp
  <2>3. o \in M <=> op \in M
    BY <1>2, <1>4, <2>1 DEF OpsOf
  <2>4. Once(M)' /\ (Absent(M)' <=> Absent(M))
    BY <1>1, <1>2, <1>5, <2>2, <2>3, TakeAsOnce DEF op
  <2> QED
    BY <1>1, <2>1, <2>2, <2>4 DEF SoleOp
<1>7. \A x : (OnConn(x)' <=> OnConn(x)) /\ (Rearms(x)' <=> Rearms(x)) /\ (EntryOK(x)' <=> EntryOK(x))
  BY <1>1 DEF OnConn, Rearms, EntryOK
<1>8. OnConn(o) /\ Rearms(o)
  <2>1. Rearms(op)
    BY <1>2 DEF SingleInv
  <2> QED
    BY <1>4, <2>1 DEF OnConn, Rearms
<1>9. \A k \in 1 .. Len(sq') : Rearms(sq[k])'
  <2>1. \A k \in 1 .. Len(sq') : k + 1 \in 1 .. Len(sq) /\ sq'[k] = sq[k + 1]
    BY <1>1, <1>2
  <2> QED
    BY <2>1 DEF SingleInv, Rearms
<1>10. \A x \in flight' : OnConn(x)' /\ Rearms(x)'
  BY <1>5, <1>7, <1>8 DEF SingleInv
<1>11. \A k \in 1 .. Len(cq') : EntryOK(cq[k])'
  <2> TAKE k \in 1 .. Len(cq')
  <2>1. PICK c : c = cq[k] /\ c = cq'[k] /\ EntryOK(c)
    BY <1>5 DEF SingleInv
  <2> QED
    BY <1>7, <2>1
<1> QED
  BY <1>1, <1>3, <1>5, <1>6, <1>9, <1>10, <1>11 DEF SingleInv, op

\* Exercise 11: the client whose operation is taken, or refused, is not forgotten.
LEMMA SubmitMulti ==
  ASSUME BufferInv, BufferInv', MultiInv, SubmitNext
  PROVE  MultiInv'
<1> DEFINE op == Head(sq)
           o == Resolved(op)
           c == Cqe(op, FAILED, 0, FALSE)
<1>1. /\ up /\ sq # << >> /\ sq' = Tail(sq)
      /\ BadFd(op) => cq' = Append(cq, c) /\ flight' = flight
      /\ ~BadFd(op) => flight' = flight \cup {o} /\ cq' = cq
      /\ UNCHANGED <<multishot, clients>>
  BY DEF SubmitNext
<1>2. /\ ServerTypes /\ sq \in Seq(Operation) /\ cq \in Seq(Completion) /\ op \in Operation
      /\ op = sq[1] /\ Len(sq) \in Nat \ {0} /\ Len(cq) \in Nat
  <2>1. ServerTypes /\ sq \in Seq(Operation) /\ cq \in Seq(Completion)
    BY DEF BufferInv, ServerTypes, RingTypeOK
  <2> QED
    BY <1>1, <2>1
<1>3. c.op = op /\ c.more = FALSE
  BY DEF Cqe
<1>4. ~BadFd(op) => \A fd : Arms(op, fd) => Arms(o, fd)
  BY <1>2, TakenOp DEF Arms
<1> HIDE DEF op, o, c
<1>5. /\ \A k \in 1 .. Len(cq) : k \in 1 .. Len(cq') /\ cq'[k] = cq[k]
      /\ BadFd(op) => Len(cq) + 1 \in 1 .. Len(cq') /\ cq'[Len(cq) + 1] = c
      /\ \A k \in 1 .. Len(cq') : (k \in 1 .. Len(cq) /\ cq'[k] = cq[k]) \/ (BadFd(op) /\ cq'[k] = c)
      /\ flight \subseteq flight'
  <2>1. \A q \in Seq(Completion) : /\ \A k \in 1 .. Len(q) : k \in 1 .. Len(Append(q, c)) /\ Append(q, c)[k] = q[k]
                                   /\ Len(q) + 1 \in 1 .. Len(Append(q, c)) /\ Append(q, c)[Len(q) + 1] = c
                                   /\ \A k \in 1 .. Len(Append(q, c)) : k \in 1 .. Len(q) \/ k = Len(q) + 1
    OBVIOUS
  <2>2. CASE BadFd(op)
    BY <1>1, <1>2, <2>1, <2>2
  <2>3. CASE ~BadFd(op)
    BY <1>1, <1>2, <2>3
  <2> QED
    BY <2>2, <2>3
<1>6. ASSUME NEW fd \in clients PROVE Armed(fd)' # {}
  <2>1. Armed(fd)' # {} <=> \/ \E k \in 1 .. Len(sq') : Arms(sq'[k], fd)
                            \/ \E x \in flight' : Arms(x, fd)
                            \/ \E k \in 1 .. Len(cq') : Arms(cq'[k].op, fd)
    BY ArmedNext DEF BufferInv
  <2>2. \/ \E k \in 1 .. Len(sq) : Arms(sq[k], fd)
        \/ \E x \in flight : Arms(x, fd)
        \/ \E k \in 1 .. Len(cq) : Arms(cq[k].op, fd)
    BY <1>2, <1>6, ArmedHere DEF MultiInv
  <2>3. ASSUME NEW k \in 1 .. Len(sq), Arms(sq[k], fd) PROVE Armed(fd)' # {}
    <3>1. CASE k # 1
      <4>1. k - 1 \in 1 .. Len(sq') /\ sq'[k - 1] = sq[k]
        BY <1>1, <1>2, <3>1
      <4> QED
        BY <2>1, <2>3, <4>1
    <3>2. CASE k = 1 /\ BadFd(op)
      BY <1>2, <1>3, <1>5, <2>1, <2>3, <3>2
    <3>3. CASE k = 1 /\ ~BadFd(op)
      BY <1>1, <1>2, <1>4, <2>1, <2>3, <3>3
    <3> QED
      BY <3>1, <3>2, <3>3
  <2> QED
    BY <1>5, <2>1, <2>2, <2>3
<1>7. ASSUME NEW k \in 1 .. Len(cq'), cq'[k].op.op = "recv", cq'[k].more
      PROVE  cq'[k].op \in flight' \/ \E j \in 1 .. Len(cq') : j > k /\ cq'[j].op = cq'[k].op
  <2>1. k \in 1 .. Len(cq) /\ cq'[k] = cq[k]
    BY <1>3, <1>5, <1>7
  <2>2. cq[k].op \in flight \/ \E j \in 1 .. Len(cq) : j > k /\ cq[j].op = cq[k].op
    BY <1>7, <2>1 DEF MultiInv
  <2> QED
    BY <1>5, <2>1, <2>2
<1> QED
  BY <1>1, <1>6, <1>7 DEF MultiInv

\* Exercise 10, the kernel: a completion is its client's, and one that is to end a connection
\* comes when the client has gone.
LEMMA CompletedSingle ==
  ASSUME BufferInv, SingleInv, ~multishot, NEW op, NEW res \in Int, NEW bid \in Bids,
         NEW more \in BOOLEAN, Completes(op, res, bid, more),
         gone \subseteq gone', Ends(Cqe(op, res, bid, more)) => op.conn \in gone',
         \/ table' = table /\ accepted' = accepted /\ (op.op = "accept" => res = FAILED)
         \/ /\ op = Acceptor /\ res \in Fds /\ table[res] = 0
            /\ \E c \in Conns : table' = [table EXCEPT ![res] = c] /\ accepted' = accepted \cup {c}
  PROVE  SingleInv'
<1> DEFINE e == Cqe(op, res, bid, more)
<1>1. /\ up /\ op \in flight /\ sq' = sq /\ cq' = Append(cq, e) /\ flight' = flight \ {op}
      /\ UNCHANGED <<clients, multishot>> /\ ~more
  BY DEF Completes
<1>2. /\ ServerTypes /\ EntryTypes /\ RingTypeOK(Operation, Completion) /\ flight \subseteq Operation
      /\ cq \in Seq(Completion) /\ table \in [Fds -> Conns \cup {0}] /\ clients \subseteq Fds
      /\ sq \in Seq(Operation) /\ Len(cq) \in Nat /\ op \in Operation
  <2>1. /\ ServerTypes /\ EntryTypes /\ RingTypeOK(Operation, Completion) /\ flight \subseteq Operation
        /\ cq \in Seq(Completion) /\ table \in [Fds -> Conns \cup {0}] /\ clients \subseteq Fds
        /\ sq \in Seq(Operation)
    BY DEF BufferInv, ServerTypes, RingTypeOK
  <2> QED
    BY <1>1, <2>1
<1>3. e \in Completion /\ e.op = op /\ e.res = res /\ e.more = more
  BY <1>2 DEF Completion, Cqe
<1> HIDE DEF e
<1>4. ASSUME NEW fd \in Fds PROVE SoleOp(fd)'
  <2>1. PICK M : M = OpsOf(fd) /\ OpsOf(fd)' = M
    BY <1>1, SameOps
  <2>2. Once(M) /\ (Absent(M) <=> fd \notin clients)
    BY <2>1 DEF SingleInv, SoleOp
  <2>3. Once(M)' /\ (Absent(M)' <=> Absent(M))
    BY <1>1, <1>2, <1>3, <2>2, CompleteOnce
  <2> QED
    BY <1>1, <2>1, <2>2, <2>3 DEF SoleOp
<1>5. /\ \A fd \in Fds : table[fd] # 0 => table'[fd] = table[fd]
      /\ \A x \in Operation : ~Absent(OpsOf(x.fd)) /\ OnConn(x) => OnConn(x)'
  <2>1. \A fd \in Fds : table[fd] # 0 => table'[fd] = table[fd]
    BY <1>2
  <2>2. ASSUME NEW x \in Operation, x.op # "accept", ~Absent(OpsOf(x.fd)) PROVE table'[x.fd] = table[x.fd]
    <3>1. x.fd \in Fds
      BY <2>2, ClientOps
    <3>2. x.fd \in clients
      BY <2>2, <3>1 DEF SingleInv, SoleOp
    <3> QED
      BY <2>1, <3>1, <3>2 DEF SingleInv
  <2> QED
    BY <2>1, <2>2 DEF OnConn
<1>6. \A x \in flight : OnConn(x)'
  <2> TAKE x \in flight
  <2>1. CASE x.op # "accept"
    <3>1. x \in OpsOf(x.fd) /\ OnConn(x)
      BY <1>2, <2>1, ClientOps DEF SingleInv
    <3>2. ~Absent(OpsOf(x.fd))
      BY <3>1 DEF Absent
    <3> QED
      BY <1>2, <1>5, <3>1, <3>2
  <2> QED
    BY <2>1 DEF OnConn
<1>7. \A x : Rearms(x)' <=> Rearms(x)
  BY DEF Rearms
<1>8. ASSUME NEW k \in 1 .. Len(cq) PROVE \E c : c = cq[k] /\ EntryOK(c) /\ OnConn(c.op)'
  <2>1. PICK c : c = cq[k] /\ EntryOK(c) /\ c \in Completion /\ c.op \in Operation
    <3>1. cq[k] \in Completion
      BY <1>2
    <3> QED
      BY <3>1 DEF SingleInv, Completion
  <2>2. OnConn(c.op)'
    <3>1. CASE c.op.op # "accept"
      <4>1. c.op \in OpsOf(c.op.fd) /\ OnConn(c.op)
        BY <2>1, <3>1, ClientOps DEF EntryOK
      <4>2. ~Absent(OpsOf(c.op.fd))
        <5>1. k \in DoneAt(cq, OpsOf(c.op.fd))
          BY <2>1, <4>1 DEF DoneAt
        <5> QED
          BY <5>1 DEF Absent
      <4> QED
        BY <1>5, <2>1, <4>1, <4>2
    <3> QED
      BY <3>1 DEF OnConn
  <2> QED
    BY <2>1, <2>2
<1>9. op.op = "accept" /\ res # FAILED =>
        res \in Fds /\ res \notin clients /\ table[res] = 0 /\ table'[res] # 0
  <2>1. op.op = "accept" /\ res # FAILED =>
          /\ res \in Fds /\ table[res] = 0
          /\ \E c \in Conns : table' = [table EXCEPT ![res] = c]
    OBVIOUS
  <2> QED
    BY <1>2, <2>1, ConnsAssumption DEF SingleInv
<1>10. \A k \in 1 .. Len(cq') : (k \in 1 .. Len(cq) /\ cq'[k] = cq[k]) \/ (k = Len(cq) + 1 /\ cq'[k] = e)
  <2>1. \A q \in Seq(Completion) : \A k \in 1 .. Len(Append(q, e)) :
          \/ k \in 1 .. Len(q) /\ Append(q, e)[k] = q[k]
          \/ k = Len(q) + 1 /\ Append(q, e)[k] = e
    BY <1>3
  <2> QED
    BY <1>1, <1>2, <2>1
<1>11. ASSUME NEW k \in 1 .. Len(cq') PROVE EntryOK(cq[k])'
  <2>1. CASE k \in 1 .. Len(cq) /\ cq'[k] = cq[k]
    <3>1. PICK c : c = cq[k] /\ c = cq'[k] /\ EntryOK(c) /\ OnConn(c.op)'
      BY <1>8, <2>1
    <3>2. c.op.op = "accept" /\ c.res # FAILED => c.res \notin clients' /\ table'[c.res] # 0
      <4>1. c.op.op = "accept" /\ c.res # FAILED => c.res \in Fds
        BY <1>2, <2>1, <3>1 DEF EntryTypes
      <4> QED
        BY <1>1, <1>5, <3>1, <4>1 DEF EntryOK
    <3> QED
      BY <3>1, <3>2 DEF EntryOK, Rearms, Ends
  <2>2. CASE cq'[k] = e
    <3>1. OnConn(op)' /\ Rearms(op)
      BY <1>1, <1>6 DEF SingleInv
    <3>2. Ends(e) => op.conn \in gone'
      BY DEF e
    <3>3. EntryOK(e)'
      BY <1>1, <1>3, <1>9, <3>1, <3>2 DEF EntryOK, Rearms, Ends
    <3> QED
      BY <2>2, <3>3
  <2> QED
    BY <1>10, <2>1, <2>2
<1>12. \A j, k \in 1 .. Len(cq') :
         cq'[j].op.op = "accept" /\ cq'[j].res # FAILED /\ cq'[k].op.op = "accept"
           /\ cq'[k].res = cq'[j].res => j = k
  <2> TAKE j, k \in 1 .. Len(cq')
  <2>1. ASSUME NEW i \in 1 .. Len(cq), cq[i].op.op = "accept", cq[i].res # FAILED, op.op = "accept"
        PROVE  cq[i].res # res
    <3>1. table[cq[i].res] # 0
      BY <1>8, <2>1 DEF EntryOK
    <3> QED
      BY <1>9, <2>1, <3>1
  <2> QED
    BY <1>3, <1>10, <2>1 DEF SingleInv
<1>13. accepted' \subseteq gone' \cup {table'[fd] : fd \in Fds}
  <2>1. \A a \in accepted : a \in gone \/ \E fd \in Fds : table[fd] = a
    BY DEF SingleInv
  <2>2. CASE table' = table /\ accepted' = accepted
    BY <2>1, <2>2
  <2>3. ASSUME NEW c \in Conns, res \in Fds, table[res] = 0, table' = [table EXCEPT ![res] = c],
               accepted' = accepted \cup {c}
        PROVE  accepted' \subseteq gone' \cup {table'[fd] : fd \in Fds}
    <3>1. table'[res] = c /\ \A fd \in Fds : fd # res => table'[fd] = table[fd]
      BY <1>2, <2>3
    <3>2. accepted \subseteq Conns
      BY <1>2 DEF ServerTypes
    <3>3. \A a \in accepted : a \in gone \/ \E fd \in Fds : table'[fd] = a
      BY <2>1, <2>3, <3>1, <3>2, ConnsAssumption
    <3> QED
      BY <2>3, <3>1, <3>3
  <2> QED
    BY <2>2, <2>3
<1>14. \A fd \in clients : table'[fd] # 0
  BY <1>2, <1>5 DEF SingleInv
<1>15. /\ \A x \in flight' : OnConn(x)' /\ Rearms(x)'
       /\ \A k \in 1 .. Len(sq') : Rearms(sq[k])'
  BY <1>1, <1>6, <1>7 DEF SingleInv
<1> QED
  BY <1>1, <1>4, <1>11, <1>12, <1>13, <1>14, <1>15 DEF SingleInv

\* Exercise 11, the kernel: what goes on is still in flight.
LEMMA CompletedMulti ==
  ASSUME BufferInv, BufferInv', MultiInv, NEW op, NEW res, NEW bid, NEW more,
         Completes(op, res, bid, more)
  PROVE  MultiInv'
<1> DEFINE e == Cqe(op, res, bid, more)
<1>1. /\ op \in flight /\ sq' = sq /\ cq' = Append(cq, e) /\ clients' = clients
      /\ flight' = IF more THEN flight ELSE flight \ {op}
  BY DEF Completes
<1>2. ServerTypes /\ cq \in Seq(Completion) /\ Len(cq) \in Nat /\ ServerTypes'
  <2>1. ServerTypes /\ cq \in Seq(Completion) /\ ServerTypes'
    BY DEF BufferInv, ServerTypes, RingTypeOK
  <2> QED
    BY <2>1
<1>3. e.op = op /\ e.more = more
  BY DEF Cqe
<1> HIDE DEF e
<1>4. /\ \A k \in 1 .. Len(cq) : k \in 1 .. Len(cq') /\ cq'[k] = cq[k] /\ Len(cq) + 1 > k
      /\ Len(cq) + 1 \in 1 .. Len(cq') /\ cq'[Len(cq) + 1] = e
      /\ \A k \in 1 .. Len(cq') : k \in 1 .. Len(cq) \/ k = Len(cq) + 1
  <2>1. \A q \in Seq(Completion) :
          /\ \A k \in 1 .. Len(q) : k \in 1 .. Len(Append(q, e)) /\ Append(q, e)[k] = q[k] /\ Len(q) + 1 > k
          /\ Len(q) + 1 \in 1 .. Len(Append(q, e)) /\ Append(q, e)[Len(q) + 1] = e
          /\ \A k \in 1 .. Len(Append(q, e)) : k \in 1 .. Len(q) \/ k = Len(q) + 1
    OBVIOUS
  <2> QED
    BY <1>1, <1>2, <2>1
<1>5. \A x \in flight : x \in flight' \/ (x = op /\ ~more)
  BY <1>1
<1>6. ASSUME NEW fd \in clients PROVE Armed(fd)' # {}
  <2>1. Armed(fd)' # {} <=> \/ \E k \in 1 .. Len(sq') : Arms(sq'[k], fd)
                            \/ \E x \in flight' : Arms(x, fd)
                            \/ \E k \in 1 .. Len(cq') : Arms(cq'[k].op, fd)
    BY <1>2, ArmedNext
  <2>2. \/ \E k \in 1 .. Len(sq) : Arms(sq[k], fd)
        \/ \E x \in flight : Arms(x, fd)
        \/ \E k \in 1 .. Len(cq) : Arms(cq[k].op, fd)
    BY <1>2, <1>6, ArmedHere DEF MultiInv
  <2>3. ASSUME NEW x \in flight, Arms(x, fd) PROVE Armed(fd)' # {}
    BY <1>3, <1>4, <1>5, <2>1, <2>3
  <2> QED
    BY <1>1, <1>4, <2>1, <2>2, <2>3
<1>7. ASSUME NEW k \in 1 .. Len(cq'), cq'[k].op.op = "recv", cq'[k].more
      PROVE  cq'[k].op \in flight' \/ \E j \in 1 .. Len(cq') : j > k /\ cq'[j].op = cq'[k].op
  <2>1. CASE k \in 1 .. Len(cq)
    <3>1. cq'[k] = cq[k] /\ (cq[k].op \in flight \/ \E j \in 1 .. Len(cq) : j > k /\ cq[j].op = cq[k].op)
      BY <1>4, <1>7, <2>1 DEF MultiInv
    <3> QED
      BY <1>3, <1>4, <1>5, <2>1, <3>1
  <2>2. CASE k = Len(cq) + 1
    BY <1>1, <1>3, <1>4, <1>7, <2>2
  <2> QED
    BY <1>4, <2>1, <2>2
<1> QED
  BY <1>1, <1>6, <1>7 DEF MultiInv

\* Every completion.
LEMMA KernelKeepsClients ==
  ASSUME BufferInv, BufferInv', ClientInv,
         \/ AcceptFails
         \/ \E c \in Conns, fd \in Fds, more \in BOOLEAN : Connect(c, fd, more)
         \/ \E c \in Conns : Received(c) \/ Sent(c)
         \/ \E op \in Of("recv") : OpFails(op, 0)
         \/ \E op \in Of("send") : OpFails(op, FAILED)
  PROVE  ClientInv'
<1>0. multishot \in BOOLEAN /\ pool \in Seq(Bids) /\ 0 \in Bids /\ FAILED = -1 /\ ENOBUFS = -105
  <2>1. multishot \in BOOLEAN /\ pool \in Seq(Bids)
    BY DEF BufferInv, ServerTypes
  <2> QED
    BY <2>1, BidsFacts DEF FAILED, ENOBUFS
<1>1. ASSUME NEW op, NEW res \in Int, NEW bid \in Bids, NEW more \in BOOLEAN,
             Completes(op, res, bid, more), gone \subseteq gone',
             op.op # "accept" /\ res <= 0 /\ (op.op = "recv" => res # ENOBUFS) => op.conn \in gone',
             \/ table' = table /\ accepted' = accepted /\ (op.op = "accept" => res = FAILED)
             \/ /\ op = Acceptor /\ res \in Fds /\ table[res] = 0
                /\ \E c \in Conns : table' = [table EXCEPT ![res] = c] /\ accepted' = accepted \cup {c}
      PROVE  ClientInv'
  <2>1. up /\ multishot' = multishot
    BY <1>1 DEF Completes
  <2>2. Ends(Cqe(op, res, bid, more)) => op.conn \in gone'
    BY <1>1 DEF Ends, Cqe
  <2>3. CASE multishot
    BY <1>1, <2>1, <2>3, CompletedMulti DEF ClientInv
  <2>4. CASE ~multishot
    <3>1. SingleInv
      BY <2>1, <2>4 DEF ClientInv
    <3>2. SingleInv'
      BY <1>1, <2>2, <2>4, <3>1, CompletedSingle
    <3> QED
      BY <2>1, <2>4, <3>2 DEF ClientInv
  <2> QED
    BY <2>3, <2>4
<1>2. CASE AcceptFails
  <2>1. Completes(Acceptor, FAILED, 0, FALSE) /\ UNCHANGED network
    BY <1>2 DEF AcceptFails
  <2>2. Acceptor.op = "accept" /\ FAILED \in Int
    BY <1>0, OperationKinds
  <2> QED
    BY <1>0, <1>1, <2>1, <2>2 DEF network
<1>3. ASSUME NEW c \in Conns, NEW fd \in Fds, NEW more \in BOOLEAN, Connect(c, fd, more)
      PROVE  ClientInv'
  <2>1. /\ Completes(Acceptor, fd, 0, more) /\ table[fd] = 0 /\ table' = [table EXCEPT ![fd] = c]
        /\ accepted' = accepted \cup {c} /\ gone' = gone
    BY <1>3 DEF Connect
  <2>2. Acceptor.op = "accept" /\ fd \in Int
    BY FdsAssumption, OperationKinds
  <2> QED
    BY <1>0, <1>1, <2>1, <2>2
<1>4. ASSUME NEW c \in Conns, Received(c) PROVE ClientInv'
  <2>1. PICK op \in Of("recv"), n \in 1 .. BUF_SIZE, more \in BOOLEAN :
          RecvCompletes(op, n, more) \/ RecvFindsNoBuffer(op)
    BY <1>4 DEF Received
  <2>2. op.op = "recv" /\ n \in Int /\ ~(n <= 0) /\ ENOBUFS \in Int
    BY <1>0, <2>1, BufAssumption DEF Of
  <2>3. CASE RecvCompletes(op, n, more)
    <3>1. PICK b \in Bids : b = Head(pool) /\ Completes(op, n, b, more)
      <4>1. pool # << >> /\ Completes(op, n, Head(pool), more)
        BY <2>3 DEF RecvCompletes
      <4>2. Head(pool) \in Bids
        BY <1>0, <4>1
      <4> QED
        BY <4>1, <4>2
    <3>2. UNCHANGED <<table, accepted, gone>>
      BY <2>3 DEF RecvCompletes
    <3> QED
      BY <1>1, <2>2, <3>1, <3>2
  <2>4. CASE RecvFindsNoBuffer(op)
    <3>1. Completes(op, ENOBUFS, 0, FALSE) /\ UNCHANGED <<table, accepted, gone>>
      BY <2>4 DEF RecvFindsNoBuffer, network
    <3> QED
      BY <1>0, <1>1, <2>2, <3>1
  <2> QED
    BY <2>1, <2>3, <2>4
<1>5. ASSUME NEW c \in Conns, Sent(c) PROVE ClientInv'
  <2>1. PICK op \in Of("send"), n \in 1 .. BUF_SIZE : SendCompletes(op, n)
    BY <1>5 DEF Sent
  <2>2. op.op = "send" /\ n \in Int /\ ~(n <= 0)
    BY <2>1, BufAssumption DEF Of
  <2>3. Completes(op, n, 0, FALSE) /\ UNCHANGED <<table, accepted, gone>>
    BY <2>1 DEF SendCompletes
  <2> QED
    BY <1>0, <1>1, <2>2, <2>3
<1>6. ASSUME NEW op \in flight, op.op \in {"recv", "send"}, NEW res \in {0, FAILED}, OpFails(op, res)
      PROVE  ClientInv'
  <2>1. Completes(op, res, 0, FALSE) /\ gone' = gone \cup {op.conn} /\ UNCHANGED <<table, accepted>>
    BY <1>6 DEF OpFails
  <2>2. res \in Int /\ op.op # "accept"
    BY <1>0, <1>6
  <2> QED
    BY <1>0, <1>1, <2>1, <2>2
<1> QED
  BY <1>2, <1>3, <1>4, <1>5, <1>6 DEF Of

\* Between the batches nothing moves.
LEMMA StillClients ==
  ASSUME ClientInv, UNCHANGED <<up, sq, flight, cq, multishot, clients, table, accepted, gone>>
  PROVE  ClientInv'
<1>1. \A fd : SoleOp(fd)' <=> SoleOp(fd)
  <2> TAKE fd
  <2>1. PICK M : M = OpsOf(fd) /\ OpsOf(fd)' = M
    BY SameOps
  <2>2. (Once(M)' <=> Once(M)) /\ (Absent(M)' <=> Absent(M))
    BY DEF Once, Absent
  <2> QED
    BY <2>1, <2>2 DEF SoleOp
<1>2. SingleInv => SingleInv'
  BY <1>1 DEF SingleInv, OnConn, Rearms, EntryOK
<1>3. MultiInv => MultiInv'
  BY DEF MultiInv, Armed, Pending
<1> QED
  BY <1>2, <1>3 DEF ClientInv

\* Every step.
LEMMA NextClients == ASSUME BufferInv, ClientInv, Next PROVE ClientInv'
<1>0. BufferInv' /\ multishot \in BOOLEAN
  BY NextBuffers DEF BufferInv, ServerTypes
<1>1. CASE Collect \/ Submitted
  <2>1. UNCHANGED <<up, sq, flight, cq, multishot, clients, table, accepted, gone>>
    BY <1>1 DEF Collect, Wait, EndBatch, Submitted, network
  <2> QED
    BY <2>1, StillClients
<1>2. CASE SubmitNext
  <2>1. up /\ multishot' = multishot
    BY <1>2 DEF SubmitNext
  <2>2. CASE multishot
    BY <1>0, <1>2, <2>1, <2>2, SubmitMulti DEF ClientInv
  <2>3. CASE ~multishot
    BY <1>0, <1>2, <2>1, <2>3, SubmitSingle DEF ClientInv
  <2> QED
    BY <2>2, <2>3
<1>3. CASE HandleAccept \/ HandleAcceptFailed \/ HandleNoBufs \/ HandleRecvEnd \/ HandleRecv
           \/ HandleSendFailed \/ HandleSendShort \/ HandleSendDone
  BY <1>0, <1>3, HandlersKeepClients
<1>4. CASE ~Server
  BY <1>0, <1>4, KernelKeepsClients DEF Next
<1> QED
  BY <1>1, <1>2, <1>3, <1>4 DEF Server

\* At the start accept is all that is pending.
LEMMA InitClients == Init => ClientInv
<1> SUFFICES ASSUME Init PROVE ClientInv
  OBVIOUS
<1>1. /\ sq = <<Acceptor>> /\ flight = {} /\ cq = << >> /\ clients = {} /\ accepted = {}
  BY DEF Init, RingInit
<1>2. /\ \A k \in 1 .. Len(sq) : sq[k] = Acceptor
      /\ 1 .. Len(cq) = {}
  BY <1>1
<1>3. ASSUME NEW fd \in Fds PROVE SoleOp(fd)
  <2>1. OpsAt(sq, OpsOf(fd)) = {} /\ DoneAt(cq, OpsOf(fd)) = {}
    BY <1>2, ClientOps DEF OpsAt, DoneAt
  <2> QED
    BY <1>1, <2>1 DEF SoleOp, Once, Absent
<1>4. Rearms(Acceptor)
  BY OperationKinds DEF Rearms
<1> QED
  BY <1>1, <1>2, <1>3, <1>4 DEF ClientInv, SingleInv, MultiInv

\* In exercise 10 everything that is pending of a client is one operation, and it arms.
LEMMA ClientsKept == ASSUME BufferInv, ClientInv PROVE NobodyForgotten
<1>0. /\ ServerTypes /\ RingTypeOK(Operation, Completion) /\ sq \in Seq(Operation)
      /\ cq \in Seq(Completion) /\ flight \subseteq Operation
  BY DEF BufferInv, ServerTypes, RingTypeOK
<1>1. CASE up /\ multishot
  BY <1>1 DEF ClientInv, MultiInv, NobodyForgotten
<1>2. CASE up /\ ~multishot
  <2>1. SingleInv
    BY <1>2 DEF ClientInv
  <2>2. ASSUME NEW fd \in Fds
        PROVE  Cardinality(Armed(fd)) = IF fd \in clients THEN 1 ELSE 0
    <3>1. PICK M : M = OpsOf(fd)
      OBVIOUS
    <3>2. Once(M) /\ (Absent(M) <=> fd \notin clients)
      BY <2>1, <3>1 DEF SingleInv, SoleOp
    <3>3. \A k \in 1 .. Len(cq) : cq[k].op \in Operation /\ Rearms(cq[k].op)
      <4>1. \A k \in 1 .. Len(cq) : cq[k] \in Completion
        BY <1>0
      <4> QED
        BY <2>1, <4>1 DEF SingleInv, EntryOK, Completion
    <3>4. \A op : op \in Pending <=> \/ \E k \in 1 .. Len(sq) : sq[k] = op
                                     \/ op \in flight
                                     \/ \E k \in 1 .. Len(cq) : cq[k].op = op
      <4>1. DOMAIN sq = 1 .. Len(sq) /\ DOMAIN cq = 1 .. Len(cq)
        BY <1>0
      <4> QED
        BY <4>1 DEF Pending, ToSet
    <3>5. \A op : op \in Armed(fd) <=> op \in Pending /\ op \in M
      <4>1. \A k \in 1 .. Len(sq) : sq[k] \in Operation
        BY <1>0
      <4>2. \A op \in Pending : op \in Operation /\ Rearms(op)
        BY <1>0, <2>1, <3>3, <3>4, <4>1 DEF SingleInv
      <4> QED
        BY <3>1, <4>2 DEF Armed, OpsOf, Rearms
    <3>6. \A x, y \in Armed(fd) : x = y
      BY <3>2, <3>4, <3>5 DEF Once, OpsAt, DoneAt
    <3>7. Armed(fd) = {} <=> Absent(M)
      BY <3>4, <3>5 DEF Absent, OpsAt, DoneAt
    <3> QED
      BY <3>2, <3>6, <3>7, AtMostOne
  <2> QED
    BY <1>2, <2>1, <2>2 DEF NobodyForgotten, SingleInv
<1> QED
  BY <1>1, <1>2 DEF NobodyForgotten

\* Nobody is forgotten.  In exercise 11 a client has a recv armed or a send that will arm it, also
\* when recv ends with the pool exhausted, when the sends of one client are under way together and
\* when its descriptor is closed and given out again.  In exercise 10 that is one operation, no
\* connection that is closed has one, and a connection is closed only when its own client has gone.
THEOREM NobodyEverForgotten == Spec => []NobodyForgotten
<1>1. Init => BufferInv /\ ClientInv
  BY InitBuffers, InitClients
<1>2. BufferInv /\ ClientInv /\ [Next]_vars => BufferInv' /\ ClientInv'
  <2>1. ASSUME BufferInv, ClientInv, UNCHANGED vars PROVE BufferInv' /\ ClientInv'
    <3>1. UNCHANGED <<up, sq, flight, cq, multishot, clients, pool, content, table, accepted, read,
                     echoed, pc, ready, gone>>
      BY <2>1 DEF vars, ring, buffers, network
    <3>2. pc' \in {"submit", "wait", "cqe"} /\ ready' \in Nat /\ ready' <= Len(cq)
      BY <2>1, <3>1 DEF BufferInv, ServerTypes
    <3> QED
      BY <2>1, <3>1, <3>2, StillBuffers, StillClients
  <2> QED
    BY <2>1, NextBuffers, NextClients
<1>3. BufferInv /\ ClientInv => NobodyForgotten
  BY ClientsKept
<1> QED
  BY <1>1, <1>2, <1>3, PTL DEF Spec

----
\* What is known of an operation, or of a completion, depends on its descriptor's connection
\* and on the buffer it names.
LEMMA AskedStays ==
  ASSUME NEW x, Asked(x), x.op # "accept" => /\ table'[x.fd] = table[x.fd]
                                            /\ read'[table[x.fd]] = read[table[x.fd]]
                                            /\ echoed'[table[x.fd]] = echoed[table[x.fd]],
         x.op = "send" => content'[x.bid] = content[x.bid]
  PROVE  Asked(x)'
BY DEF Asked, Numbered

\* See AskedStays.
LEMMA AnsweredStays ==
  ASSUME NEW e, Answered(e),
         e.op.op # "accept" => /\ table'[e.op.fd] = table[e.op.fd]
                               /\ read'[table[e.op.fd]] = read[table[e.op.fd]]
                               /\ echoed'[table[e.op.fd]] = echoed[table[e.op.fd]],
         e.op.op = "accept" /\ e.res # FAILED => /\ table'[e.res] = table[e.res]
                                                /\ read'[table[e.res]] = read[table[e.res]]
                                                /\ echoed'[table[e.res]] = echoed[table[e.res]],
         e.op.op = "recv" /\ e.res > 0 => content'[e.bid] = content[e.bid],
         e.op.op = "send" => content'[e.op.bid] = content[e.op.bid]
  PROVE  Answered(e)'
BY DEF Answered, Numbered

\* An operation other than the one the kernel completes is on another connection, and no buffer
\* that the kernel may take is in its hands.
LEMMA Elsewhere ==
  ASSUME BufferInv, SingleInv, InStep, up, NEW op \in flight, NEW x \in Operation, x.op # "accept",
         \/ x \in flight /\ x # op
         \/ \E k \in 1 .. Len(sq) : sq[k] = x
         \/ \E k \in 1 .. Len(cq) : cq[k].op = x
  PROVE  /\ x.fd \in clients /\ x.fd \in Fds /\ table[x.fd] \in Conns /\ table[x.fd] # op.conn
         /\ x.op = "send" => OpsAt(pool, {x.bid}) = {}
<1>1. /\ flight \subseteq Operation /\ op \in Operation /\ table \in [Fds -> Conns \cup {0}]
  BY DEF BufferInv, ServerTypes, RingTypeOK
<1>2. x.fd \in Fds /\ x \in OpsOf(x.fd)
  BY ClientOps
<1>3. x.fd \in clients
  <2>1. ~Absent(OpsOf(x.fd))
    BY <1>2 DEF Absent, OpsAt, DoneAt
  <2> QED
    BY <1>2, <2>1 DEF SingleInv, SoleOp
<1>4. table[x.fd] \in Conns /\ table[x.fd] # 0
  BY <1>1, <1>2, <1>3 DEF SingleInv
<1>5. table[x.fd] # op.conn
  <2>1. CASE op.op = "accept"
    <3>1. op = Acceptor /\ Acceptor.conn = 0
      BY <1>1, <2>1, OperationKinds DEF Acceptor
    <3> QED
      BY <1>4, <3>1
  <2>2. CASE op.op # "accept"
    <3>1. op.fd \in Fds /\ op \in OpsOf(op.fd) /\ op.conn = table[op.fd]
      BY <1>1, <2>2, ClientOps DEF SingleInv, OnConn
    <3>2. Once(OpsOf(op.fd))
      BY <3>1 DEF SingleInv, SoleOp
    <3>3. x \notin OpsOf(op.fd)
      BY <3>1, <3>2 DEF Once, OpsAt, DoneAt
    <3>4. x.fd # op.fd
      BY <1>2, <3>3
    <3> QED
      BY <1>2, <1>4, <3>1, <3>4 DEF InStep
  <2> QED
    BY <2>1, <2>2
<1>6. ASSUME x.op = "send" PROVE OpsAt(pool, {x.bid}) = {}
  <2>1. x.bid \in Bids /\ x \in SendsOf(x.bid)
    BY <1>6, OperationKinds DEF SendsOf
  <2>2. ~Absent(SendsOf(x.bid))
    BY <2>1 DEF Absent, OpsAt, DoneAt
  <2> QED
    BY <2>1, <2>2 DEF BufferInv, OnePlace
<1> QED
  BY <1>2, <1>3, <1>4, <1>5, <1>6

\* The kernel: it is enough to look at the connection and the buffer of the operation.
LEMMA CompletedOrder ==
  ASSUME BufferInv, SingleInv, InStep, NEW op, NEW res \in Int, NEW bid \in Bids, NEW more \in BOOLEAN,
         Completes(op, res, bid, more), ~multishot, InOrder', Answered(Cqe(op, res, bid, more))',
         \A d \in Conns : d # op.conn => read'[d] = read[d] /\ echoed'[d] = echoed[d],
         \A b \in Bids : content'[b] = content[b] \/ OpsAt(pool, {b}) # {},
         \/ table' = table /\ accepted' = accepted
         \/ /\ op = Acceptor /\ res \in Fds /\ table[res] = 0
            /\ \E c \in Conns : /\ c \notin accepted /\ table' = [table EXCEPT ![res] = c]
                                /\ accepted' = accepted \cup {c}
  PROVE  InStep'
<1> DEFINE e == Cqe(op, res, bid, more)
<1>1. /\ up /\ op \in flight /\ sq' = sq /\ cq' = Append(cq, e) /\ flight' = flight \ {op}
  BY DEF Completes
<1>2. /\ flight \subseteq Operation /\ cq \in Seq(Completion) /\ sq \in Seq(Operation)
      /\ table \in [Fds -> Conns \cup {0}] /\ Len(cq) \in Nat /\ accepted \subseteq Conns
      /\ op \in Operation /\ EntryTypes
  <2>1. /\ flight \subseteq Operation /\ cq \in Seq(Completion) /\ sq \in Seq(Operation)
        /\ table \in [Fds -> Conns \cup {0}] /\ accepted \subseteq Conns /\ EntryTypes
    BY DEF BufferInv, ServerTypes, RingTypeOK
  <2> QED
    BY <1>1, <2>1
<1>3. e \in Completion /\ Answered(e)'
  BY <1>2 DEF Completion, Cqe
<1> HIDE DEF e
<1>4. \A fd \in Fds : table[fd] # 0 => table'[fd] = table[fd]
  BY <1>2
<1>5. ASSUME NEW x \in Operation, x.op # "accept",
             \/ x \in flight /\ x # op
             \/ \E k \in 1 .. Len(sq) : sq[k] = x
             \/ \E k \in 1 .. Len(cq) : cq[k].op = x
      PROVE  /\ table'[x.fd] = table[x.fd] /\ read'[table[x.fd]] = read[table[x.fd]]
             /\ echoed'[table[x.fd]] = echoed[table[x.fd]]
             /\ x.op = "send" => content'[x.bid] = content[x.bid]
  <2>1. /\ x.fd \in Fds /\ table[x.fd] \in Conns /\ table[x.fd] # op.conn
        /\ x.op = "send" => OpsAt(pool, {x.bid}) = {}
    BY <1>1, <1>5, Elsewhere
  <2>2. x.op = "send" => x.bid \in Bids
    BY <1>5, OperationKinds
  <2>3. table[x.fd] # 0
    BY <2>1, ConnsAssumption
  <2> QED
    BY <1>4, <2>1, <2>2, <2>3
<1>6. \A k \in 1 .. Len(sq') : Asked(sq[k])'
  <2> TAKE k \in 1 .. Len(sq')
  <2>1. PICK x : x = sq[k] /\ x = sq'[k] /\ x \in Operation /\ Asked(x) /\ k \in 1 .. Len(sq)
    BY <1>1, <1>2 DEF InStep
  <2>2. Asked(x)'
    BY <1>5, <2>1, AskedStays
  <2> QED
    BY <2>1, <2>2
<1>7. \A x \in flight' : Asked(x)'
  <2> TAKE x \in flight'
  <2>1. x \in Operation /\ Asked(x) /\ x \in flight /\ x # op
    BY <1>1, <1>2 DEF InStep
  <2> QED
    BY <1>5, <2>1, AskedStays
<1>8. \A k \in 1 .. Len(cq') : (k \in 1 .. Len(cq) /\ cq'[k] = cq[k]) \/ cq'[k] = e
  BY <1>1, <1>2, <1>3, AppendEntries
<1>9. \A k \in 1 .. Len(cq') : Answered(cq[k])'
  <2> TAKE k \in 1 .. Len(cq')
  <2>1. CASE k \in 1 .. Len(cq) /\ cq'[k] = cq[k]
    <3>1. PICK c : c = cq[k] /\ c = cq'[k] /\ c \in Completion /\ Answered(c) /\ EntryOK(c)
      <4>1. cq[k] \in Completion
        BY <1>2, <2>1
      <4> QED
        BY <2>1, <4>1 DEF InStep, SingleInv
    <3>2. c.op \in Operation /\ c.bid \in Bids
      BY <3>1 DEF Completion
    <3>3. c.op.op # "accept" =>
            /\ table'[c.op.fd] = table[c.op.fd] /\ read'[table[c.op.fd]] = read[table[c.op.fd]]
            /\ echoed'[table[c.op.fd]] = echoed[table[c.op.fd]]
            /\ c.op.op = "send" => content'[c.op.bid] = content[c.op.bid]
      BY <1>5, <2>1, <3>1, <3>2
    <3>4. c.op.op = "recv" /\ c.res > 0 => content'[c.bid] = content[c.bid]
      <4>1. ASSUME c.op.op = "recv" /\ c.res > 0 PROVE OpsAt(pool, {c.bid}) = {}
        <5>1. k \in OpsAt(cq, Given(c.bid))
          BY <2>1, <3>1, <4>1 DEF OpsAt, Given
        <5> QED
          BY <1>1, <3>2, <5>1 DEF BufferInv, OnePlace
      <4> QED
        BY <3>2, <4>1
    <3>5. c.op.op = "accept" /\ c.res # FAILED =>
            /\ table'[c.res] = table[c.res] /\ read'[table[c.res]] = read[table[c.res]]
            /\ echoed'[table[c.res]] = echoed[table[c.res]]
      <4> HAVE c.op.op = "accept" /\ c.res # FAILED
      <4>1. c.res \in Fds /\ c.res \notin clients /\ table[c.res] # 0 /\ table[c.res] \in Conns
        BY <1>2, <2>1, <3>1 DEF EntryTypes, EntryOK
      <4>2. table[c.res] # op.conn
        <5>1. CASE op.op = "accept"
          <6>1. op = Acceptor /\ Acceptor.conn = 0
            BY <1>2, <5>1, OperationKinds DEF Acceptor
          <6> QED
            BY <4>1, <6>1
        <5>2. CASE op.op # "accept"
          <6>1. op.fd \in Fds /\ op \in OpsOf(op.fd) /\ op.conn = table[op.fd]
            BY <1>1, <1>2, <5>2, ClientOps DEF SingleInv, OnConn
          <6>2. ~Absent(OpsOf(op.fd))
            BY <1>1, <6>1 DEF Absent
          <6>3. op.fd \in clients
            BY <6>1, <6>2 DEF SingleInv, SoleOp
          <6> QED
            BY <4>1, <6>1, <6>3 DEF InStep
        <5> QED
          BY <5>1, <5>2
      <4> QED
        BY <1>4, <4>1, <4>2
    <3>6. Answered(c)'
      BY <3>1, <3>3, <3>4, <3>5, AnsweredStays
    <3> QED
      BY <3>1, <3>6
  <2>2. CASE cq'[k] = e
    BY <1>3, <2>2
  <2> QED
    BY <1>8, <2>1, <2>2
<1>10. /\ \A f, g \in Fds : table'[f] = table'[g] /\ table'[f] # 0 => f = g
       /\ \A fd \in Fds : table'[fd] \in accepted' \cup {0}
       /\ \A c \in Conns \ accepted' : read'[c] = 0 /\ echoed'[c] = << >>
  <2>1. op.conn \in accepted \cup {0}
    <3>1. CASE op.op = "accept"
      <4>1. op = Acceptor /\ Acceptor.conn = 0
        BY <1>2, <3>1, OperationKinds DEF Acceptor
      <4> QED
        BY <4>1
    <3>2. CASE op.op # "accept"
      <4>1. op.fd \in Fds /\ op.conn = table[op.fd]
        BY <1>1, <1>2, <3>2, ClientOps DEF SingleInv, OnConn
      <4> QED
        BY <4>1 DEF InStep
    <3> QED
      BY <3>1, <3>2
  <2>2. accepted \subseteq accepted'
    OBVIOUS
  <2>3. \A c \in Conns \ accepted' : read'[c] = 0 /\ echoed'[c] = << >>
    BY <2>1, <2>2, ConnsAssumption DEF InStep
  <2>4. CASE table' = table /\ accepted' = accepted
    BY <2>3, <2>4 DEF InStep
  <2>5. ASSUME NEW c \in Conns, c \notin accepted, res \in Fds, table[res] = 0,
               table' = [table EXCEPT ![res] = c], accepted' = accepted \cup {c}
        PROVE  /\ \A f, g \in Fds : table'[f] = table'[g] /\ table'[f] # 0 => f = g
               /\ \A fd \in Fds : table'[fd] \in accepted' \cup {0}
    <3>1. \A fd \in Fds : table'[fd] = IF fd = res THEN c ELSE table[fd]
      BY <1>2, <2>5
    <3>2. c # 0 /\ \A fd \in Fds : table[fd] # c
      BY <2>5, ConnsAssumption DEF InStep
    <3> QED
      BY <2>5, <3>1, <3>2 DEF InStep
  <2> QED
    BY <2>3, <2>4, <2>5
<1> QED
  BY <1>6, <1>7, <1>9, <1>10 DEF InStep

\* A handler: what it asks for is right as the connection stands, and when it closes nothing
\* else is under way there.
LEMMA HandledOrder ==
  ASSUME BufferInv, SingleInv, InStep, NEW kind, Peek(kind), NEW ops \in Seq(Operation), Prepare(ops),
         Seen, up', UNCHANGED <<content, accepted, read, echoed>>,
         \A k \in 1 .. Len(ops) : Asked(ops[k]),
         table' = table \/ (kind # "accept" /\ Close(Op.fd) /\ ops = << >>)
  PROVE  InStep'
<1>1. /\ up /\ cq # << >> /\ Len(cq) \in Nat \ {0} /\ ServerTypes /\ EntryTypes
      /\ table \in [Fds -> Conns \cup {0}] /\ sq \in Seq(Operation) /\ cq \in Seq(Completion)
      /\ flight \subseteq Operation /\ RingTypeOK(Operation, Completion)
  BY PeekHere DEF BufferInv, ServerTypes, RingTypeOK
<1>2. cq' = Tail(cq) /\ flight' = flight /\ sq' = sq \o ops
  BY <1>1, PrepareRing DEF Seen, ServerTypes
<1>3. \A k \in 1 .. Len(cq') : k + 1 \in 1 .. Len(cq) /\ cq'[k] = cq[k + 1] /\ k + 1 # 1
  BY <1>1, <1>2, TailEntries
<1>4. \A k \in 1 .. Len(sq') :
        \/ k \in 1 .. Len(sq) /\ sq'[k] = sq[k]
        \/ k - Len(sq) \in 1 .. Len(ops) /\ sq'[k] = ops[k - Len(sq)]
  <2>1. \A s, t \in Seq(Operation) : \A k \in 1 .. Len(s \o t) :
          \/ k \in 1 .. Len(s) /\ (s \o t)[k] = s[k]
          \/ k - Len(s) \in 1 .. Len(t) /\ (s \o t)[k] = t[k - Len(s)]
    OBVIOUS
  <2> QED
    BY <1>1, <1>2, <2>1
<1>5. CASE table' = table
  <2>1. \A x : Asked(x)' <=> Asked(x)
    BY <1>5 DEF Asked, Numbered
  <2>2. \A x : Answered(x)' <=> Answered(x)
    BY <1>5 DEF Answered, Numbered
  <2>3. ASSUME NEW k \in 1 .. Len(sq') PROVE Asked(sq[k])'
    <3>1. PICK x : x = sq'[k] /\ Asked(x)
      BY <1>4 DEF InStep
    <3>2. Asked(x)'
      BY <2>1, <3>1
    <3> QED
      BY <3>1, <3>2
  <2>4. ASSUME NEW k \in 1 .. Len(cq') PROVE Answered(cq[k])'
    <3>1. PICK x : x = cq'[k] /\ Answered(x)
      BY <1>3 DEF InStep
    <3>2. Answered(x)'
      BY <2>2, <3>1
    <3> QED
      BY <3>1, <3>2
  <2>5. \A op \in flight' : Asked(op)'
    BY <1>2, <2>1 DEF InStep
  <2> QED
    BY <1>5, <2>3, <2>4, <2>5 DEF InStep, InOrder
<1>6. CASE kind # "accept" /\ Close(Op.fd) /\ ops = << >>
  <2>1. /\ Op.fd \in clients /\ Op.fd \in Fds /\ Op \in OpsOf(Op.fd)
        /\ \A k \in 1 .. Len(cq) : cq[k].op \in OpsOf(Op.fd) => k = 1
        /\ \A op \in flight : op \notin OpsOf(Op.fd)
        /\ \A k \in 1 .. Len(sq) : sq[k] \notin OpsOf(Op.fd)
    BY <1>1, <1>6, SoleHere
  <2>2. \A fd \in Fds : table'[fd] = IF fd = Op.fd THEN 0 ELSE table[fd]
    <3>1. table' = [table EXCEPT ![Op.fd] = 0]
      BY <1>6 DEF Close
    <3> QED
      BY <1>1, <3>1
  <2>3. \A x \in Operation : x.op # "accept" /\ x \notin OpsOf(Op.fd) => table'[x.fd] = table[x.fd]
    <3> TAKE x \in Operation
    <3>1. x.op # "accept" => x.fd \in Fds /\ x \in OpsOf(x.fd)
      BY ClientOps
    <3> QED
      BY <2>2, <3>1
  <2>4. ASSUME NEW k \in 1 .. Len(sq') PROVE Asked(sq[k])'
    <3>1. k \in 1 .. Len(sq) /\ sq'[k] = sq[k]
      BY <1>4, <1>6
    <3>2. PICK x : x = sq[k] /\ x = sq'[k] /\ x \in Operation /\ Asked(x) /\ x \notin OpsOf(Op.fd)
      BY <1>1, <2>1, <3>1 DEF InStep
    <3>3. Asked(x)'
      BY <2>3, <3>2, AskedStays
    <3> QED
      BY <3>2, <3>3
  <2>5. ASSUME NEW x \in flight' PROVE Asked(x)'
    <3>1. x \in Operation /\ Asked(x) /\ x \notin OpsOf(Op.fd)
      BY <1>1, <1>2, <2>1 DEF InStep
    <3> QED
      BY <2>3, <3>1, AskedStays
  <2>6. ASSUME NEW k \in 1 .. Len(cq') PROVE Answered(cq[k])'
    <3>1. k + 1 \in 1 .. Len(cq) /\ cq'[k] = cq[k + 1] /\ k + 1 # 1
      BY <1>3
    <3>2. PICK c : c = cq[k + 1] /\ c = cq'[k] /\ c \in Completion /\ Answered(c) /\ EntryOK(c)
      <4>1. cq[k + 1] \in Completion
        BY <1>1, <3>1
      <4> QED
        BY <3>1, <4>1 DEF InStep, SingleInv
    <3>3. c.op \in Operation /\ c.op \notin OpsOf(Op.fd)
          /\ (c.op.op = "accept" /\ c.res # FAILED => c.res \in Fds)
      BY <1>1, <2>1, <3>1, <3>2 DEF Completion, EntryTypes
    <3>4. c.op.op = "accept" /\ c.res # FAILED => table'[c.res] = table[c.res]
      <4>1. c.op.op = "accept" /\ c.res # FAILED => c.res # Op.fd
        BY <2>1, <3>2 DEF EntryOK
      <4> QED
        BY <2>2, <3>3, <4>1
    <3>5. c.op.op # "accept" => table'[c.op.fd] = table[c.op.fd]
      BY <2>3, <3>3
    <3>6. Answered(c)'
      BY <3>2, <3>4, <3>5, AnsweredStays
    <3> QED
      BY <3>2, <3>6
  <2>7. /\ \A f, g \in Fds : table'[f] = table'[g] /\ table'[f] # 0 => f = g
        /\ \A fd \in Fds : table'[fd] \in accepted' \cup {0}
    BY <2>2 DEF InStep
  <2> QED
    BY <2>4, <2>5, <2>6, <2>7 DEF InStep, InOrder
<1> QED
  BY <1>5, <1>6

\* What the server asks for next: recv when everything received has come back, the rest of a
\* send, or the send of what has been received.
LEMMA AskedNext ==
  ASSUME BufferInv, NEW fd \in Fds
  PROVE  /\ Len(echoed[table[fd]]) = read[table[fd]] => Asked(Recv(fd))
         /\ \A b, rearm : /\ Numbered(b, table[fd]) /\ 0 < Len(content[b])
                          /\ Len(echoed[table[fd]]) + Len(content[b]) = read[table[fd]] + 0
                          => Asked(SendEvent(fd, b, rearm))
<1>1. PICK op : op = Recv(fd)
  OBVIOUS
<1>2. op \in [op : {"recv"}, fd : {fd}, conn : {0}, ev : Nat]
  BY <1>1, FreshRecv DEF BufferInv
<1>3. op.op = "recv" /\ op.fd = fd
  BY <1>2
<1>4. Len(echoed[table[fd]]) = read[table[fd]] => Asked(op)
  BY <1>3 DEF Asked
<1>5. ASSUME NEW b, NEW rearm, Numbered(b, table[fd]), 0 < Len(content[b]),
             Len(echoed[table[fd]]) + Len(content[b]) = read[table[fd]] + 0
      PROVE  Asked(SendEvent(fd, b, rearm))
  <2>1. PICK send : send = SendEvent(fd, b, rearm)
    OBVIOUS
  <2>2. send.op = "send" /\ send.fd = fd /\ send.bid = b /\ send.offset = 0
    BY <2>1 DEF SendEvent
  <2>3. Asked(send)
    BY <1>5, <2>2 DEF Asked
  <2> QED
    BY <2>1, <2>3
<1> QED
  BY <1>1, <1>4, <1>5

\* Every handler.
LEMMA HandlersKeepOrder ==
  ASSUME BufferInv, SingleInv, InStep, ~multishot, up',
         HandleAccept \/ HandleAcceptFailed \/ HandleNoBufs \/ HandleRecvEnd \/ HandleRecv
         \/ HandleSendFailed \/ HandleSendShort \/ HandleSendDone
  PROVE  InStep'
<1>0. ServerTypes /\ EntryTypes /\ sq \in Seq(Operation) /\ Len(sq) <= SqDepth
      /\ table \in [Fds -> Conns \cup {0}]
  BY DEF BufferInv, ServerTypes, RingTypeOK
<1>1. ASSUME NEW kind, Peek(kind)
      PROVE  /\ Op = cq[1].op /\ Op.op = kind /\ Op \in Operation /\ Res \in Int /\ Res = cq[1].res
             /\ Head(cq) = cq[1] /\ 1 \in 1 .. Len(cq) /\ Head(cq).bid \in Bids
             /\ kind = "accept" /\ Res # FAILED => Res \in Fds
             /\ kind # "accept" => Op.fd \in Fds
             /\ Answered(cq[1])
  <2>1. /\ Op = cq[1].op /\ Op.op = kind /\ Op \in Operation /\ Res \in Int /\ Res = cq[1].res
        /\ Head(cq) = cq[1] /\ 1 \in 1 .. Len(cq) /\ Head(cq).bid \in Bids
        /\ kind = "accept" /\ Res # FAILED => Res \in Fds
    BY <1>0, <1>1, PeekHere
  <2> QED
    BY <2>1, ClientOps DEF InStep
<1>2. << >> \in Seq(Operation) /\ Len(<< >>) = 0 /\ (sq' = sq /\ up' = up => Prepare(<< >>))
  <2>1. Len(<< >>) = 0 /\ sq \o << >> = sq /\ Len(sq) + 0 = Len(sq) /\ << >> \in Seq(Operation)
    BY <1>0
  <2> QED
    BY <1>0, <2>1 DEF Prepare
<1>3. ASSUME NEW kind, Peek(kind), NEW op \in Operation, Prepare(<<op>>), Seen,
             UNCHANGED <<content, network>>, Asked(op)
      PROVE  InStep'
  <2>1. PICK ops : ops = <<op>>
    OBVIOUS
  <2>2. ops \in Seq(Operation) /\ \A k \in 1 .. Len(ops) : ops[k] = op
    BY <2>1
  <2>3. Prepare(ops) /\ (\A k \in 1 .. Len(ops) : Asked(ops[k])) /\ table' = table
        /\ UNCHANGED <<content, accepted, read, echoed>>
    BY <1>3, <2>1, <2>2 DEF network
  <2> QED
    BY <1>3, <2>2, <2>3, HandledOrder
<1>4. ASSUME NEW kind, Peek(kind), Prepare(<< >>), Seen, UNCHANGED <<content, accepted, read, echoed>>,
             table' = table \/ (kind # "accept" /\ Close(Op.fd))
      PROVE  InStep'
  <2>1. PICK ops : ops = << >>
    OBVIOUS
  <2>2. ops \in Seq(Operation) /\ Len(ops) = 0 /\ Prepare(ops)
    BY <1>2, <1>4, <2>1
  <2>3. \A k \in 1 .. Len(ops) : Asked(ops[k])
    BY <2>2
  <2> QED
    BY <1>4, <2>1, <2>2, <2>3, HandledOrder
<1>5. Acceptor \in Operation /\ Asked(Acceptor)
  BY OperationKinds DEF Asked
<1>6. CASE HandleAccept
  <2>1. Peek("accept") /\ Res \in Fds /\ Res # FAILED /\ Prepare(<<Recv(Res)>> \o Rearm) /\ Seen
        /\ UNCHANGED <<buffers, network>>
    BY <1>1, <1>6 DEF HandleAccept
  <2>2. read[table[Res]] = 0 /\ echoed[table[Res]] = << >>
    BY <1>1, <2>1 DEF Answered
  <2>3. Len(echoed[table[Res]]) = read[table[Res]]
    BY <1>2, <2>2
  <2>4. PICK op \in Operation : op = Recv(Res) /\ Asked(op)
    BY <1>0, <2>1, <2>3, AskedNext, FreshRecv
  <2>5. PICK ops : ops = <<op>> \o Rearm
    OBVIOUS
  <2>6. ops = <<op>> \/ ops = <<op, Acceptor>>
    <3>1. <<op>> \o << >> = <<op>>
      <4>1. <<op>> \in Seq(Operation) /\ \A q \in Seq(Operation) : q \o << >> = q
        BY <2>4
      <4> QED
        BY <4>1
    <3>2. <<op>> \o <<Acceptor>> = <<op, Acceptor>>
      BY <1>5, ConcatOfTwo
    <3> QED
      BY <2>5, <3>1, <3>2 DEF Rearm
  <2>7. ops \in Seq(Operation) /\ \A k \in 1 .. Len(ops) : ops[k] = op \/ ops[k] = Acceptor
    <3>1. CASE ops = <<op>>
      BY <3>1
    <3>2. CASE ops = <<op, Acceptor>>
      <4>1. ops \in Seq(Operation) /\ Len(ops) = 2 /\ ops[1] = op /\ ops[2] = Acceptor
        BY <1>5, <3>2
      <4> QED
        BY <4>1
    <3> QED
      BY <2>6, <3>1, <3>2
  <2>8. Prepare(ops) /\ \A k \in 1 .. Len(ops) : Asked(ops[k])
    BY <1>5, <2>1, <2>4, <2>5, <2>7
  <2> QED
    BY <2>1, <2>7, <2>8, HandledOrder DEF buffers, network
<1>7. CASE HandleAcceptFailed
  <2>1. Peek("accept") /\ (Prepare(<< >>) \/ Prepare(<<Acceptor>>)) /\ Seen
        /\ UNCHANGED <<buffers, network>>
    BY <1>7 DEF HandleAcceptFailed, Rearm
  <2> QED
    BY <1>3, <1>4, <1>5, <2>1 DEF buffers, network
<1>8. CASE HandleNoBufs
  <2>1. Peek("recv") /\ Res <= 0 /\ Prepare(<<Recv(Op.fd)>>) /\ Seen
        /\ UNCHANGED <<buffers, network>>
    BY <1>8 DEF HandleNoBufs, ENOBUFS
  <2>2. Op.fd \in Fds /\ Len(echoed[table[Op.fd]]) = read[table[Op.fd]]
    <3>1. PICK e : e = cq[1] /\ Answered(e) /\ e.op = Op /\ e.op.op = "recv" /\ e.res <= 0
      BY <1>1, <2>1
    <3>2. Len(echoed[table[e.op.fd]]) = read[table[e.op.fd]]
      BY <3>1 DEF Answered
    <3> QED
      BY <1>1, <2>1, <3>1, <3>2
  <2>3. Recv(Op.fd) \in Operation /\ Asked(Recv(Op.fd))
    BY <1>0, <2>2, AskedNext, FreshRecv
  <2> QED
    BY <1>3, <2>1, <2>3 DEF buffers
<1>9. CASE HandleRecvEnd
  <2>1. /\ Peek("recv") /\ Close(Op.fd) /\ Seen /\ up' = up /\ sq' = sq
        /\ UNCHANGED <<content, accepted, read, echoed>>
    BY <1>9 DEF HandleRecvEnd, buffers
  <2> QED
    BY <1>2, <1>4, <2>1
<1>10. CASE HandleRecv
  <2>1. /\ Peek("recv") /\ Res > 0 /\ Prepare(<<SendEvent(Op.fd, Head(cq).bid, ~Head(cq).more)>>)
        /\ Seen /\ UNCHANGED <<buffers, network>>
    BY <1>10 DEF HandleRecv
  <2>2. Op.fd \in Fds /\ Head(cq).bid \in Bids /\ (~Head(cq).more) \in BOOLEAN
    BY <1>1, <2>1
  <2>3. PICK op : op = SendEvent(Op.fd, Head(cq).bid, ~Head(cq).more)
    OBVIOUS
  <2>4. op \in Operation
    BY <2>2, <2>3, OperationKinds DEF SendEvent
  <2>5. PICK b, fd : b = Head(cq).bid /\ fd = Op.fd
    OBVIOUS
  <2>6. /\ Numbered(b, table[fd]) /\ Len(content[b]) = Res
        /\ Len(echoed[table[fd]]) + Res = read[table[fd]]
    BY <1>1, <2>1, <2>5 DEF Answered
  <2>7. Len(echoed[table[fd]]) + Len(content[b]) = read[table[fd]] + 0
    <3>1. table[fd] \in Conns
      BY <1>1, <2>1, <2>5, SoleHere, <1>0 DEF SingleInv
    <3>2. read[table[fd]] \in 0 .. MaxBytes
      BY <1>0, <3>1 DEF ServerTypes
    <3> QED
      BY <2>6, <3>2, BoundAssumption
  <2>8. Asked(op)
    BY <2>1, <2>2, <2>3, <2>5, <2>6, <2>7, AskedNext
  <2> QED
    BY <1>3, <2>1, <2>3, <2>4, <2>8 DEF buffers
<1>11. CASE HandleSendFailed
  <2>1. /\ Peek("send") /\ Close(Op.fd) /\ Seen /\ up' = up /\ sq' = sq
        /\ UNCHANGED <<content, accepted, read, echoed>>
    BY <1>11 DEF HandleSendFailed, recycle_buf
  <2> QED
    BY <1>2, <1>4, <2>1
<1>12. ASSUME Peek("send"), Res > 0
       PROVE  /\ Op.op = "send" /\ Op \in Operation /\ Op.fd \in Fds /\ Op.bid \in Bids /\ Op.offset \in Nat
              /\ Res \in Nat /\ Len(content[Op.bid]) \in Nat /\ table[Op.fd] \in Conns
              /\ read[table[Op.fd]] \in Nat /\ Len(echoed[table[Op.fd]]) \in Nat
              /\ Numbered(Op.bid, table[Op.fd])
              /\ Len(echoed[table[Op.fd]]) + Len(content[Op.bid]) = read[table[Op.fd]] + Op.offset + Res
  <2>1. Op.op = "send" /\ Op \in Operation /\ Op.fd \in Fds /\ Op.bid \in Bids /\ Op.offset \in Nat
        /\ Res \in Nat
    BY <1>1, <1>12, OperationKinds
  <2>2. /\ Numbered(Op.bid, table[Op.fd])
        /\ Len(echoed[table[Op.fd]]) + Len(content[Op.bid]) = read[table[Op.fd]] + Op.offset + Res
    BY <1>1, <1>12, <2>1 DEF Answered
  <2>3. table[Op.fd] \in Conns
    BY <1>0, <1>12, <2>1, SoleHere DEF SingleInv
  <2>4. read[table[Op.fd]] \in 0 .. MaxBytes /\ content[Op.bid] \in Seq(Conns \X Nat)
        /\ echoed[table[Op.fd]] \in Seq(Conns \X Nat)
    BY <1>0, <2>1, <2>3 DEF ServerTypes
  <2>5. read[table[Op.fd]] \in Nat
    BY <2>4, BoundAssumption
  <2>6. Len(content[Op.bid]) \in Nat /\ Len(echoed[table[Op.fd]]) \in Nat
    BY <2>4
  <2> QED
    BY <2>1, <2>2, <2>3, <2>5, <2>6
<1>13. CASE HandleSendShort
  <2> DEFINE send == [Op EXCEPT !.offset = @ + Res, !.conn = 0]
  <2>1. Peek("send") /\ Res > 0 /\ Rest > 0 /\ Prepare(<<send>>) /\ Seen /\ UNCHANGED <<buffers, network>>
    BY <1>13 DEF HandleSendShort
  <2>2. /\ send \in Operation /\ send.op = "send" /\ send.fd = Op.fd /\ send.bid = Op.bid
        /\ send.offset = Op.offset + Res
    BY <1>12, <2>1, RestOfSend
  <2> HIDE DEF send
  <2>3. PICK b, c, n, off, res : b = Op.bid /\ c = table[Op.fd] /\ n = Len(content[b]) /\ off = Op.offset
                                 /\ res = Res
    OBVIOUS
  <2>4. /\ Numbered(b, c) /\ n \in Nat /\ off \in Nat /\ res \in Nat /\ read[c] \in Nat
        /\ Len(echoed[c]) \in Nat /\ Len(echoed[c]) + n = read[c] + off + res
    BY <1>12, <2>1, <2>3
  <2>5. n - off - res > 0
    BY <2>1, <2>3 DEF Rest
  <2>6. send.offset = off + res /\ off + res < n /\ Len(echoed[c]) + n = read[c] + (off + res)
    <3>1. send.offset = off + res
      BY <2>2, <2>3
    <3>2. off + res < n
      BY <2>4, <2>5
    <3>3. PICK l, r : l = Len(echoed[c]) /\ r = read[c]
      OBVIOUS
    <3>4. l \in Nat /\ r \in Nat /\ l + n = r + off + res
      BY <2>4, <3>3
    <3>5. l + n = r + (off + res)
      BY <2>4, <3>4
    <3> QED
      BY <3>1, <3>2, <3>3, <3>5
  <2>7. send.op = "send" /\ table[send.fd] = c /\ send.bid = b
    BY <2>2, <2>3
  <2>8. Asked(send)
    BY <2>3, <2>4, <2>6, <2>7 DEF Asked
  <2> QED
    BY <1>3, <2>1, <2>2, <2>8 DEF buffers
<1>14. CASE HandleSendDone
  <2>1. /\ Peek("send") /\ Res > 0 /\ Rest = 0 /\ Seen /\ UNCHANGED <<content, network>>
        /\ Prepare(IF Op.rearm /\ Op.fd \in clients THEN <<Recv(Op.fd)>> ELSE << >>)
    BY <1>14 DEF HandleSendDone, recycle_buf
  <2>2. Len(echoed[table[Op.fd]]) = read[table[Op.fd]]
    <3>1. PICK c, n, off, res : c = table[Op.fd] /\ n = Len(content[Op.bid]) /\ off = Op.offset /\ res = Res
      OBVIOUS
    <3>2. /\ n \in Nat /\ off \in Nat /\ res \in Nat /\ read[c] \in Nat
          /\ Len(echoed[c]) \in Nat /\ Len(echoed[c]) + n = read[c] + off + res
      BY <1>12, <2>1, <3>1
    <3>3. n - off - res = 0
      BY <2>1, <3>1 DEF Rest
    <3>4. PICK l, r : l = Len(echoed[c]) /\ r = read[c]
      OBVIOUS
    <3>5. l \in Nat /\ r \in Nat /\ l + n = r + off + res
      BY <3>2, <3>4
    <3>6. l = r
      BY <3>2, <3>3, <3>5
    <3> QED
      BY <3>1, <3>4, <3>6
  <2>3. Recv(Op.fd) \in Operation /\ Asked(Recv(Op.fd))
    BY <1>0, <1>12, <2>1, <2>2, AskedNext, FreshRecv
  <2>4. Prepare(<<Recv(Op.fd)>>) \/ Prepare(<< >>)
    BY <2>1
  <2> QED
    BY <1>3, <1>4, <2>1, <2>3, <2>4 DEF network
<1> QED
  BY <1>6, <1>7, <1>8, <1>9, <1>10, <1>11, <1>13, <1>14

\* What the kernel takes is what was asked for.
LEMMA SubmitOrder ==
  ASSUME BufferInv, SingleInv, InStep, SubmitNext
  PROVE  InStep'
<1> DEFINE op == Head(sq)
           o == Resolved(op)
<1>1. /\ sq # << >> /\ sq' = Tail(sq) /\ ~BadFd(op) /\ flight' = flight \cup {o} /\ cq' = cq
      /\ UNCHANGED <<content, table, accepted, read, echoed>>
  BY SubmitSingle DEF SubmitNext, network, buffers
<1>2. ServerTypes /\ sq \in Seq(Operation) /\ op \in Operation /\ op = sq[1] /\ Len(sq) \in Nat \ {0}
  <2>1. ServerTypes /\ sq \in Seq(Operation)
    BY DEF BufferInv, ServerTypes, RingTypeOK
  <2> QED
    BY <1>1, <2>1
<1>3. /\ o.op = op.op
      /\ op.op # "accept" => o.fd = op.fd
      /\ op.op = "send" => o.bid = op.bid /\ o.offset = op.offset
  BY <1>1, <1>2, TakenOp
<1> HIDE DEF o, op
<1>4. Asked(op)
  BY <1>2 DEF InStep
<1>5. Asked(o)
  BY <1>3, <1>4 DEF Asked
<1>6. \A x : (Asked(x)' <=> Asked(x)) /\ (Answered(x)' <=> Answered(x))
  BY <1>1 DEF Asked, Answered, Numbered
<1>7. ASSUME NEW k \in 1 .. Len(sq') PROVE Asked(sq[k])'
  <2>1. k + 1 \in 1 .. Len(sq) /\ sq'[k] = sq[k + 1]
    BY <1>1, <1>2
  <2>2. PICK x : x = sq'[k] /\ Asked(x)
    BY <2>1 DEF InStep
  <2>3. Asked(x)'
    BY <1>6, <2>2
  <2> QED
    BY <2>2, <2>3
<1>8. ASSUME NEW k \in 1 .. Len(cq') PROVE Answered(cq[k])'
  <2>1. PICK x : x = cq'[k] /\ Answered(x)
    BY <1>1 DEF InStep
  <2>2. Answered(x)'
    BY <1>6, <2>1
  <2> QED
    BY <2>1, <2>2
<1>9. \A x \in flight' : Asked(x)'
  BY <1>1, <1>5, <1>6 DEF InStep
<1> QED
  BY <1>1, <1>7, <1>8, <1>9 DEF InStep, InOrder

\* Bytes that go on where the others end.
LEMMA GoesOn ==
  ASSUME NEW T, NEW c, NEW q \in Seq(T), NEW r \in Seq(T), \A k \in 1 .. Len(q) : q[k] = <<c, k>>,
         \A k \in 1 .. Len(r) : r[k] = <<c, Len(q) + k>>
  PROVE  \A k \in 1 .. Len(q \o r) : (q \o r)[k] = <<c, k>>
<1>1. PICK s : s = q \o r
  OBVIOUS
<1>2. s \in Seq(T) /\ Len(s) = Len(q) + Len(r) /\ Len(q) \in Nat /\ Len(r) \in Nat
  BY <1>1
<1>3. /\ \A k \in 1 .. Len(q) : s[k] = q[k]
      /\ \A k \in 1 .. Len(s) : k \notin 1 .. Len(q) => k - Len(q) \in 1 .. Len(r) /\ s[k] = r[k - Len(q)]
  BY <1>1
<1>4. ASSUME NEW k \in 1 .. Len(s) PROVE s[k] = <<c, k>>
  <2>1. CASE k \in 1 .. Len(q)
    BY <1>3, <2>1
  <2>2. CASE k \notin 1 .. Len(q)
    <3>1. k - Len(q) \in 1 .. Len(r) /\ s[k] = r[k - Len(q)]
      BY <1>3, <2>2
    <3>2. Len(q) + (k - Len(q)) = k
      BY <1>2
    <3> QED
      BY <3>1, <3>2
  <2> QED
    BY <2>1, <2>2
<1> QED
  BY <1>1, <1>4

\* What the kernel completes is on an open connection, whose bytes are where they should be.
LEMMA CompletesHere ==
  ASSUME BufferInv, SingleInv, InStep, NEW op \in flight, op.op # "accept"
  PROVE  /\ op \in Operation /\ op.fd \in Fds /\ op.conn = table[op.fd] /\ op.conn \in Conns
         /\ read[op.conn] \in Nat /\ echoed[op.conn] \in Seq(Conns \X Nat)
         /\ Len(echoed[op.conn]) \in Nat /\ Asked(op)
<1>1. /\ flight \subseteq Operation /\ EntryTypes /\ read \in [Conns -> 0 .. MaxBytes]
      /\ echoed \in [Conns -> Seq(Conns \X Nat)]
  BY DEF BufferInv, ServerTypes, RingTypeOK
<1>2. op \in Operation /\ op.fd \in Fds /\ op.conn \in Conns
  BY <1>1, ClientOps DEF EntryTypes
<1>3. op.conn = table[op.fd] /\ Asked(op)
  BY DEF SingleInv, OnConn, InStep
<1>4. read[op.conn] \in 0 .. MaxBytes /\ echoed[op.conn] \in Seq(Conns \X Nat)
  BY <1>1, <1>2
<1>5. read[op.conn] \in Nat /\ Len(echoed[op.conn]) \in Nat
  BY <1>4, BoundAssumption
<1> QED
  BY <1>2, <1>3, <1>4, <1>5

\* The kernel receives the next bytes of the connection into a buffer of the pool.
LEMMA RecvOrder ==
  ASSUME BufferInv, SingleInv, InStep, ~multishot, NEW op \in Of("recv"), NEW n \in 1 .. BUF_SIZE,
         NEW more \in BOOLEAN, RecvCompletes(op, n, more)
  PROVE  InStep'
<1>1. /\ op \in flight /\ op.op = "recv" /\ n \in Nat /\ n > 0 /\ n \in Int
  BY BufAssumption DEF Of
<1>2. PICK c, fd, r : c = op.conn /\ fd = op.fd /\ r = read[c]
  OBVIOUS
<1>3. /\ fd \in Fds /\ c = table[fd] /\ c \in Conns /\ r \in Nat /\ Len(echoed[c]) = r
  BY <1>1, <1>2, CompletesHere DEF Asked
<1>4. PICK b : b = Head(pool)
  OBVIOUS
<1>5. /\ pool # << >> /\ Completes(op, n, b, more) /\ read' = [read EXCEPT ![c] = r + n]
      /\ content' = [content EXCEPT ![b] = [k \in 1 .. n |-> <<c, r + k>>]]
      /\ UNCHANGED <<table, accepted, echoed, gone>>
  BY <1>2, <1>4 DEF RecvCompletes
<1>6. /\ pool \in Seq(Bids) /\ read \in [Conns -> 0 .. MaxBytes] /\ content \in [Bids -> Seq(Conns \X Nat)]
  BY DEF BufferInv, ServerTypes
<1>7. b \in Bids /\ 1 \in OpsAt(pool, {b})
  <2>1. b = pool[1] /\ 1 \in 1 .. Len(pool) /\ b \in Bids
    BY <1>4, <1>5, <1>6
  <2> QED
    BY <2>1 DEF OpsAt
<1>8. /\ read'[c] = r + n /\ \A d \in Conns : d # c => read'[d] = read[d]
      /\ \A a \in Bids : a # b => content'[a] = content[a]
  BY <1>3, <1>5, <1>6
<1>9. content'[b] = [k \in 1 .. n |-> <<c, r + k>>]
  BY <1>5, <1>6, <1>7
<1>10. Len(content'[b]) = n /\ \A k \in 1 .. n : content'[b][k] = <<c, r + k>>
  BY <1>1, <1>9
<1>11. Numbered(b, c)'
  <2>1. Len(content'[b]) <= read'[c]
    BY <1>1, <1>3, <1>8, <1>10
  <2>2. \A k \in 1 .. n : r + k = read'[c] - n + k
    BY <1>1, <1>3, <1>8
  <2> QED
    BY <1>10, <2>1, <2>2 DEF Numbered
<1>12. PICK e : e = Cqe(op, n, b, more)
  OBVIOUS
<1>13. e.op = op /\ e.res = n /\ e.bid = b
  BY <1>12 DEF Cqe
<1>14. Answered(e)'
  <2>1. table'[fd] = c /\ Len(echoed'[c]) + n = read'[c]
    BY <1>1, <1>3, <1>5, <1>8
  <2>2. e.op.fd = fd /\ e.op.op = "recv" /\ ~(e.res <= 0)
    BY <1>1, <1>2, <1>13
  <2> QED
    BY <1>10, <1>11, <1>13, <2>1, <2>2 DEF Answered
<1>15. Answered(Cqe(op, n, b, more))'
  BY <1>12, <1>14
<1>16. /\ \A d \in Conns : d # op.conn => read'[d] = read[d] /\ echoed'[d] = echoed[d]
       /\ \A a \in Bids : content'[a] = content[a] \/ OpsAt(pool, {a}) # {}
       /\ InOrder' /\ table' = table /\ accepted' = accepted
  BY <1>2, <1>5, <1>7, <1>8 DEF InStep, InOrder
<1> QED
  BY <1>1, <1>5, <1>7, <1>15, <1>16, CompletedOrder

\* What the kernel sends goes on where the echo ends.
LEMMA SendOrder ==
  ASSUME BufferInv, SingleInv, InStep, ~multishot, NEW op \in Of("send"), NEW n \in 1 .. BUF_SIZE,
         SendCompletes(op, n)
  PROVE  InStep'
<1>1. /\ op \in flight /\ op.op = "send" /\ n \in Nat /\ n > 0 /\ n \in Int
  BY BufAssumption DEF Of
<1>2. PICK c, fd, r, b, off, L : /\ c = op.conn /\ fd = op.fd /\ r = read[c] /\ b = op.bid /\ off = op.offset
                                 /\ L = Len(content[b])
  OBVIOUS
<1>3. PICK q, T : q = echoed[c] /\ T = Conns \X Nat
  OBVIOUS
<1>4. /\ fd \in Fds /\ c = table[fd] /\ c \in Conns /\ r \in Nat /\ q \in Seq(T) /\ op \in Operation
      /\ Asked(op) /\ Len(q) \in Nat
  BY <1>1, <1>2, <1>3, CompletesHere
<1>5. b \in Bids /\ off \in Nat /\ content[b] \in Seq(T) /\ L \in Nat
  <2>1. b \in Bids /\ off \in Nat
    BY <1>1, <1>2, <1>4, OperationKinds
  <2>2. content[b] \in Seq(T)
    BY <1>3, <2>1 DEF BufferInv, ServerTypes
  <2> QED
    BY <1>2, <2>1, <2>2
<1>6. /\ Numbered(b, c) /\ off < L /\ Len(q) + L = r + off
  BY <1>1, <1>2, <1>3, <1>4 DEF Asked
<1>7. PICK part : part = SubSeq(content[b], off + 1, off + n)
  OBVIOUS
<1>8. /\ Completes(op, n, 0, FALSE) /\ off + n <= L /\ echoed' = [echoed EXCEPT ![c] = q \o part]
      /\ UNCHANGED <<pool, content, table, accepted, read, gone>>
  BY <1>2, <1>3, <1>7 DEF SendCompletes, buffers
<1>9. part \in Seq(T) /\ Len(part) = n /\ \A k \in 1 .. n : part[k] = content[b][off + k]
  <2>1. PICK s, i, j : s = content[b] /\ i = off + 1 /\ j = off + n
    OBVIOUS
  <2>2. s \in Seq(T) /\ i \in Nat \ {0} /\ j \in Nat /\ i <= j /\ j <= Len(s) /\ j - i + 1 = n
    <3>1. s \in Seq(T) /\ Len(s) = L
      BY <1>2, <1>5, <2>1
    <3>2. i \in Nat \ {0} /\ j \in Nat /\ i <= j /\ j <= L /\ j - i + 1 = n
      BY <1>1, <1>5, <1>8, <2>1
    <3> QED
      BY <3>1, <3>2
  <2>3. /\ SubSeq(s, i, j) \in Seq(T) /\ Len(SubSeq(s, i, j)) = n
        /\ \A k \in 1 .. n : SubSeq(s, i, j)[k] = s[i + k - 1]
    BY <2>2
  <2>4. \A k \in 1 .. n : i + k - 1 = off + k
    BY <1>5, <2>1
  <2> QED
    BY <1>7, <2>1, <2>3, <2>4
<1>10. \A k \in 1 .. n : part[k] = <<c, Len(q) + k>>
  <2> TAKE k \in 1 .. n
  <2>1. off + k \in 1 .. L
    BY <1>1, <1>5, <1>8
  <2>2. content[b][off + k] = <<c, r - L + (off + k)>>
    BY <1>2, <1>6, <2>1 DEF Numbered
  <2>3. r - L + (off + k) = Len(q) + k
    BY <1>4, <1>5, <1>6
  <2> QED
    BY <1>9, <2>2, <2>3
<1>11. /\ echoed \in [Conns -> Seq(Conns \X Nat)] /\ 0 \in Bids
  BY BidsFacts DEF BufferInv, ServerTypes
<1>12. echoed'[c] = q \o part /\ \A d \in Conns : d # c => echoed'[d] = echoed[d]
  BY <1>4, <1>8, <1>11
<1>13. Len(q \o part) = Len(q) + n
  BY <1>4, <1>9
<1>14. InOrder'
  <2>1. q = [k \in 1 .. Len(q) |-> <<c, k>>]
    BY <1>3, <1>4 DEF InStep, InOrder
  <2>2. q \o part = [k \in 1 .. Len(q \o part) |-> <<c, k>>]
    <3>1. q \in Seq(T) /\ part \in Seq(T) /\ \A k \in 1 .. Len(part) : part[k] = <<c, Len(q) + k>>
      BY <1>4, <1>9, <1>10
    <3>2. \A k \in 1 .. Len(q) : q[k] = <<c, k>>
      <4>1. PICK len : len = Len(q)
        OBVIOUS
      <4>2. q = [k \in 1 .. len |-> <<c, k>>]
        BY <2>1, <4>1
      <4>3. \A k \in 1 .. len : q[k] = <<c, k>>
        BY <4>2
      <4> QED
        BY <4>1, <4>3
    <3>3. PICK s : s = q \o part
      OBVIOUS
    <3>4. s \in Seq(T)
      BY <3>1, <3>3
    <3>5. \A k \in 1 .. Len(s) : s[k] = <<c, k>>
      BY <3>1, <3>2, <3>3, GoesOn
    <3>6. s = [k \in 1 .. Len(s) |-> <<c, k>>]
      <4>1. s = [k \in 1 .. Len(s) |-> s[k]]
        BY <3>4
      <4> QED
        BY <3>5, <4>1
    <3> QED
      BY <3>3, <3>6
  <2>3. \A d \in Conns : d # c => echoed[d] = [k \in 1 .. Len(echoed[d]) |-> <<d, k>>]
    BY DEF InStep, InOrder
  <2> QED
    BY <1>12, <2>2, <2>3 DEF InOrder
<1>15. PICK e : e = Cqe(op, n, 0, FALSE)
  OBVIOUS
<1>16. e.op = op /\ e.res = n
  BY <1>15 DEF Cqe
<1>17. Answered(e)'
  <2>1. Numbered(b, c)'
    BY <1>6, <1>8 DEF Numbered
  <2>2. (Len(q) + n) + L = r + off + n
    BY <1>1, <1>4, <1>5, <1>6
  <2>3. Len(echoed'[c]) + Len(content'[b]) = read'[c] + off + n
    BY <1>2, <1>8, <1>12, <1>13, <2>2
  <2>4. off + n <= Len(content'[b]) /\ table'[fd] = c
    BY <1>2, <1>4, <1>8
  <2>5. e.op.op = "send" /\ e.op.fd = fd /\ e.op.bid = b /\ e.op.offset = off
    BY <1>1, <1>2, <1>16
  <2> QED
    BY <1>16, <2>1, <2>3, <2>4, <2>5 DEF Answered
<1>18. Answered(Cqe(op, n, 0, FALSE))'
  BY <1>15, <1>17
<1> QED
  BY <1>1, <1>2, <1>8, <1>11, <1>12, <1>14, <1>18, CompletedOrder

\* Every completion.
LEMMA KernelKeepsOrder ==
  ASSUME BufferInv, SingleInv, InStep, ~multishot,
         \/ AcceptFails
         \/ \E c \in Conns, fd \in Fds, more \in BOOLEAN : Connect(c, fd, more)
         \/ \E c \in Conns : Received(c) \/ Sent(c)
         \/ \E op \in Of("recv") : OpFails(op, 0)
         \/ \E op \in Of("send") : OpFails(op, FAILED)
  PROVE  InStep'
<1>0. 0 \in Bids /\ FAILED = -1 /\ ENOBUFS = -105 /\ Acceptor.op = "accept"
  BY BidsFacts, OperationKinds DEF FAILED, ENOBUFS, BufferInv, ServerTypes
<1>1. ASSUME NEW op, NEW res \in Int, NEW bid \in Bids, NEW more \in BOOLEAN,
             Completes(op, res, bid, more),
             pool' = pool, content' = content, table' = table, accepted' = accepted, read' = read,
             echoed' = echoed, \A e : e.op = op /\ e.res = res => Answered(e)
      PROVE  InStep'
  <2>1. PICK e : e = Cqe(op, res, bid, more)
    OBVIOUS
  <2>2. Answered(e)'
    <3>1. e.op = op /\ e.res = res
      BY <2>1 DEF Cqe
    <3>2. Answered(e)
      BY <1>1, <3>1
    <3> QED
      BY <1>1, <3>2 DEF Answered, Numbered
  <2>3. Answered(Cqe(op, res, bid, more))'
    BY <2>1, <2>2
  <2>4. /\ InOrder' /\ content' = content
        /\ UNCHANGED <<table, accepted, read, echoed>>
    BY <1>1 DEF InStep, InOrder
  <2> QED
    BY <1>1, <2>3, <2>4, CompletedOrder
<1>2. CASE AcceptFails
  <2>1. PICK res : res = FAILED /\ res \in Int
    BY <1>0
  <2>2. Completes(Acceptor, res, 0, FALSE) /\ UNCHANGED <<pool, content, table, accepted, read, echoed>>
    BY <1>2, <2>1 DEF AcceptFails, network, buffers
  <2>3. \A e : e.op = Acceptor /\ e.res = res => Answered(e)
    BY <1>0, <2>1 DEF Answered
  <2> QED
    BY <1>0, <1>1, <2>1, <2>3, <2>2
<1>3. ASSUME NEW c \in Conns, NEW fd \in Fds, NEW more \in BOOLEAN, Connect(c, fd, more)
      PROVE  InStep'
  <2>1. /\ Completes(Acceptor, fd, 0, more) /\ table[fd] = 0 /\ table' = [table EXCEPT ![fd] = c]
        /\ accepted' = accepted \cup {c} /\ c \notin accepted /\ UNCHANGED <<content, read, echoed>>
    BY <1>3 DEF Connect, buffers
  <2>2. table'[fd] = c
    BY <2>1 DEF BufferInv, ServerTypes
  <2>3. read'[c] = 0 /\ echoed'[c] = << >>
    BY <2>1 DEF InStep
  <2>4. PICK e : e = Cqe(Acceptor, fd, 0, more)
    OBVIOUS
  <2>5. e.op.op = "accept" /\ e.res = fd
    BY <1>0, <2>4 DEF Cqe
  <2>6. Answered(e)'
    BY <2>2, <2>3, <2>5 DEF Answered
  <2>7. Answered(Cqe(Acceptor, fd, 0, more))'
    BY <2>4, <2>6
  <2>8. InOrder' /\ fd \in Int
    BY <2>1, FdsAssumption DEF InStep, InOrder
  <2> QED
    BY <1>0, <2>1, <2>7, <2>8, CompletedOrder
<1>4. ASSUME NEW op \in Of("recv"), RecvFindsNoBuffer(op) PROVE InStep'
  <2>1. PICK res : res = ENOBUFS /\ res \in Int
    BY <1>0
  <2>2. Completes(op, res, 0, FALSE) /\ UNCHANGED <<pool, content, table, accepted, read, echoed>>
    BY <1>4, <2>1 DEF RecvFindsNoBuffer, network, buffers
  <2>3. op \in flight /\ op.op = "recv"
    BY DEF Of
  <2>4. Len(echoed[table[op.fd]]) = read[table[op.fd]]
    BY <2>3, CompletesHere DEF Asked
  <2>5. \A e : e.op = op /\ e.res = res => Answered(e)
    BY <1>0, <2>1, <2>3, <2>4 DEF Answered
  <2> QED
    BY <1>0, <1>1, <2>1, <2>5, <2>2
<1>5. ASSUME NEW c \in Conns, Received(c) PROVE InStep'
  <2>1. PICK op \in Of("recv"), n \in 1 .. BUF_SIZE, more \in BOOLEAN :
          RecvCompletes(op, n, more) \/ RecvFindsNoBuffer(op)
    BY <1>5 DEF Received
  <2> QED
    BY <1>4, <2>1, RecvOrder
<1>6. ASSUME NEW c \in Conns, Sent(c) PROVE InStep'
  BY <1>6, SendOrder DEF Sent
<1>7. ASSUME NEW op \in flight, op.op \in {"recv", "send"}, NEW res \in {0, FAILED}, OpFails(op, res),
             res = 0 => op.op = "recv", res = FAILED => op.op = "send"
      PROVE  InStep'
  <2>1. /\ Completes(op, res, 0, FALSE)
        /\ UNCHANGED <<pool, content, table, accepted, read, echoed>>
    BY <1>7 DEF OpFails, buffers
  <2>2. res \in Int /\ res <= 0
    BY <1>0
  <2>3. op.op = "recv" => Len(echoed[table[op.fd]]) = read[table[op.fd]]
    BY <1>7, CompletesHere DEF Asked
  <2>4. \A e : e.op = op /\ e.res = res => Answered(e)
    <3> TAKE e
    <3> HAVE e.op = op /\ e.res = res
    <3>1. ~(e.res > 0) /\ e.op.op # "accept"
      BY <1>7, <2>2
    <3>2. e.op.op = "recv" => Len(echoed[table[e.op.fd]]) = read[table[e.op.fd]]
      BY <2>3
    <3> QED
      BY <3>1, <3>2 DEF Answered
  <2> QED
    BY <1>0, <1>1, <2>1, <2>4, <2>2
<1> QED
  BY <1>0, <1>2, <1>3, <1>5, <1>6, <1>7 DEF Of

\* Between the batches nothing moves.
LEMMA StillOrder ==
  ASSUME OrderInv, UNCHANGED <<up, multishot, sq, flight, cq, content, table, accepted, read, echoed>>
  PROVE  OrderInv'
<1>1. /\ \A op : Asked(op)' <=> Asked(op)
      /\ \A e : Answered(e)' <=> Answered(e)
  BY DEF Asked, Answered, Numbered
<1>2. InOrder => InOrder'
  BY DEF InOrder
<1>3. InStep => InStep'
  BY <1>1, <1>2 DEF InStep
<1> QED
  BY <1>2, <1>3 DEF OrderInv

\* Every step.  When the process has ended nothing is sent any more.
LEMMA NextOrder == ASSUME BufferInv, ClientInv, OrderInv, Next PROVE OrderInv'
<1> SUFFICES ASSUME ~multishot' PROVE InOrder' /\ (up' => InStep')
  BY DEF OrderInv
<1>1. up /\ multishot' = multishot
  <2>1. CASE SubmitNext \/ Submitted \/ Collect
    BY <2>1 DEF SubmitNext, Submitted, Collect, Wait, EndBatch
  <2>2. CASE HandleAccept \/ HandleAcceptFailed \/ HandleNoBufs \/ HandleRecvEnd \/ HandleRecv
             \/ HandleSendFailed \/ HandleSendShort \/ HandleSendDone
    BY <2>2 DEF HandleAccept, HandleAcceptFailed, HandleNoBufs, HandleRecvEnd, HandleRecv,
                HandleSendFailed, HandleSendShort, HandleSendDone, Peek
  <2>3. CASE AcceptFails \/ (\E c \in Conns, fd \in Fds, more \in BOOLEAN : Connect(c, fd, more))
             \/ (\E op \in Of("recv") : OpFails(op, 0)) \/ (\E op \in Of("send") : OpFails(op, FAILED))
    BY <2>3 DEF AcceptFails, Connect, OpFails, Completes
  <2>4. ASSUME NEW c \in Conns, Received(c) \/ Sent(c) PROVE up /\ multishot' = multishot
    BY <2>4 DEF Received, Sent, RecvCompletes, RecvFindsNoBuffer, SendCompletes, Completes
  <2> QED
    BY <2>1, <2>2, <2>3, <2>4 DEF Next, Server
<1>2. ~multishot /\ InStep /\ SingleInv
  BY <1>1 DEF OrderInv, ClientInv
<1>3. InStep' => InOrder'
  BY DEF InStep
<1>4. CASE Submitted \/ Collect
  <2>1. UNCHANGED <<up, multishot, sq, flight, cq, content, table, accepted, read, echoed>>
    BY <1>4 DEF Submitted, Collect, Wait, EndBatch, network, buffers
  <2>2. OrderInv'
    BY <2>1, StillOrder
  <2> QED
    BY <2>2 DEF OrderInv
<1>5. CASE SubmitNext
  BY <1>2, <1>3, <1>5, SubmitOrder
<1>6. CASE HandleAccept \/ HandleAcceptFailed \/ HandleNoBufs \/ HandleRecvEnd \/ HandleRecv
           \/ HandleSendFailed \/ HandleSendShort \/ HandleSendDone
  <2>1. echoed' = echoed
    BY <1>6 DEF HandleAccept, HandleAcceptFailed, HandleNoBufs, HandleRecvEnd, HandleRecv,
                HandleSendFailed, HandleSendShort, HandleSendDone, network
  <2>2. InOrder'
    BY <1>2, <2>1 DEF InStep, InOrder
  <2>3. ASSUME up' PROVE InStep'
    BY <1>2, <1>6, <2>3, HandlersKeepOrder
  <2> QED
    BY <2>2, <2>3
<1>7. CASE ~Server
  <2>1. InStep'
    BY <1>2, <1>7, KernelKeepsOrder DEF Next
  <2> QED
    BY <1>3, <2>1
<1> QED
  BY <1>4, <1>5, <1>6, <1>7 DEF Server

\* At the start nothing has been received.
LEMMA InitOrder == Init => OrderInv
<1> SUFFICES ASSUME Init PROVE OrderInv
  OBVIOUS
<1>1. /\ sq = <<Acceptor>> /\ flight = {} /\ cq = << >> /\ accepted = {} /\ table = [fd \in Fds |-> 0]
      /\ read = [c \in Conns |-> 0] /\ echoed = [c \in Conns |-> << >>]
  BY DEF Init, RingInit
<1>2. /\ \A k \in 1 .. Len(sq) : sq[k] = Acceptor
      /\ 1 .. Len(cq) = {}
  BY <1>1
<1>3. Asked(Acceptor)
  BY OperationKinds DEF Asked
<1>4. InOrder
  <2>1. \A c \in Conns : << >> = [k \in 1 .. Len(<< >>) |-> <<c, k>>]
    OBVIOUS
  <2> QED
    BY <1>1, <2>1 DEF InOrder
<1> QED
  BY <1>1, <1>2, <1>3, <1>4 DEF OrderInv, InStep

\* Exercise 10: every connection gets back its own bytes, in order, each once, although the buffers
\* are shared, the kernel chooses among them, a send may take only part of one, and a descriptor
\* is used again for another connection as soon as it is closed.
THEOREM EchoesAlwaysInOrder == Spec => []EchoesInOrder
<1>1. Init => BufferInv /\ ClientInv /\ OrderInv
  BY InitBuffers, InitClients, InitOrder
<1>2. BufferInv /\ ClientInv /\ OrderInv /\ [Next]_vars => BufferInv' /\ ClientInv' /\ OrderInv'
  <2>1. ASSUME BufferInv, ClientInv, OrderInv, UNCHANGED vars PROVE BufferInv' /\ ClientInv' /\ OrderInv'
    <3>1. UNCHANGED <<up, sq, flight, cq, multishot, clients, pool, content, table, accepted, read,
                     echoed, pc, ready, gone>>
      BY <2>1 DEF vars, ring, buffers, network
    <3>2. pc' \in {"submit", "wait", "cqe"} /\ ready' \in Nat /\ ready' <= Len(cq)
      BY <2>1, <3>1 DEF BufferInv, ServerTypes
    <3>3. OrderInv'
      BY <2>1, <3>1, StillOrder
    <3> QED
      BY <2>1, <3>1, <3>2, <3>3, StillBuffers, StillClients
  <2> QED
    BY <2>1, NextBuffers, NextClients, NextOrder
<1>3. OrderInv => EchoesInOrder
  BY DEF OrderInv, EchoesInOrder
<1> QED
  BY <1>1, <1>2, <1>3, PTL DEF Spec
====
