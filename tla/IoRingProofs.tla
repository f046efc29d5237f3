---- MODULE IoRingProofs ----
(***************************************************************************)
(* What the operations of a ring do to a group of operations of which at   *)
(* most one is pending, wherever on the ring it is: queued, with the       *)
(* kernel, or completed and not yet seen.  A client's recv and send are    *)
(* such a group, and so are the accept and the poll.                       *)
(***************************************************************************)
EXTENDS IoRing, FiniteSetTheorems, TLAPS

\* Where in a sequence of operations, and of completions, one of M is.
OpsAt(s, M) == {k \in 1 .. Len(s) : s[k] \in M}
DoneAt(c, M) == {k \in 1 .. Len(c) : c[k].op \in M}

\* No operation of M is pending ...
Absent(M) == OpsAt(sq, M) = {} /\ flight \cap M = {} /\ DoneAt(cq, M) = {}

\* ... or at most one is, in one place.
Once(M) ==
  /\ \A j, k \in OpsAt(sq, M) : j = k
  /\ \A a, b \in flight \cap M : a = b
  /\ \A j, k \in DoneAt(cq, M) : j = k
  /\ OpsAt(sq, M) # {} => flight \cap M = {} /\ DoneAt(cq, M) = {}
  /\ flight \cap M # {} => DoneAt(cq, M) = {}

\* The queues of a ring are sequences.
RingTypeOK(Operation, Completion) ==
  /\ sq \in Seq(Operation) /\ flight \subseteq Operation /\ cq \in Seq(Completion)

\* The places of a concatenation are those of its parts, the second one moved.
LEMMA ConcatAt ==
  ASSUME NEW T, NEW s \in Seq(T), NEW t \in Seq(T), NEW M
  PROVE  /\ s \o t \in Seq(T)
         /\ OpsAt(s, M) \subseteq OpsAt(s \o t, M)
         /\ \A k \in OpsAt(t, M) : k + Len(s) \in OpsAt(s \o t, M)
         /\ \A k \in OpsAt(s \o t, M) : k \in OpsAt(s, M) \/ k - Len(s) \in OpsAt(t, M)
         /\ OpsAt(t, M) = {} => OpsAt(s \o t, M) = OpsAt(s, M)
         /\ DoneAt(s, M) \subseteq DoneAt(s \o t, M)
         /\ \A k \in DoneAt(t, M) : k + Len(s) \in DoneAt(s \o t, M)
         /\ \A k \in DoneAt(s \o t, M) : k \in DoneAt(s, M) \/ k - Len(s) \in DoneAt(t, M)
         /\ DoneAt(t, M) = {} => DoneAt(s \o t, M) = DoneAt(s, M)
<1>1. /\ s \o t \in Seq(T) /\ Len(s \o t) = Len(s) + Len(t)
      /\ Len(s) \in Nat /\ Len(t) \in Nat
      /\ \A k \in 1 .. Len(s) : (s \o t)[k] = s[k]
      /\ \A k \in 1 .. Len(t) : (s \o t)[k + Len(s)] = t[k]
      /\ \A k \in 1 .. Len(s) + Len(t) :
           k > Len(s) => k - Len(s) \in 1 .. Len(t) /\ (s \o t)[k] = t[k - Len(s)]
  OBVIOUS
<1>2. OpsAt(s, M) \subseteq OpsAt(s \o t, M) /\ DoneAt(s, M) \subseteq DoneAt(s \o t, M)
  BY <1>1 DEF OpsAt, DoneAt
<1>3. /\ \A k \in OpsAt(t, M) : k + Len(s) \in OpsAt(s \o t, M)
      /\ \A k \in DoneAt(t, M) : k + Len(s) \in DoneAt(s \o t, M)
  BY <1>1 DEF OpsAt, DoneAt
<1>4. /\ \A k \in OpsAt(s \o t, M) : k \in OpsAt(s, M) \/ k - Len(s) \in OpsAt(t, M)
      /\ \A k \in DoneAt(s \o t, M) : k \in DoneAt(s, M) \/ k - Len(s) \in DoneAt(t, M)
  BY <1>1 DEF OpsAt, DoneAt
<1> QED
  BY <1>1, <1>2, <1>3, <1>4

\* Appending an element adds its place.
LEMMA AppendAt ==
  ASSUME NEW T, NEW s \in Seq(T), NEW e \in T, NEW M
  PROVE  /\ Append(s, e) \in Seq(T)
         /\ OpsAt(Append(s, e), M) = OpsAt(s, M) \cup (IF e \in M THEN {Len(s) + 1} ELSE {})
         /\ DoneAt(Append(s, e), M) = DoneAt(s, M) \cup (IF e.op \in M THEN {Len(s) + 1} ELSE {})
<1>1. /\ Append(s, e) \in Seq(T) /\ Len(Append(s, e)) = Len(s) + 1 /\ Len(s) \in Nat
      /\ \A k \in 1 .. Len(s) : Append(s, e)[k] = s[k]
      /\ Append(s, e)[Len(s) + 1] = e
      /\ 1 .. Len(s) + 1 = (1 .. Len(s)) \cup {Len(s) + 1}
  OBVIOUS
<1> QED
  BY <1>1 DEF OpsAt, DoneAt

\* Taking the first element moves the others by one.
LEMMA TailAt ==
  ASSUME NEW T, NEW s \in Seq(T), s # << >>, NEW M
  PROVE  /\ Tail(s) \in Seq(T) /\ Head(s) \in T /\ Head(s) = s[1]
         /\ \A k \in OpsAt(Tail(s), M) : k \in Nat \ {0} /\ k + 1 \in OpsAt(s, M)
         /\ \A k \in OpsAt(s, M) : k = 1 \/ k - 1 \in OpsAt(Tail(s), M)
         /\ \A k \in DoneAt(Tail(s), M) : k \in Nat \ {0} /\ k + 1 \in DoneAt(s, M)
         /\ \A k \in DoneAt(s, M) : k = 1 \/ k - 1 \in DoneAt(Tail(s), M)
         /\ 1 \in OpsAt(s, M) <=> Head(s) \in M
         /\ 1 \in DoneAt(s, M) <=> Head(s).op \in M
<1>1. /\ Tail(s) \in Seq(T) /\ Len(Tail(s)) = Len(s) - 1 /\ Len(s) \in Nat \ {0}
      /\ \A k \in 1 .. Len(s) - 1 : Tail(s)[k] = s[k + 1]
      /\ Head(s) = s[1] /\ Head(s) \in T
  OBVIOUS
<1>2. /\ \A k \in OpsAt(Tail(s), M) : k \in Nat \ {0} /\ k + 1 \in OpsAt(s, M)
      /\ \A k \in DoneAt(Tail(s), M) : k \in Nat \ {0} /\ k + 1 \in DoneAt(s, M)
  BY <1>1 DEF OpsAt, DoneAt
<1>3. /\ \A k \in OpsAt(s, M) : k = 1 \/ k - 1 \in OpsAt(Tail(s), M)
      /\ \A k \in DoneAt(s, M) : k = 1 \/ k - 1 \in DoneAt(Tail(s), M)
  <2>1. \A k \in 1 .. Len(s) : k = 1 \/ (k - 1 \in 1 .. Len(s) - 1 /\ Tail(s)[k - 1] = s[k])
    BY <1>1
  <2> QED
    BY <1>1, <2>1 DEF OpsAt, DoneAt
<1>4. (1 \in OpsAt(s, M) <=> Head(s) \in M) /\ (1 \in DoneAt(s, M) <=> Head(s).op \in M)
  BY <1>1 DEF OpsAt, DoneAt
<1> QED
  BY <1>1, <1>2, <1>3, <1>4

\* The places of no, one and two operations in what is prepared.
LEMMA PlacesOfNone == ASSUME NEW M PROVE OpsAt(<< >>, M) = {}
BY DEF OpsAt

\* See PlacesOfNone.
LEMMA PlaceOfOne == ASSUME NEW a, NEW M PROVE OpsAt(<<a>>, M) = IF a \in M THEN {1} ELSE {}
BY DEF OpsAt

\* See PlacesOfNone.
LEMMA PlacesOfTwo ==
  ASSUME NEW a, NEW b, NEW M
  PROVE  OpsAt(<<a, b>>, M) = (IF a \in M THEN {1} ELSE {}) \cup (IF b \in M THEN {2} ELSE {})
<1>1. 1 .. 2 = {1, 2}
  OBVIOUS
<1> QED
  BY <1>1 DEF OpsAt

\* The completions after the one that is seen, and before the one that is added.
LEMMA TailEntries ==
  ASSUME NEW Completion, cq \in Seq(Completion), cq # << >>, cq' = Tail(cq)
  PROVE  \A k \in 1 .. Len(cq') : k + 1 \in 1 .. Len(cq) /\ cq'[k] = cq[k + 1] /\ k + 1 # 1
<1>1. Len(cq') = Len(cq) - 1 /\ Len(cq) \in Nat /\ \A k \in 1 .. Len(cq) - 1 : Tail(cq)[k] = cq[k + 1]
  OBVIOUS
<1> QED
  BY <1>1

\* See TailEntries.
LEMMA AppendEntries ==
  ASSUME NEW Completion, cq \in Seq(Completion), NEW c \in Completion, cq' = Append(cq, c)
  PROVE  \A k \in 1 .. Len(cq') : (k \in 1 .. Len(cq) /\ cq'[k] = cq[k]) \/ cq'[k] = c
OBVIOUS

----
\* What a handler finds at the head of the completion queue.
LEMMA PeekRing ==
  ASSUME NEW Operation, RingTypeOK(Operation, [op : Operation, res : Int]),
         ready \in Nat, ready <= Len(cq), NEW kind, Peek(kind)
  PROVE  /\ up /\ pc = "cqe" /\ ready \in Nat \ {0} /\ cq # << >>
         /\ Head(cq) = cq[1] /\ 1 \in 1 .. Len(cq)
         /\ Op \in Operation /\ Res \in Int /\ Op = cq[1].op /\ Res = cq[1].res /\ Op.op = kind
<1>1. PICK T : T = [op : Operation, res : Int] /\ cq \in Seq(T)
  BY DEF RingTypeOK
<1>2. Len(cq) \in Nat /\ ready \in Nat /\ ready > 0 /\ ready <= Len(cq)
  BY <1>1 DEF Peek
<1>3. cq # << >> /\ Head(cq) = cq[1] /\ 1 \in 1 .. Len(cq) /\ Head(cq) \in T
  <2>1. cq \in Seq(T) /\ Len(cq) > 0
    BY <1>1, <1>2
  <2>2. \A s \in Seq(T) : Len(s) > 0 => s # << >> /\ Head(s) = s[1] /\ 1 \in 1 .. Len(s) /\ s[1] \in T
    OBVIOUS
  <2> QED
    BY <2>1, <2>2
<1> QED
  BY <1>1, <1>2, <1>3 DEF Peek, Op, Res

\* get_sqe queues all of the operations or ends the process.
LEMMA PrepareRing ==
  ASSUME NEW Operation, sq \in Seq(Operation), Len(sq) <= SqDepth, up,
         NEW ops \in Seq(Operation), Prepare(ops)
  PROVE  /\ sq' \in Seq(Operation) /\ Len(sq') <= SqDepth /\ Len(sq) <= Len(sq')
         /\ up' \in BOOLEAN
         /\ up' => up /\ sq' = sq \o ops
         /\ ~up' => sq' = sq
         /\ Len(sq) + Len(ops) <= SqDepth => up'
<1>0. sq \in Seq(Operation) /\ Len(sq) <= SqDepth
  OBVIOUS
<1>1. CASE Len(sq) + Len(ops) <= SqDepth
  <2>1. sq' = sq \o ops /\ up' = up
    BY <1>1 DEF Prepare
  <2>2. up' = TRUE
    BY <2>1
  <2>4. sq' \in Seq(Operation) /\ Len(sq') = Len(sq) + Len(ops) /\ Len(ops) \in Nat
    BY <1>0, <2>1
  <2> QED
    BY <1>0, <1>1, <2>1, <2>2, <2>4
<1>2. CASE ~(Len(sq) + Len(ops) <= SqDepth)
  <2>1. sq' = sq /\ up' = FALSE
    BY <1>2 DEF Prepare
  <2>2. ~up' /\ up' \in BOOLEAN
    BY <2>1
  <2>3. sq' \in Seq(Operation) /\ Len(sq') <= SqDepth /\ Len(sq) <= Len(sq')
    BY <1>0, <2>1
  <2> QED
    BY <1>2, <2>1, <2>2, <2>3
<1> QED
  BY <1>1, <1>2

\* The kernel takes the first entry of the submission queue, as it is or as o, what it
\* makes of it.
LEMMA TakeAsOnce ==
  ASSUME NEW Operation, NEW Completion, RingTypeOK(Operation, Completion),
         NEW M, Once(M), sq # << >>,
         NEW o, o \in M <=> Head(sq) \in M,
         flight' = flight \cup {o}, sq' = Tail(sq), cq' = cq
  PROVE  Once(M)' /\ (Absent(M)' <=> Absent(M))
<1>1. sq \in Seq(Operation)
  BY DEF RingTypeOK
<1>2. /\ \A k \in OpsAt(sq', M) : k \in Nat \ {0} /\ k + 1 \in OpsAt(sq, M)
      /\ \A k \in OpsAt(sq, M) : k = 1 \/ k - 1 \in OpsAt(sq', M)
      /\ 1 \in OpsAt(sq, M) <=> Head(sq) \in M
  BY <1>1, TailAt
<1>3. DoneAt(cq', M) = DoneAt(cq, M)
  OBVIOUS
<1>4. CASE Head(sq) \in M
  <2>1. OpsAt(sq', M) = {}
    BY <1>2, <1>4 DEF Once
  <2>2. flight \cap M = {} /\ DoneAt(cq, M) = {} /\ ~Absent(M)
    BY <1>2, <1>4 DEF Once, Absent
  <2>3. flight' \cap M = {o}
    BY <1>4, <2>2
  <2> QED
    BY <1>3, <2>1, <2>2, <2>3 DEF Once, Absent
<1>5. CASE Head(sq) \notin M
  <2>1. flight' \cap M = flight \cap M
    BY <1>5
  <2>2. OpsAt(sq', M) = {} <=> OpsAt(sq, M) = {}
    BY <1>2, <1>5
  <2>3. \A j, k \in OpsAt(sq', M) : j = k
    BY <1>2 DEF Once
  <2> QED
    BY <1>3, <2>1, <2>2, <2>3 DEF Once, Absent
<1> QED
  BY <1>4, <1>5

\* See TakeAsOnce.
LEMMA TakeOnce ==
  ASSUME NEW Operation, NEW Completion, RingTypeOK(Operation, Completion),
         NEW M, Once(M), sq # << >>,
         flight' = flight \cup {Head(sq)}, sq' = Tail(sq), cq' = cq
  PROVE  Once(M)' /\ (Absent(M)' <=> Absent(M))
BY TakeAsOnce

\* A completion of an operation that goes on.
LEMMA MoreOnce ==
  ASSUME NEW Operation, NEW Completion, RingTypeOK(Operation, Completion),
         NEW M, Once(M), NEW c \in Completion, c.op \notin M,
         flight' = flight, cq' = Append(cq, c), sq' = sq
  PROVE  Once(M)' /\ (Absent(M)' <=> Absent(M))
<1>1. DoneAt(cq', M) = DoneAt(cq, M) \cup (IF c.op \in M THEN {Len(cq) + 1} ELSE {})
  BY AppendAt DEF RingTypeOK
<1>2. OpsAt(sq', M) = OpsAt(sq, M) /\ flight' \cap M = flight \cap M
  OBVIOUS
<1> QED
  BY <1>1, <1>2 DEF Once, Absent

\* The kernel takes all of them.
LEMMA SubmitOnce ==
  ASSUME NEW Operation, NEW Completion, RingTypeOK(Operation, Completion),
         NEW M, Once(M),
         flight' = flight \cup ToSet(sq), sq' = << >>, cq' = cq
  PROVE  Once(M)' /\ (Absent(M)' <=> Absent(M))
<1>1. sq \in Seq(Operation)
  BY DEF RingTypeOK
<1>2. OpsAt(sq', M) = {} /\ DoneAt(cq', M) = DoneAt(cq, M)
  BY DEF OpsAt
<1>3. /\ \A a \in ToSet(sq) \cap M : \E k \in OpsAt(sq, M) : a = sq[k]
      /\ \A k \in OpsAt(sq, M) : sq[k] \in ToSet(sq) \cap M
  BY <1>1 DEF ToSet, OpsAt
<1>4. CASE OpsAt(sq, M) = {}
  <2>1. flight' \cap M = flight \cap M
    BY <1>3, <1>4
  <2> QED
    BY <1>2, <1>4, <2>1 DEF Once, Absent
<1>5. CASE OpsAt(sq, M) # {}
  <2>1. flight \cap M = {} /\ DoneAt(cq, M) = {} /\ ~Absent(M)
    BY <1>5 DEF Once, Absent
  <2>2. \A a, b \in flight' \cap M : a = b
    BY <1>3, <2>1 DEF Once
  <2>3. flight' \cap M # {}
    BY <1>3, <1>5
  <2> QED
    BY <1>2, <2>1, <2>2, <2>3 DEF Once, Absent
<1> QED
  BY <1>4, <1>5

\* The kernel completes an operation it has ...
LEMMA CompleteOnce ==
  ASSUME NEW Operation, NEW Completion, RingTypeOK(Operation, Completion),
         NEW M, Once(M), NEW op \in flight, NEW c \in Completion, c.op = op,
         flight' = flight \ {op}, cq' = Append(cq, c), sq' = sq
  PROVE  Once(M)' /\ (Absent(M)' <=> Absent(M))
<1>1. DoneAt(cq', M) = DoneAt(cq, M) \cup (IF op \in M THEN {Len(cq) + 1} ELSE {})
  BY AppendAt DEF RingTypeOK
<1>2. OpsAt(sq', M) = OpsAt(sq, M)
  OBVIOUS
<1>3. CASE op \in M
  <2>1. flight \cap M = {op}
    BY <1>3 DEF Once
  <2>2. OpsAt(sq, M) = {} /\ DoneAt(cq, M) = {} /\ ~Absent(M)
    BY <2>1 DEF Once, Absent
  <2>3. flight' \cap M = {} /\ DoneAt(cq', M) = {Len(cq) + 1}
    BY <1>1, <1>3, <2>1, <2>2
  <2> QED
    BY <1>2, <2>2, <2>3 DEF Once, Absent
<1>4. CASE op \notin M
  <2>1. flight' \cap M = flight \cap M /\ DoneAt(cq', M) = DoneAt(cq, M)
    BY <1>1, <1>4
  <2> QED
    BY <1>2, <2>1 DEF Once, Absent
<1> QED
  BY <1>3, <1>4

\* ... or one that does not have to wait as soon as it is submitted.
LEMMA CompleteAtOnce ==
  ASSUME NEW Operation, NEW Completion, RingTypeOK(Operation, Completion),
         NEW M, Once(M), sq # << >>, NEW c \in Completion, c.op = Head(sq),
         flight' = flight, cq' = Append(cq, c), sq' = Tail(sq)
  PROVE  Once(M)' /\ (Absent(M)' <=> Absent(M))
<1>1. DoneAt(cq', M) = DoneAt(cq, M) \cup (IF Head(sq) \in M THEN {Len(cq) + 1} ELSE {})
  BY AppendAt DEF RingTypeOK
<1>2. sq \in Seq(Operation)
  BY DEF RingTypeOK
<1>3. /\ \A k \in OpsAt(sq', M) : k \in Nat \ {0} /\ k + 1 \in OpsAt(sq, M)
      /\ \A k \in OpsAt(sq, M) : k = 1 \/ k - 1 \in OpsAt(sq', M)
      /\ 1 \in OpsAt(sq, M) <=> Head(sq) \in M
  BY <1>2, TailAt
<1>4. CASE Head(sq) \in M
  <2>1. OpsAt(sq', M) = {}
    BY <1>3, <1>4 DEF Once
  <2>2. flight \cap M = {} /\ DoneAt(cq, M) = {} /\ ~Absent(M)
    BY <1>3, <1>4 DEF Once, Absent
  <2>3. flight' \cap M = {} /\ DoneAt(cq', M) = {Len(cq) + 1}
    BY <1>1, <1>4, <2>2
  <2> QED
    BY <2>1, <2>2, <2>3 DEF Once, Absent
<1>5. CASE Head(sq) \notin M
  <2>1. flight' \cap M = flight \cap M /\ DoneAt(cq', M) = DoneAt(cq, M)
    BY <1>1, <1>5
  <2>2. OpsAt(sq', M) = {} <=> OpsAt(sq, M) = {}
    BY <1>3, <1>5
  <2>3. \A j, k \in OpsAt(sq', M) : j = k
    BY <1>3 DEF Once
  <2> QED
    BY <2>1, <2>2, <2>3 DEF Once, Absent
<1> QED
  BY <1>4, <1>5

\* A completion is seen, and ops are prepared: one of M only if the
\* completion was of M or none of M was pending.
LEMMA SeenOnce ==
  ASSUME NEW Operation, NEW Completion, RingTypeOK(Operation, Completion),
         NEW M, Once(M), cq # << >>, NEW ops \in Seq(Operation),
         \A j, k \in OpsAt(ops, M) : j = k,
         OpsAt(ops, M) # {} => Head(cq).op \in M \/ Absent(M),
         flight' = flight, cq' = Tail(cq), sq' = sq \o ops
  PROVE  /\ Once(M)'
         /\ OpsAt(ops, M) # {} => ~Absent(M)'
         /\ OpsAt(ops, M) = {} /\ Head(cq).op \in M => Absent(M)'
         /\ OpsAt(ops, M) = {} /\ Head(cq).op \notin M => (Absent(M)' <=> Absent(M))
<1>1. sq \in Seq(Operation) /\ cq \in Seq(Completion)
  BY DEF RingTypeOK
<1>2. /\ \A k \in DoneAt(cq', M) : k \in Nat \ {0} /\ k + 1 \in DoneAt(cq, M)
      /\ \A k \in DoneAt(cq, M) : k = 1 \/ k - 1 \in DoneAt(cq', M)
      /\ 1 \in DoneAt(cq, M) <=> Head(cq).op \in M
  BY <1>1, TailAt
<1>3. /\ OpsAt(sq, M) \subseteq OpsAt(sq', M)
      /\ \A k \in OpsAt(ops, M) : k + Len(sq) \in OpsAt(sq', M)
      /\ \A k \in OpsAt(sq', M) : k \in OpsAt(sq, M) \/ k - Len(sq) \in OpsAt(ops, M)
      /\ OpsAt(ops, M) = {} => OpsAt(sq', M) = OpsAt(sq, M)
  BY <1>1, ConcatAt
<1>4. \A j, k \in DoneAt(cq', M) : j = k
  BY <1>2 DEF Once
<1>5. CASE Head(cq).op \in M \/ (Absent(M) /\ OpsAt(ops, M) # {})
  <2>1. OpsAt(sq, M) = {} /\ flight' \cap M = {} /\ DoneAt(cq', M) = {}
    BY <1>2, <1>5 DEF Once, Absent
  <2>2. \A j, k \in OpsAt(sq', M) : j = k
    <3>1. \A k \in OpsAt(sq', M) : k \in Nat /\ k - Len(sq) \in OpsAt(ops, M)
      BY <1>3, <2>1 DEF OpsAt
    <3> QED
      BY <1>1, <3>1
  <2> QED
    BY <1>2, <1>3, <1>5, <2>1, <2>2 DEF Once, Absent
<1>6. CASE OpsAt(ops, M) = {} /\ Head(cq).op \notin M
  <2>1. OpsAt(sq', M) = OpsAt(sq, M) /\ flight' \cap M = flight \cap M
    BY <1>3, <1>6
  <2>2. DoneAt(cq', M) = {} <=> DoneAt(cq, M) = {}
    BY <1>2, <1>6
  <2> QED
    BY <1>4, <1>6, <2>1, <2>2 DEF Once, Absent
<1> QED
  BY <1>5, <1>6

----
\* The cardinality of a set without two different elements.
LEMMA AtMostOne ==
  ASSUME NEW S, \A x, y \in S : x = y
  PROVE  Cardinality(S) = IF S = {} THEN 0 ELSE 1
<1>1. CASE S = {}
  BY <1>1, FS_EmptySet
<1>2. CASE S # {}
  <2>1. PICK x \in S : TRUE
    BY <1>2
  <2>2. S = {x}
    BY <2>1
  <2> QED
    BY <1>2, <2>2, FS_Singleton
<1> QED
  BY <1>1, <1>2

\* Counted with PendingTimes, one of the two operations of a group is pending
\* once, or none is.
LEMMA OnceCounts ==
  ASSUME NEW Operation, NEW Completion, RingTypeOK(Operation, Completion),
         NEW a, NEW b, a # b, Once({a, b})
  PROVE  PendingTimes(a) + PendingTimes(b) = IF Absent({a, b}) THEN 0 ELSE 1
<1> DEFINE S(op) == {k \in DOMAIN sq : sq[k] = op}
           F(op) == IF op \in flight THEN 1 ELSE 0
           C(op) == {k \in DOMAIN cq : cq[k].op = op}
<1>1. OpsAt(sq, {a, b}) = S(a) \cup S(b) /\ DoneAt(cq, {a, b}) = C(a) \cup C(b)
  BY DEF RingTypeOK, OpsAt, DoneAt
<1>2. /\ \A j, k \in S(a) \cup S(b) : j = k
      /\ \A j, k \in C(a) \cup C(b) : j = k
      /\ ~(a \in flight /\ b \in flight)
      /\ S(a) \cup S(b) # {} => a \notin flight /\ b \notin flight /\ C(a) \cup C(b) = {}
      /\ a \in flight \/ b \in flight => C(a) \cup C(b) = {}
      /\ Absent({a, b}) <=> S(a) \cup S(b) = {} /\ a \notin flight /\ b \notin flight
                            /\ C(a) \cup C(b) = {}
  BY <1>1 DEF Once, Absent
<1>3. S(a) \cap S(b) = {} /\ C(a) \cap C(b) = {}
  OBVIOUS
<1>4. /\ Cardinality(S(a)) = IF S(a) = {} THEN 0 ELSE 1
      /\ Cardinality(S(b)) = IF S(b) = {} THEN 0 ELSE 1
      /\ Cardinality(C(a)) = IF C(a) = {} THEN 0 ELSE 1
      /\ Cardinality(C(b)) = IF C(b) = {} THEN 0 ELSE 1
  <2> HIDE DEF S, C
  <2> QED
    BY <1>2, AtMostOne
<1>5. /\ PendingTimes(a) = Cardinality(S(a)) + F(a) + Cardinality(C(a))
      /\ PendingTimes(b) = Cardinality(S(b)) + F(b) + Cardinality(C(b))
  BY DEF PendingTimes
<1>6. ~(S(a) # {} /\ S(b) # {}) /\ ~(C(a) # {} /\ C(b) # {})
  <2> HIDE DEF S, C
  <2> QED
    BY <1>2, <1>3
<1> QED
  <2> HIDE DEF S, C
  <2> QED
    BY <1>2, <1>4, <1>5, <1>6

\* A queue in which no two entries have the same owner is no longer than there
\* are owners.
LEMMA OwnersBound ==
  ASSUME NEW n \in Nat, NEW K, IsFiniteSet(K), NEW g \in [1 .. n -> K],
         \A j, k \in 1 .. n : g[j] = g[k] => j = k
  PROVE  n <= Cardinality(K)
<1>1. IsFiniteSet(1 .. n) /\ Cardinality(1 .. n) = n /\ Cardinality(K) \in Nat
  BY FS_Interval, FS_CardinalityType
<1>2. ~(Cardinality(K) < Cardinality(1 .. n))
  BY <1>1, FS_PigeonHole
<1> QED
  BY <1>1, <1>2

\* SetToSeq lists every element of a finite set once.
LEMMA SetToSeqLists ==
  ASSUME NEW S, IsFiniteSet(S)
  PROVE  /\ SetToSeq(S) \in Seq(S) /\ Len(SetToSeq(S)) = Cardinality(S)
         /\ \A j, k \in 1 .. Len(SetToSeq(S)) : SetToSeq(S)[j] = SetToSeq(S)[k] => j = k
         /\ \A k \in 1 .. Len(SetToSeq(S)) : SetToSeq(S)[k] \in S
         /\ \A x \in S : \E k \in 1 .. Len(SetToSeq(S)) : SetToSeq(S)[k] = x
<1> DEFINE n == Cardinality(S)
           s == SetToSeq(S)
<1>1. n \in Nat /\ ExistsBijection(1 .. n, S)
  BY FS_CardinalityType
<1>2. \E f \in [1 .. n -> S] : IsInjective(f)
  BY <1>1 DEF ExistsBijection, Bijection, Injection
<1>3. s \in [1 .. n -> S] /\ IsInjective(s)
  BY <1>2 DEF SetToSeq
<1> HIDE DEF s
<1>4. s \in Seq(S) /\ Len(s) = n
  BY <1>1, <1>3
<1>5. s \in Injection(1 .. n, S)
  BY <1>3 DEF Injection
<1>6. IsFiniteSet(1 .. n) /\ Cardinality(1 .. n) = n
  BY <1>1, FS_Interval
<1>7. s \in Surjection(1 .. n, S)
  BY <1>5, <1>6, FS_Injection
<1>8. /\ \A j, k \in 1 .. Len(s) : s[j] = s[k] => j = k
      /\ \A k \in 1 .. Len(s) : s[k] \in S
      /\ \A x \in S : \E k \in 1 .. Len(s) : s[k] = x
  BY <1>3, <1>4, <1>7 DEF IsInjective, Surjection
<1> QED
  BY <1>4, <1>8 DEF s

\* The image of a finite set under a one-to-one function has as many elements.
LEMMA ImageOneToOne ==
  ASSUME NEW S, IsFiniteSet(S), NEW T, NEW f \in [S -> T],
         \A x, y \in S : f[x] = f[y] => x = y,
         \A t \in T : \E x \in S : f[x] = t
  PROVE  IsFiniteSet(T) /\ Cardinality(T) = Cardinality(S)
<1>1. f \in Bijection(S, T)
  BY DEF Bijection, Injection, Surjection, IsInjective
<1> QED
  BY <1>1, FS_Bijection DEF ExistsBijection

\* list is a list of completions, one for every operation in hit.
Lists(list, hit) ==
  /\ \A j, k \in 1 .. Len(list) : list[j].op = list[k].op => j = k
  /\ \A k \in 1 .. Len(list) : list[k].op \in hit
  /\ \A op \in hit : \E k \in 1 .. Len(list) : list[k].op = op

\* An entry of the submission queue that completes at once, and completes
\* others with it: those of the group are all in its list.
LEMMA CancelOnce ==
  ASSUME NEW Operation, NEW Completion, RingTypeOK(Operation, Completion),
         NEW M, Once(M), sq # << >>, NEW hit \in SUBSET flight,
         NEW list \in Seq(Completion), NEW c \in Completion, c.op = Head(sq),
         Lists(list, hit), flight' = flight \ hit, cq' = Append(cq \o list, c), sq' = Tail(sq)
  PROVE  Once(M)' /\ (Absent(M)' <=> Absent(M))
<1>1. sq \in Seq(Operation) /\ cq \in Seq(Completion)
  BY DEF RingTypeOK
<1>2. PICK both \in Seq(Completion) : both = cq \o list
  BY <1>1, ConcatAt
<1>3. /\ DoneAt(cq, M) \subseteq DoneAt(both, M)
      /\ \A k \in DoneAt(list, M) : k + Len(cq) \in DoneAt(both, M)
      /\ \A k \in DoneAt(both, M) : k \in DoneAt(cq, M) \/ k - Len(cq) \in DoneAt(list, M)
      /\ DoneAt(list, M) = {} => DoneAt(both, M) = DoneAt(cq, M)
  BY <1>1, <1>2, ConcatAt
<1>4. DoneAt(cq', M) = DoneAt(both, M) \cup (IF Head(sq) \in M THEN {Len(both) + 1} ELSE {})
  <2>1. cq' = Append(both, c)
    BY <1>2
  <2>2. DoneAt(Append(both, c), M) = DoneAt(both, M) \cup (IF c.op \in M THEN {Len(both) + 1} ELSE {})
    BY AppendAt
  <2> QED
    BY <2>1, <2>2
<1>5. /\ \A k \in OpsAt(sq', M) : k \in Nat \ {0} /\ k + 1 \in OpsAt(sq, M)
      /\ \A k \in OpsAt(sq, M) : k = 1 \/ k - 1 \in OpsAt(sq', M)
      /\ 1 \in OpsAt(sq, M) <=> Head(sq) \in M
  BY <1>1, TailAt
<1>6. DoneAt(list, M) = {} <=> hit \cap M = {}
  <2>1. \A k \in DoneAt(list, M) : list[k].op \in hit \cap M
    BY DEF DoneAt, Lists
  <2>2. ASSUME NEW op \in hit \cap M PROVE \E k \in DoneAt(list, M) : TRUE
    BY <2>2 DEF DoneAt, Lists
  <2> QED
    BY <2>1, <2>2
<1>7. CASE Head(sq) \in M
  <2>1. OpsAt(sq', M) = {}
    BY <1>5, <1>7 DEF Once
  <2>2. flight \cap M = {} /\ DoneAt(cq, M) = {} /\ ~Absent(M)
    BY <1>5, <1>7 DEF Once, Absent
  <2>3. DoneAt(both, M) = {}
    BY <1>3, <1>6, <2>2
  <2>4. flight' \cap M = {} /\ DoneAt(cq', M) = {Len(both) + 1}
    BY <1>4, <1>7, <2>2, <2>3
  <2> QED
    BY <2>1, <2>2, <2>4 DEF Once, Absent
<1>8. CASE Head(sq) \notin M
  <2>1. OpsAt(sq', M) = {} <=> OpsAt(sq, M) = {}
    BY <1>5, <1>8
  <2>2. \A j, k \in OpsAt(sq', M) : j = k
    BY <1>5 DEF Once
  <2>3. DoneAt(cq', M) = DoneAt(both, M)
    BY <1>4, <1>8
  <2>4. CASE hit \cap M = {}
    <3>1. flight' \cap M = flight \cap M /\ DoneAt(cq', M) = DoneAt(cq, M)
      BY <1>3, <1>6, <2>3, <2>4
    <3> QED
      BY <2>1, <2>2, <3>1 DEF Once, Absent
  <2>5. CASE hit \cap M # {}
    <3>1. flight \cap M # {} /\ OpsAt(sq, M) = {} /\ DoneAt(cq, M) = {} /\ ~Absent(M)
      BY <2>5 DEF Once, Absent
    <3>2. flight' \cap M = {}
      BY <2>5 DEF Once
    <3>3. \A j, k \in DoneAt(list, M) : j = k
      <4>1. \A k \in DoneAt(list, M) : k \in 1 .. Len(list) /\ list[k].op \in flight \cap M
        BY DEF DoneAt, Lists
      <4>2. \A a, b \in flight \cap M : a = b
        BY DEF Once
      <4> QED
        BY <4>1, <4>2 DEF Lists
    <3>4. \A k \in DoneAt(both, M) : k \in Nat /\ k - Len(cq) \in DoneAt(list, M)
      <4>1. \A k \in DoneAt(both, M) : k \in 1 .. Len(both)
        BY DEF DoneAt
      <4> QED
        BY <1>3, <3>1, <4>1
    <3>5. \A j, k \in DoneAt(both, M) : j = k
      <4>1. PICK n \in Nat : n = Len(cq)
        BY <1>1
      <4>2. \A k \in DoneAt(both, M) : k \in Nat /\ k - n \in DoneAt(list, M)
        BY <3>4, <4>1
      <4>3. ASSUME NEW j \in DoneAt(both, M), NEW k \in DoneAt(both, M) PROVE j = k
        <5>1. j - n = k - n /\ j \in Nat /\ k \in Nat
          BY <3>3, <4>2
        <5> QED
          BY <5>1
      <4> QED
        BY <4>3
    <3>6. DoneAt(both, M) # {}
      BY <1>3, <1>6, <2>5
    <3> QED
      BY <2>1, <2>2, <2>3, <3>1, <3>2, <3>5, <3>6 DEF Once, Absent
  <2> QED
    BY <2>4, <2>5
<1> QED
  BY <1>7, <1>8

\* A part of a group is a group.
LEMMA OncePart == ASSUME NEW M, Once(M), NEW N \in SUBSET M PROVE Once(N) /\ (Absent(M) => Absent(N))
BY DEF Once, Absent, OpsAt, DoneAt
====
