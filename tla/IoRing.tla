---- MODULE IoRing ----
(***************************************************************************)
(* class Ring of io_uring/io_uring_utils.hpp as the event loops of the     *)
(* exercises use it: a bounded submission queue filled by get_sqe, the     *)
(* operations the kernel has taken, and the completions in the order in    *)
(* which they were posted.                                                 *)
(*                                                                         *)
(* The kernel side is external.  The completion queue holds twice as many  *)
(* entries as the submission queue and the kernel keeps what overflows it, *)
(* so a completion is never lost.                                          *)
(***************************************************************************)
EXTENDS Integers, Sequences, FiniteSets, SequencesExt

CONSTANT SqDepth     \* entries of the submission queue
ASSUME SqDepthAssumption == SqDepth \in Nat \ {0}

VARIABLES up,        \* FALSE once an exception has ended the process
          pc,        \* the event loop: "submit", "wait" or "cqe"
          sq,        \* operations prepared and not yet submitted
          flight,    \* operations the kernel has
          cq,        \* completions not yet seen: [op, res], oldest first
          ready      \* completions of the current batch still to be handled

ring == <<up, pc, sq, flight, cq, ready>>

RingInit(first) == /\ up = TRUE /\ pc = "submit"
                   /\ sq = <<first>> /\ flight = {}
                   /\ cq = << >> /\ ready = 0

\* get_sqe for each of ops in turn: it throws when the submission queue is
\* full, and nothing between it and main (or std::terminate) goes on.
Prepare(ops) ==
  IF Len(sq) + Len(ops) <= SqDepth
  THEN sq' = sq \o ops /\ up' = up
  ELSE up' = FALSE /\ sq' = sq

\* submit_and_wait: everything prepared is submitted ...
Submit == /\ up /\ pc = "submit"
          /\ flight' = flight \cup ToSet(sq)
          /\ sq' = << >>
          /\ pc' = "wait"
          /\ UNCHANGED <<up, cq, ready>>

\* ... and with a completion there, it returns how many there are.
Wait == /\ up /\ pc = "wait"
        /\ cq # << >>
        /\ ready' = Len(cq)
        /\ pc' = "cqe"
        /\ UNCHANGED <<up, sq, flight, cq>>

EndBatch == /\ up /\ pc = "cqe" /\ ready = 0
            /\ pc' = "submit"
            /\ UNCHANGED <<up, sq, flight, cq, ready>>

\* peek and seen of the completion of op.
Peek(kind) == up /\ pc = "cqe" /\ ready > 0 /\ Head(cq).op.op = kind
Op == Head(cq).op
Res == Head(cq).res
Seen == /\ cq' = Tail(cq)
        /\ ready' = ready - 1
        /\ UNCHANGED <<pc, flight>>

\* The kernel finishes op with result res.
Complete(op, res) == /\ up /\ op \in flight
                     /\ flight' = flight \ {op}
                     /\ cq' = Append(cq, [op |-> op, res |-> res])
                     /\ UNCHANGED <<up, pc, sq, ready>>

\* Every operation that has been prepared and whose completion has not been
\* handled.
Pending == ToSet(sq) \cup flight \cup {cq[k].op : k \in DOMAIN cq}
PendingTimes(op) == Cardinality({k \in DOMAIN sq : sq[k] = op})
                    + (IF op \in flight THEN 1 ELSE 0)
                    + Cardinality({k \in DOMAIN cq : cq[k].op = op})
====
