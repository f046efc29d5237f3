---- MODULE FdHandover ----
(***************************************************************************)
(* What the two models of io_uring/19_multithread_echo.cpp share: the      *)
(* capacity of the queues between its threads (FdQueue) and the            *)
(* descriptors handed over through them (MultithreadEcho).                 *)
(***************************************************************************)
EXTENDS Integers, Sequences

CONSTANTS CAPACITY,   \* FdQueue::CAPACITY: slots; one of them always stays empty
          Fds         \* descriptors accept can return

ASSUME CapacityAssumption == CAPACITY \in Nat \ {0}
ASSUME FdsAssumption == Fds \subseteq Nat
====
