---- MODULE FdChannel ----
(***************************************************************************)
(* What the accept thread and one worker of the multi-threaded echo server *)
(* expect of the queue between them: a FIFO channel that holds a bounded   *)
(* number of file descriptors and neither loses, repeats nor reorders one. *)
(***************************************************************************)
EXTENDS Naturals, Sequences

CONSTANTS Room,   \* how many descriptors fit
          Fds     \* the descriptors accept can return

VARIABLES q,      \* descriptors pushed and not yet popped, oldest first
          got     \* the descriptor the last successful pop returned

vars == <<q, got>>

Init == /\ q = << >>
        /\ got = 0

\* push(fd) returned true.
Push(fd) == /\ Len(q) < Room
            /\ q' = Append(q, fd)
            /\ got' = got

\* pop(fd) returned true.
Pop == /\ q # << >>
       /\ got' = Head(q)
       /\ q' = Tail(q)

Next == Pop \/ \E fd \in Fds : Push(fd)

Spec == Init /\ [][Next]_vars
====
