---- MODULE EchoService ----
(***************************************************************************)
(* What every echo server of io_uring/ promises its clients, and what      *)
(* io_uring/test_echo.py checks from the client's side: on one connection  *)
(* the bytes a client wrote come back in order, unchanged, each once.      *)
(*                                                                         *)
(* The bytes of a connection are numbered in the order they were written,  *)
(* so what comes back must be 1, 2, 3, ...                                 *)
(***************************************************************************)
EXTENDS Naturals, Sequences

CONSTANTS Fds, MaxBytes

VARIABLES conns,    \* connections there are, by the server's descriptor
          wrote,    \* per connection: bytes the client has written
          echoed    \* per connection: the bytes that came back

vars == <<conns, wrote, echoed>>

Init == /\ conns = {}
        /\ wrote = [fd \in Fds |-> 0]
        /\ echoed = [fd \in Fds |-> << >>]

Connect(fd) == /\ fd \notin conns
               /\ conns' = conns \cup {fd}
               /\ wrote' = [wrote EXCEPT ![fd] = 0]
               /\ echoed' = [echoed EXCEPT ![fd] = << >>]

Write(fd, n) == /\ fd \in conns /\ wrote[fd] + n <= MaxBytes
                /\ wrote' = [wrote EXCEPT ![fd] = @ + n]
                /\ UNCHANGED <<conns, echoed>>

\* The next n bytes come back.
Echo(fd, n) == /\ fd \in conns
               /\ Len(echoed[fd]) + n <= wrote[fd]
               /\ echoed' = [echoed EXCEPT ![fd] =
                               @ \o [k \in 1 .. n |-> Len(@) + k]]
               /\ UNCHANGED <<conns, wrote>>

Close(fd) == /\ fd \in conns
             /\ conns' = conns \ {fd}
             /\ UNCHANGED <<wrote, echoed>>

Next == \E fd \in Fds : \/ Connect(fd) \/ Close(fd)
                        \/ \E n \in 1 .. MaxBytes : Write(fd, n) \/ Echo(fd, n)

Spec == Init /\ [][Next]_vars
====
