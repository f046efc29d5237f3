---- MODULE EpollEcho ----
(***************************************************************************)
(* io_uring/07_echo_server_epoll.cpp: the readiness loop over non-blocking *)
(* sockets, and the byte streams between it and its clients.               *)
(*                                                                         *)
(* A client is named by its connection: one thread handles each ready      *)
(* descriptor once per epoll_wait, so an event never meets a descriptor    *)
(* that was closed and used again, and read never finds nothing to read.   *)
(***************************************************************************)
EXTENDS Integers, Sequences, FiniteSets

CONSTANT Peers      \* bound: connections there may be
ASSUME PeersAssumption == IsFiniteSet(Peers) /\ Peers \subseteq Nat \ {0}

VARIABLES
  serving,              \* FALSE once a signal has ended the process
  events,               \* what epoll_wait returned and is not handled yet
  clients,              \* keys of the map clients
  backlog,              \* connections not accepted yet
  to_server, to_client, \* bytes written and not read, per connection
  closed, gone,         \* connections closed by the server; by the client
  shortened             \* history: a write took only part of what was echoed

stream == <<to_server, to_client>>
evars == <<serving, events, clients, backlog, stream, closed, gone, shortened>>

LISTENER == 0

EpollInit == /\ serving = TRUE /\ events = {} /\ clients = {} /\ backlog = {}
             /\ to_server = [c \in Peers |-> << >>] /\ to_client = to_server
             /\ closed = {} /\ gone = {} /\ shortened = FALSE

Ready == {LISTENER : c \in backlog}
         \cup {c \in clients : to_server[c] # << >> \/ c \in gone}
EpollWait ==
  /\ serving /\ events = {} /\ Ready # {}
  /\ events' = Ready
  /\ UNCHANGED <<serving, clients, backlog, stream, closed, gone, shortened>>

\* accept until there is nothing more, or it fails (which it does not at once:
\* descriptors do not run out).
AcceptPending ==
  /\ serving /\ LISTENER \in events
  /\ \E accepted \in SUBSET backlog \ {{}} :
       clients' = clients \cup accepted /\ backlog' = backlog \ accepted
  /\ events' = events \ {LISTENER}
  /\ UNCHANGED <<serving, stream, closed, gone, shortened>>

\* EPOLL_CTL_DEL, close, clients.erase.
CloseClient(c) == clients' = clients \ {c} /\ closed' = closed \cup {c}

\* read returns n bytes and write takes all of them.
EchoAll(c, n) ==
  /\ to_client' = [to_client EXCEPT ![c] = @ \o SubSeq(to_server[c], 1, n)]
  /\ UNCHANGED <<serving, clients, closed, shortened>>
\* write takes only k of them: the others are forgotten.
EchoPart(c, k) ==
  /\ to_client' = [to_client EXCEPT ![c] = @ \o SubSeq(to_server[c], 1, k)]
  /\ shortened' = TRUE
  /\ UNCHANGED <<serving, clients, closed>>
\* write fails, also because the socket's buffer is full.
EchoFails(c) == CloseClient(c) /\ UNCHANGED <<serving, to_client, shortened>>
\* write on a connection the client has reset raises SIGPIPE.
EchoKills(c) ==
  c \in gone /\ serving' = FALSE /\ UNCHANGED <<clients, to_client, closed, shortened>>

ReadAndEcho(c) ==
  /\ serving /\ c \in events
  /\ \E n \in 1 .. Len(to_server[c]) :
       /\ to_server' = [to_server EXCEPT ![c] = SubSeq(@, n + 1, Len(@))]
       /\ \/ EchoAll(c, n) \/ EchoFails(c) \/ EchoKills(c)
          \/ \E k \in 1 .. n - 1 : EchoPart(c, k)
  /\ events' = events \ {c}
  /\ UNCHANGED <<backlog, gone>>

\* End of file, or an error: the client has left.
ReadEnd(c) ==
  /\ serving /\ c \in events /\ c \in gone
  /\ CloseClient(c)
  /\ to_server' = [to_server EXCEPT ![c] = << >>]
  /\ events' = events \ {c}
  /\ UNCHANGED <<serving, backlog, to_client, gone, shortened>>

EpollStep == \/ EpollWait \/ AcceptPending
             \/ \E c \in Peers : ReadAndEcho(c) \/ ReadEnd(c)
====
