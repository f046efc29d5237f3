---- MODULE EchoBench ----
(***************************************************************************)
(* io_uring/08_echo_bench.cpp, run against the epoll server: clients that  *)
(* connect through one ring, and each send a message and receive its echo, *)
(* round after round.                                                      *)
(*                                                                         *)
(* Byte k of a message is the number k.  The messages of a client's rounds *)
(* are the same, and recv_buf is not cleared in between.                   *)
(***************************************************************************)
EXTENDS EpollEcho

CONSTANTS MaxMessages,  \* bound: the messages of all clients and rounds
          MsgLen        \* send_len
ASSUME BenchAssumption == {MaxMessages, MsgLen} \subseteq Nat \ {0} /\ Peers = 1 .. Cardinality(Peers)

VARIABLES
  load,                             \* <<num_clients, rounds>>
  r_up, r_at, r_sq, r_flight, r_cq, r_ready,    \* the ring: see IoRing
  remaining, ok,                    \* Client, per client
  send_off, recv_off, recv_buf,
  clients_done,
  echoed_bytes, hurt,               \* history: bytes received; clients with an
                                    \* operation that failed
  bench_exit                        \* "none", or the exit code

r_ring == <<r_up, r_at, r_sq, r_flight, r_cq, r_ready>>
bench == <<load, r_ring, remaining, ok, send_off, recv_off, recv_buf,
           clients_done, echoed_bytes, hurt, bench_exit>>
bvars == <<evars, bench>>

\* max(4096, 2 * num_clients) entries.
Ring == INSTANCE IoRing WITH SqDepth <- 2 * Cardinality(Peers), up <- r_up, pc <- r_at,
                             sq <- r_sq, flight <- r_flight, cq <- r_cq, ready <- r_ready

BenchClients == 1 .. load[1]
Message == [k \in 1 .. MsgLen |-> k]
BenchOp(kind, c) == [op |-> kind, id |-> c]

BenchStart ==
  /\ EpollInit
  /\ r_up = TRUE /\ r_at = "start" /\ r_sq = << >> /\ r_flight = {} /\ r_cq = << >> /\ r_ready = 0
  /\ remaining = [c \in Peers |-> load[2]] /\ ok = [c \in Peers |-> TRUE]
  /\ send_off = [c \in Peers |-> 0] /\ recv_off = send_off
  /\ recv_buf = [c \in Peers |-> [k \in 1 .. MsgLen |-> 0]]
  /\ clients_done = 0 /\ echoed_bytes = send_off /\ hurt = {}
BenchInit == /\ load \in {l \in Peers \X (1 .. MaxMessages) : l[1] * l[2] <= MaxMessages}
             /\ BenchStart /\ bench_exit = "none"

----
\* The clients and their connects; socket may fail.
CreateSockets ==
  /\ bench_exit = "none" /\ r_at = "start"
  /\ \/ bench_exit' = "1" /\ UNCHANGED r_ring
     \/ /\ Ring!Prepare([c \in BenchClients |-> BenchOp("connect", c)])
        /\ r_at' = "submit"
        /\ UNCHANGED <<r_flight, r_cq, r_ready, bench_exit>>
  /\ UNCHANGED <<evars, load, remaining, ok, send_off, recv_off, recv_buf,
                 clients_done, echoed_bytes, hurt>>

\* while (clients_done < num_clients): submit_and_wait, and the batch it gives.
BenchLoop ==
  /\ bench_exit = "none" /\ (r_at = "submit" => clients_done < load[1])
  /\ Ring!Submit \/ Ring!Wait \/ Ring!EndBatch
  /\ UNCHANGED <<evars, load, remaining, ok, send_off, recv_off, recv_buf,
                 clients_done, echoed_bytes, hurt, bench_exit>>

\* The report: the clients that are ok have passed; the exit code is 0 anyway.
Report ==
  /\ bench_exit = "none" /\ r_at = "submit" /\ clients_done >= load[1]
  /\ bench_exit' = "0" /\ gone' = gone \cup BenchClients
  /\ UNCHANGED <<serving, events, clients, backlog, stream, closed, shortened, load, r_ring,
                 remaining, ok, send_off, recv_off, recv_buf, clients_done, echoed_bytes, hurt>>

Handles(kind) == bench_exit = "none" /\ Ring!Peek(kind)
Id == Ring!Op.id
ClientDone == clients_done' = clients_done + 1

\* OP_CONNECT: a failed client keeps its descriptor until the end.
HandleConnect ==
  /\ Handles("connect") /\ Ring!Seen
  /\ IF Ring!Res < 0
     THEN /\ ok' = [ok EXCEPT ![Id] = FALSE]
          /\ ClientDone /\ UNCHANGED <<r_up, r_sq>>
     ELSE /\ Ring!Prepare(<<BenchOp("send", Id)>>)
          /\ UNCHANGED <<ok, clients_done>>
  /\ UNCHANGED <<evars, load, remaining, send_off, recv_off, recv_buf, echoed_bytes, hurt, bench_exit>>

\* OP_SEND or OP_RECV with res <= 0.
HandleBroken ==
  /\ Handles("send") \/ Handles("recv")
  /\ Ring!Res <= 0 /\ Ring!Seen
  /\ ok' = [ok EXCEPT ![Id] = FALSE]
  /\ gone' = gone \cup {Id} /\ ClientDone
  /\ UNCHANGED <<serving, events, clients, backlog, stream, closed, shortened, load, r_up, r_sq,
                 remaining, send_off, recv_off, recv_buf, echoed_bytes, hurt, bench_exit>>

\* OP_SEND: the rest, or the echo.
HandleSent ==
  /\ Handles("send") /\ Ring!Res > 0 /\ Ring!Seen
  /\ send_off' = [send_off EXCEPT ![Id] = @ + Ring!Res]
  /\ IF send_off'[Id] < MsgLen
     THEN Ring!Prepare(<<BenchOp("send", Id)>>) /\ UNCHANGED recv_off
     ELSE /\ recv_off' = [recv_off EXCEPT ![Id] = 0]
          /\ Ring!Prepare(<<BenchOp("recv", Id)>>)
  /\ UNCHANGED <<evars, load, remaining, ok, recv_buf, clients_done, echoed_bytes, hurt, bench_exit>>

\* Mutant: a part of the echo is taken for all of it; what is compared then is
\* what the last round left in recv_buf.
WholeEchoAnyPart == Ring!Res > 0
\* recv_off reaches send_len.
WholeEcho == recv_off[Id] + Ring!Res >= MsgLen

\* OP_RECV of a part of the echo.
HandlePart ==
  /\ Handles("recv") /\ Ring!Res > 0 /\ ~WholeEcho /\ Ring!Seen
  /\ recv_off' = [recv_off EXCEPT ![Id] = @ + Ring!Res]
  /\ Ring!Prepare(<<BenchOp("recv", Id)>>)
  /\ UNCHANGED <<evars, load, remaining, ok, send_off, recv_buf, clients_done,
                 echoed_bytes, hurt, bench_exit>>

\* OP_RECV of the whole echo: it is compared, and the round is over.
HandleEcho ==
  /\ Handles("recv") /\ Ring!Res > 0 /\ WholeEcho /\ Ring!Seen
  /\ recv_off' = [recv_off EXCEPT ![Id] = @ + Ring!Res]
  /\ ok' = [ok EXCEPT ![Id] = @ /\ recv_buf[Id] = Message]
  /\ remaining' = [remaining EXCEPT ![Id] = @ - 1]
  /\ IF remaining'[Id] <= 0 \/ ~ok'[Id]
     THEN gone' = gone \cup {Id} /\ ClientDone /\ UNCHANGED <<r_up, r_sq, send_off>>
     ELSE /\ send_off' = [send_off EXCEPT ![Id] = 0]
          /\ Ring!Prepare(<<BenchOp("send", Id)>>)
          /\ UNCHANGED <<gone, clients_done>>
  /\ UNCHANGED <<serving, events, clients, backlog, stream, closed, shortened, load,
                 recv_buf, echoed_bytes, hurt, bench_exit>>

BenchStep == \/ CreateSockets \/ BenchLoop \/ Report
             \/ HandleConnect \/ HandleBroken \/ HandleSent \/ HandlePart \/ HandleEcho

----
\* The kernel and the network.
Dead(c) == ~serving \/ c \in closed
Transfer(kind, c, res) == bench_exit = "none" /\ Ring!Complete(BenchOp(kind, c), res)
Idle == UNCHANGED <<load, remaining, ok, send_off, recv_off, clients_done, bench_exit>>

Connects(c) ==
  /\ serving /\ Transfer("connect", c, 0)
  /\ backlog' = backlog \cup {c}
  /\ Idle /\ UNCHANGED <<serving, events, clients, stream, closed, gone, shortened,
                         recv_buf, echoed_bytes, hurt>>
Sends(c, n) ==
  /\ ~Dead(c) /\ send_off[c] + n <= MsgLen
  /\ Transfer("send", c, n)
  /\ to_server' = [to_server EXCEPT ![c] = @ \o SubSeq(Message, send_off[c] + 1, send_off[c] + n)]
  /\ Idle /\ UNCHANGED <<serving, events, clients, backlog, to_client, closed, gone, shortened,
                         recv_buf, echoed_bytes, hurt>>
Receives(c, n) ==
  /\ n <= Len(to_client[c]) /\ recv_off[c] + n <= MsgLen
  /\ Transfer("recv", c, n)
  /\ to_client' = [to_client EXCEPT ![c] = SubSeq(@, n + 1, Len(@))]
  /\ recv_buf' = [recv_buf EXCEPT ![c] =
                    [k \in 1 .. MsgLen |-> IF k > recv_off[c] /\ k <= recv_off[c] + n
                                           THEN to_client[c][k - recv_off[c]] ELSE @[k]]]
  /\ echoed_bytes' = [echoed_bytes EXCEPT ![c] = @ + n]
  /\ Idle /\ UNCHANGED <<serving, events, clients, backlog, to_server, closed, gone, shortened, hurt>>

\* An operation fails: it must when the server has gone, and may at any time.
OperationFails(c) ==
  /\ \E kind \in {"connect", "send", "recv"} : Transfer(kind, c, -1)
  /\ hurt' = hurt \cup {c}
  /\ Idle /\ UNCHANGED <<evars, recv_buf, echoed_bytes>>

NetworkStep == \E c \in Peers :
  \/ Connects(c) \/ (Dead(c) /\ OperationFails(c))
  \/ \E n \in 1 .. MsgLen : Sends(c, n) \/ Receives(c, n)
NetworkFault == \E c \in Peers : OperationFails(c)

ServerStep == EpollStep /\ UNCHANGED bench
BenchNext == BenchStep \/ ServerStep \/ NetworkStep \/ NetworkFault
BenchSpec == BenchInit /\ [][BenchNext]_bvars
             /\ WF_bvars(BenchStep) /\ WF_bvars(ServerStep) /\ WF_bvars(NetworkStep)
\* A bench waits for ever for what a short write of the server has lost.
BenchEnded == bench_exit # "none" \/ shortened

----
BenchTypeOK ==
  /\ r_up \in BOOLEAN /\ r_at \in {"start", "submit", "wait", "cqe"} /\ r_ready <= Len(r_cq)
  /\ events \subseteq Peers \cup {LISTENER} /\ clients \subseteq Peers /\ backlog \subseteq Peers
  /\ \A c \in Peers : /\ remaining[c] \in 0 .. load[2] /\ ok[c] \in BOOLEAN
                       /\ send_off[c] \in 0 .. MsgLen /\ recv_off[c] \in 0 .. MsgLen
  /\ clients_done \in 0 .. load[1] /\ bench_exit \in {"none", "0", "1"}

UnderWay(c) == {o \in Ring!Pending : o.id = c}

\* The verdict can be trusted, however sends, receives and batches are cut: who
\* passes has had every round echoed, who does not has had an operation fail,
\* clients_done counts every client once (it has one operation under way until
\* it is counted), and the ring is large enough.
BenchVerdict ==
  /\ BenchTypeOK /\ r_up
  /\ r_at # "start" => \A c \in BenchClients : Cardinality(UnderWay(c)) <= 1
  /\ r_at # "start" => clients_done = Cardinality({c \in BenchClients : UnderWay(c) = {}})
  /\ bench_exit = "0" =>
       \A c \in BenchClients : IF ok[c] THEN echoed_bytes[c] = load[2] * MsgLen ELSE c \in hurt
====
