---- MODULE FileServer ----
(***************************************************************************)
(* io_uring/13_file_server.cpp: a coroutine per client again, which reads  *)
(* a request, answers with a header and, when there is such a file, with   *)
(* the file, in chunks that are read and sent through the same ring.  The  *)
(* accept loop and the event loop are those of exercise 12.                *)
(*                                                                         *)
(* A reply is its header, two bytes 0 that may be sent one by one, and the *)
(* bytes 1, 2, ... of the file.  The body of a 404 goes with its header.   *)
(***************************************************************************)
EXTENDS CoroutineEcho

CONSTANT FileSizes   \* bound: the sizes of the files there are
ASSUME FileSizesAssumption == FileSizes \subseteq Nat

VARIABLES file_fds,     \* clients whose coroutine has its file open
          file_size,    \* per client: st_size, or -1 for a reply without file
          file_offset,  \* offset: the part of the file that has been sent
          served,       \* what has come to the client
          ending        \* history: "none", "done" or "cut", how it was closed

file == <<file_fds, file_size, file_offset>>
fvars == <<file, served, ending>>

Header == <<0, 0>>

\* In the code a chunk is 4096 bytes and a header about a hundred.
ASSUME HeaderAssumption == "files" \in Variants => Len(Header) <= BufSize

Read(fd) == Tagged("read", fd, 0)

FileInit == /\ file_fds = {}
            /\ file_size = [fd \in Fds |-> -1]
            /\ file_offset = [fd \in Fds |-> 0]
            /\ served = [fd \in Fds |-> << >>]
            /\ ending = [fd \in Fds |-> "none"]

----
Answers(fd, reply) == /\ buf' = [buf EXCEPT ![fd] = reply]
                      /\ sent' = [sent EXCEPT ![fd] = 0]
                      /\ co' = [co EXCEPT ![fd] = "send"]
                      /\ Prepare(<<Send(fd)>>)

\* The request has come: 400 for what parse_path does not accept and 404 for
\* what cannot be opened, or the header of the file.
Request ==
  /\ Peek("recv") /\ Res > 0
  /\ Answers(Op.fd, Header)
  /\ \/ UNCHANGED file
     \/ \E size \in FileSizes :
          /\ file_fds' = file_fds \cup {Op.fd}
          /\ file_size' = [file_size EXCEPT ![Op.fd] = size]
          /\ file_offset' = [file_offset EXCEPT ![Op.fd] = 0]
  /\ Seen
  /\ UNCHANGED <<variant, network, served, ending>>

\* close(file_fd), if there is one, and close(fd).
EndClient(how) ==
  /\ co' = [co EXCEPT ![Op.fd] = "none"]
  /\ conns' = conns \ {Op.fd}
  /\ file_fds' = file_fds \ {Op.fd}
  /\ ending' = [ending EXCEPT ![Op.fd] = how]
  /\ UNCHANGED <<up, sq, variant, buf, read, echoed, accepted, file_size, served>>

\* Mutant: the file stays open when the client leaves.
GivesUpLeaks ==
  /\ Peek("recv") \/ Peek("send") \/ Peek("read")
  /\ Res <= 0
  /\ co' = [co EXCEPT ![Op.fd] = "none"]
  /\ conns' = conns \ {Op.fd}
  /\ ending' = [ending EXCEPT ![Op.fd] = "cut"]
  /\ Seen
  /\ UNCHANGED <<up, sq, variant, buf, sent, read, echoed, accepted, file, served>>

\* The client has left, or the file ended before its size (or a read failed).
GivesUp ==
  /\ Peek("recv") \/ Peek("send") \/ Peek("read")
  /\ Res <= 0
  /\ EndClient("cut")
  /\ Seen
  /\ UNCHANGED <<sent, file_offset>>

\* A part has been sent: the rest follows.
PartSent ==
  /\ Peek("send") /\ Res > 0 /\ sent[Op.fd] + Res < Len(buf[Op.fd])
  /\ sent' = [sent EXCEPT ![Op.fd] = @ + Res]
  /\ Prepare(<<Send(Op.fd)>>)
  /\ Seen
  /\ UNCHANGED <<variant, co, buf, network, fvars>>

\* All of it has: the next chunk is read, and after the last the client is
\* closed.
AllSent ==
  /\ Peek("send") /\ Res > 0 /\ sent[Op.fd] + Res = Len(buf[Op.fd])
  /\ sent' = [sent EXCEPT ![Op.fd] = @ + Res]
  /\ file_offset' = [file_offset EXCEPT ![Op.fd] =
                       IF buf[Op.fd] = Header THEN @ ELSE @ + Len(buf[Op.fd])]
  /\ IF Op.fd \in file_fds /\ file_offset'[Op.fd] < file_size[Op.fd]
     THEN /\ co' = [co EXCEPT ![Op.fd] = "read"]
          /\ Prepare(<<Read(Op.fd)>>)
          /\ UNCHANGED <<variant, buf, network, file_fds, file_size, served, ending>>
     ELSE EndClient("done")
  /\ Seen

ChunkRead ==
  /\ Peek("read") /\ Res > 0
  /\ Answers(Op.fd, buf[Op.fd])
  /\ Seen
  /\ UNCHANGED <<variant, network, fvars>>

----
\* The kernel, the clients and the disk.
ClientConnects(fd) ==
  /\ AcceptCompletes(fd)
  /\ file_size' = [file_size EXCEPT ![fd] = -1]
  /\ served' = [served EXCEPT ![fd] = << >>]
  /\ ending' = [ending EXCEPT ![fd] = "none"]
  /\ UNCHANGED <<file_fds, file_offset>>

ReplyCompletes(fd, n) ==
  /\ sent[fd] + n <= Len(buf[fd])
  /\ Completes(Send(fd), n)
  /\ served' = [served EXCEPT ![fd] = @ \o SubSeq(buf[fd], sent[fd] + 1, sent[fd] + n)]
  /\ UNCHANGED <<coroutines, network, file, ending>>

\* A read of min(size - offset, the buffer) bytes gives some of them, none
\* when the file has been cut since fstat.
ReadCompletes(fd, n) ==
  /\ file_offset[fd] + n <= file_size[fd]
  /\ Completes(Read(fd), n)
  /\ buf' = [buf EXCEPT ![fd] = [k \in 1 .. n |-> file_offset[fd] + k]]
  /\ UNCHANGED <<variant, co, sent, network, fvars>>

FileServes == \/ (LoopStep \/ Accepted \/ AcceptFailed) /\ UNCHANGED fvars
              \/ Request \/ GivesUp \/ PartSent \/ AllSent \/ ChunkRead
FileServed(fd) == \/ RecvCompletes(fd, 1) /\ UNCHANGED fvars
                  \/ \E n \in 1 .. BufSize : ReplyCompletes(fd, n) \/ ReadCompletes(fd, n)
FileLeft(fd) == \/ ReadCompletes(fd, 0)
                \/ OpFails(fd) /\ UNCHANGED fvars

FileNext == \/ FileServes
            \/ AcceptFails /\ UNCHANGED fvars
            \/ \E fd \in Fds : ClientConnects(fd) \/ FileServed(fd) \/ FileLeft(fd)

----
\* What comes to a client is its reply from the start, however reads and sends
\* are cut and whatever other clients do; it is the whole reply unless client
\* or file failed; and a file is open only while its coroutine serves it, on
\* every path out of client_handler.
Reply(fd) == Header \o [k \in 1 .. file_size[fd] |-> k]
FilesServed ==
  \A fd \in Fds : /\ IsPrefix(served[fd], Reply(fd))
                  /\ ending[fd] = "done" => served[fd] = Reply(fd)
                  /\ fd \in file_fds => co[fd] \in {"send", "read"}
====
