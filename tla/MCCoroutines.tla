---- MODULE MCCoroutines ----
(***************************************************************************)
(* The servers with one coroutine per client: the echo servers of          *)
(* CoroutineEcho and the file server, one of them in each behaviour.       *)
(***************************************************************************)
EXTENDS FileServer

mcvars == <<vars, fvars>>

MCInit == Init /\ FileInit

Serves == IF variant = "files" THEN FileServes
          ELSE Server /\ UNCHANGED fvars
Network(fd) == IF variant = "files" THEN FileServed(fd) ELSE Served(fd) /\ UNCHANGED fvars

MCNext == \/ variant = "files" /\ FileNext
          \/ variant # "files" /\ Next /\ UNCHANGED fvars

\* The server's thread runs, data that has arrived is received, a client that
\* writes also reads, the disk answers, and time passes.
MCSpec == /\ MCInit /\ [][MCNext]_mcvars
          /\ WF_mcvars(Serves) /\ \A fd \in Fds : WF_mcvars(Network(fd))

----
\* Nobody occupies a server for ever: a client the server with timeouts has
\* accepted is disconnected in the end, or it keeps writing (which the bound on
\* bytes ends), and one whose request the file server has got is answered
\* and closed.
NobodyStays ==
  \A fd \in Fds :
    (\/ variant = "timeout" /\ co[fd] # "none"
     \/ variant = "files" /\ co[fd] \in {"send", "read"})
      ~> (co[fd] = "none" \/ ~up)
====
