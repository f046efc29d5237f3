---- MODULE PortLifecycle ----
(***************************************************************************)
(* The DPDK samples (dpdk/01 to 06): EAL, an Ethernet port and its packet  *)
(* memory, taken into use step by step and let go of on every path.        *)
(*                                                                         *)
(* There are no destructors here: what has to be undone is remembered in   *)
(* three locals of main (configured, started, pool), which the end of the  *)
(* try block and its handler look at, each in its own code.                *)
(* Every rte_ call may fail.                                               *)
(***************************************************************************)
EXTENDS Naturals, Sequences

CONSTANTS
  PortSamples,   \* the samples that may run
  MaxQueues,     \* max_rx_queues and max_tx_queues of the port
  MaxDesc,       \* bound on the descriptors of a queue
  MaxMbufs       \* bound on the buffers of the pool

ASSUME PortAssumption == {MaxQueues, MaxDesc, MaxMbufs} \subseteq Nat \ {0}

----
\* The calls of each main after rte_eal_init, in order.
EnvCheck  == <<"options">>
PciProbe  == <<"options">>
EthdevInfo == <<"options", "resolve", "info">>
EthdevConfigure == <<"options", "resolve", "info", "validate", "plan",
                     "configure", "info">>
QueueSetup == <<"options", "resolve", "info", "validate", "plan",
                "configure", "adjust", "pool", "rxq", "txq", "info">>
StartStop == QueueSetup \o <<"start", "link", "stop">>

Calls == [env_check |-> EnvCheck, pci_probe |-> PciProbe,
          ethdev_info |-> EthdevInfo, ethdev_configure |-> EthdevConfigure,
          queue_setup |-> QueueSetup, start_stop |-> StartStop]

ASSUME PortSamplesAssumption == PortSamples \subseteq DOMAIN Calls

\* What the options say that matters, and the options each sample accepts.
\* "fits": the offloads and the MTU are among what the port supports.
NoOptions == [yes |-> FALSE, rx_queues |-> 1, tx_queues |-> 1, fits |-> TRUE,
              mbufs |-> 1, require_link_up |-> FALSE]
EnvOptions  == {NoOptions}   \* --dump-memzones
PciOptions  == {NoOptions}   \* --dump-devargs, --expect-port
InfoOptions == {NoOptions}   \* --port, --port-name, --ptype-mask
ConfigureOptions == [yes : BOOLEAN, rx_queues : 1 .. MaxQueues + 1,
                     tx_queues : 1 .. MaxQueues, fits : BOOLEAN,
                     mbufs : {1}, require_link_up : {FALSE}]
QueueOptions == {[o EXCEPT !.mbufs = n] : o \in ConfigureOptions, n \in 1 .. MaxMbufs}
StartOptions == {[o EXCEPT !.require_link_up = b] : o \in QueueOptions, b \in BOOLEAN}

Options == [env_check |-> EnvOptions, pci_probe |-> PciOptions,
            ethdev_info |-> InfoOptions, ethdev_configure |-> ConfigureOptions,
            queue_setup |-> QueueOptions, start_stop |-> StartOptions]

VARIABLES
  psample, step, phase,   \* the sample, its next call, how it is going
  down,                   \* the next call of the tear-down
  opts, desc,             \* options, adjusted_rx_desc
  configured, started,    \* the locals of main
  eal, port, rx, tx,      \* DPDK: EAL is up, the port, the queues set up on it
  link,                   \* the port has a link
  mempool,                \* "none", "live" or "freed"; pool is non-null if not "none"
  refused                 \* history: the calls of the tear-down DPDK refused without cause

dpdk == <<eal, port, rx, tx, link, mempool>>
pvars == <<psample, step, phase, down, opts, desc, configured, started, dpdk, refused>>

PortStart ==
  /\ step = 1 /\ down = "stop" /\ opts = NoOptions /\ desc = 1
  /\ configured = FALSE /\ started = FALSE /\ eal = FALSE /\ port = "idle"
  /\ rx = 0 /\ tx = 0 /\ link = FALSE /\ mempool = "none" /\ refused = {}
PortInit == psample \in PortSamples /\ phase = "starting" /\ PortStart

----
Calling(c) == /\ phase = "running" /\ step <= Len(Calls[psample])
              /\ Calls[psample][step] = c
Return == step' = step + 1 /\ UNCHANGED <<psample, phase, down, refused>>
Raise  == phase' = "catching" /\ down' = "stop" /\ UNCHANGED <<psample, step, refused>>

EalInit ==
  /\ phase = "starting"
  /\ \/ eal' = TRUE /\ phase' = "running"
     \/ eal' = FALSE /\ phase' = "exit1"
  /\ UNCHANGED <<psample, step, down, opts, desc, configured, started,
                 port, rx, tx, link, mempool, refused>>

\* parse_app_options: what it accepts, or an exception.
ParseOptions ==
  /\ Calling("options")
  /\ \/ opts' \in Options[psample] /\ Return
     \/ opts' = opts /\ Raise
  /\ UNCHANGED <<desc, configured, started, dpdk>>

\* resolve_port, get_dev_info
AskPort ==
  /\ Calling("resolve") \/ Calling("info")
  /\ Return \/ Raise
  /\ UNCHANGED <<opts, desc, configured, started, dpdk>>

\* validate_requested_config
ValidateRequest ==
  /\ Calling("validate")
  /\ IF opts.rx_queues <= MaxQueues /\ opts.tx_queues <= MaxQueues /\ opts.fits
       THEN Return ELSE Raise
  /\ UNCHANGED <<opts, desc, configured, started, dpdk>>

\* Without --yes the sample only says what it would do.
Plan ==
  /\ Calling("plan")
  /\ \/ opts.yes /\ Return
     \/ /\ ~opts.yes /\ phase' = "leaving" /\ down' = "close"
        /\ UNCHANGED <<psample, step, refused>>
  /\ UNCHANGED <<opts, desc, configured, started, dpdk>>

Configure ==
  /\ Calling("configure")
  /\ \/ port' = "configured" /\ configured' = TRUE /\ Return
     \/ UNCHANGED <<port, configured>> /\ Raise
  /\ UNCHANGED <<opts, desc, started, eal, rx, tx, link, mempool>>

\* Mutant: the buffers are compared with the number asked for.
AdjustUnchecked ==
  /\ Calling("adjust") /\ desc' \in 1 .. MaxDesc /\ Return
  /\ UNCHANGED <<opts, configured, started, dpdk>>

\* rte_eth_dev_adjust_nb_rx_tx_desc moves the number into the range of the
\* driver; validate_adjusted_descriptors compares the buffers with the result.
AdjustDescriptors ==
  /\ Calling("adjust")
  /\ \/ /\ desc' \in 1 .. MaxDesc
        /\ IF opts.mbufs < opts.rx_queues * desc' THEN Raise ELSE Return
     \/ desc' = desc /\ Raise
  /\ UNCHANGED <<opts, configured, started, dpdk>>

CreatePool ==
  /\ Calling("pool")
  /\ \/ mempool' = "live" /\ Return
     \/ mempool' = mempool /\ Raise
  /\ UNCHANGED <<opts, desc, configured, started, eal, port, rx, tx, link>>

\* One turn of the loop over the queues.
SetUpRxQueue ==
  /\ Calling("rxq")
  /\ \/ /\ rx' = rx + 1
        /\ IF rx' = opts.rx_queues THEN Return
           ELSE UNCHANGED <<psample, step, phase, down, refused>>
     \/ rx' = rx /\ Raise
  /\ UNCHANGED <<opts, desc, configured, started, eal, port, tx, link, mempool>>
SetUpTxQueue ==
  /\ Calling("txq")
  /\ \/ /\ tx' = tx + 1
        /\ IF tx' = opts.tx_queues THEN Return
           ELSE UNCHANGED <<psample, step, phase, down, refused>>
     \/ tx' = tx /\ Raise
  /\ UNCHANGED <<opts, desc, configured, started, eal, port, rx, link, mempool>>

StartPort ==
  /\ Calling("start")
  /\ \/ port' = "started" /\ started' = TRUE /\ Return
     \/ UNCHANGED <<port, started>> /\ Raise
  /\ UNCHANGED <<opts, desc, configured, eal, rx, tx, link, mempool>>

\* Mutant: the loop has no deadline.
WaitForLinkForever ==
  /\ Calling("link") /\ link /\ Return
  /\ UNCHANGED <<opts, desc, configured, started, dpdk>>

\* wait_for_link returns when the link is up, when the deadline has passed or
\* when the link cannot be read; between two polls it sleeps.
WaitForLink ==
  /\ Calling("link")
  /\ \/ Return /\ (link \/ ~opts.require_link_up)
     \/ Raise
  /\ UNCHANGED <<opts, desc, configured, started, dpdk>>
LinkComesUp ==
  /\ port = "started" /\ ~link /\ link' = TRUE
  /\ UNCHANGED <<psample, step, phase, down, opts, desc, configured, started,
                 eal, port, rx, tx, mempool, refused>>

StopPort ==
  /\ Calling("stop")
  /\ \/ port' = "configured" /\ link' = FALSE /\ started' = FALSE /\ Return
     \/ UNCHANGED <<port, link, started>> /\ Raise
  /\ UNCHANGED <<opts, desc, configured, eal, rx, tx, mempool>>

EndOfCalls ==
  /\ phase = "running" /\ step > Len(Calls[psample])
  /\ phase' = "leaving" /\ down' = "close"
  /\ UNCHANGED <<psample, step, opts, desc, configured, started, dpdk, refused>>

----
\* Mutant: the handler closes a port it has not stopped.
CatchWithoutStop ==
  /\ phase = "catching" /\ down = "stop" /\ down' = "close"
  /\ UNCHANGED <<psample, step, phase, opts, desc, configured, started, dpdk, refused>>

\* The handler: a started port is stopped first, and the rest goes on if it refuses.
CatchStop ==
  /\ phase = "catching" /\ down = "stop" /\ down' = "close"
  /\ \/ ~started /\ UNCHANGED <<port, link, refused>>
     \/ started /\ port' = "configured" /\ link' = FALSE /\ refused' = refused
     \/ started /\ refused' = refused \cup {"stop"} /\ UNCHANGED <<port, link>>
  /\ UNCHANGED <<psample, step, phase, opts, desc, configured, started,
                 eal, rx, tx, mempool>>

\* rte_eth_dev_close: a started port is refused; a driver that reports an error
\* may have released the port or not.
Close ==
  \/ /\ port = "configured" /\ port' = "released" /\ rx' = 0 /\ tx' = 0
     /\ refused' \in {refused, refused \cup {"close"}}
  \/ /\ port = "configured" /\ refused' = refused \cup {"close"} /\ UNCHANGED <<port, rx, tx>>
  \/ port # "configured" /\ UNCHANGED <<port, rx, tx, refused>>

\* The end of the try block and the handler close what is configured.  After an
\* error the one goes straight to the end (phase "giving_up").
ClosePort ==
  /\ phase \in {"leaving", "catching"} /\ down = "close" /\ down' = "free"
  /\ \/ ~configured /\ UNCHANGED <<phase, configured, port, rx, tx, refused>>
     \/ /\ configured /\ Close
        /\ configured' = (phase = "catching" \/ "close" \in refused')
        /\ phase' = IF phase = "leaving" /\ "close" \in refused' THEN "giving_up" ELSE phase
  /\ UNCHANGED <<psample, step, opts, desc, started, eal, link, mempool>>

FreePool ==
  /\ phase \in {"leaving", "giving_up", "catching"} /\ down = "free" /\ down' = "cleanup"
  /\ mempool' = IF mempool = "live" THEN "freed" ELSE mempool
  /\ UNCHANGED <<psample, step, phase, opts, desc, configured, started,
                 eal, port, rx, tx, link, refused>>

\* rte_eal_cleanup; its result counts only at the end of the try block.
CleanUpEal ==
  /\ phase \in {"leaving", "giving_up", "catching"} /\ down = "cleanup"
  /\ eal' \in BOOLEAN
  /\ phase' = IF phase = "leaving" /\ ~eal' THEN "exit0" ELSE "exit1"
  /\ UNCHANGED <<psample, step, down, opts, desc, configured, started,
                 port, rx, tx, link, mempool, refused>>

PortRun == \/ EalInit \/ ParseOptions \/ AskPort \/ ValidateRequest \/ Plan \/ Configure
           \/ AdjustDescriptors \/ CreatePool \/ SetUpRxQueue \/ SetUpTxQueue
           \/ StartPort \/ WaitForLink \/ StopPort \/ EndOfCalls
           \/ CatchStop \/ ClosePort \/ FreePool \/ CleanUpEal
PortNext == PortRun \/ LinkComesUp
PortEnded == phase \in {"exit0", "exit1"}
PortSpec == PortInit /\ [][PortNext]_pvars /\ WF_pvars(PortRun)

----
PortTypeOK ==
  /\ psample \in DOMAIN Calls /\ step \in 1 .. Len(Calls[psample]) + 1
  /\ phase \in {"starting", "running", "leaving", "giving_up", "catching", "exit0", "exit1"}
  /\ down \in {"stop", "close", "free", "cleanup"}
  /\ opts \in Options[psample] \cup {NoOptions} /\ desc \in 1 .. MaxDesc
  /\ {configured, started, eal, link} \subseteq BOOLEAN
  /\ port \in {"idle", "configured", "started", "released"}
  /\ rx \in 0 .. MaxQueues /\ tx \in 0 .. MaxQueues
  /\ mempool \in {"none", "live", "freed"} /\ refused \subseteq {"stop", "close"}

\* However a sample ends, the port is stopped, closed and its memory given back,
\* unless DPDK refused a stop or a close it should have granted; and the exit
\* code is 0 only if nothing was refused and EAL is gone.
PortTornDown ==
  PortEnded => /\ refused = {} => port \in {"idle", "released"} /\ mempool # "live"
               /\ phase = "exit0" => refused = {} /\ ~eal

\* The packet memory outlives the queues that use it (it is freed after the port
\* is closed, or after DPDK refused to stop or close it), and a port that runs has
\* all its queues and a buffer for every descriptor of them, after the driver's
\* adjustment.
PoolServesQueues ==
  /\ PortTypeOK
  /\ rx > 0 => mempool = "live" \/ (mempool = "freed" /\ refused # {})
  /\ port = "started" /\ phase = "running" =>
       /\ rx = opts.rx_queues /\ tx = opts.tx_queues /\ rx * desc <= opts.mbufs
====
