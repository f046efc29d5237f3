---- MODULE VirtioEcho ----
(***************************************************************************)
(* The packet loops of userspace_drivers/ over the virtqueues of           *)
(* virtio_net_vfio.hpp.  The driver shares two rings with the device, and  *)
(* hands the descriptors of every received packet back.                    *)
(*   26  answers matching packets, and waits for the device's interrupts   *)
(*       in poll() on the eventfds VFIO signals;                           *)
(*   25  answers them, and looks at the rings every 10 ms;                 *)
(*   28, 29, 30  send a command on the control queue and, once the device  *)
(*       has acknowledged it, count matching packets;                      *)
(*   27  sends the command and stops.                                      *)
(*                                                                         *)
(* The device and the interrupt path are the environment.  The device      *)
(* keeps to the virtio specification, except that once it may report a     *)
(* descriptor id outside the pool, which the driver checks for.            *)
(*                                                                         *)
(* A release fence separates an entry written to the available ring from   *)
(* the index that publishes it, and the device reads no entry beyond the   *)
(* index, so publishing is one step.  Packets are numbered as they arrive; *)
(* a packet matches when read_rx_used_packet returns it (length and        *)
(* ethertype checks passed).  The chain of a control command is one entry  *)
(* of its queue, which is long enough for it: a shorter one makes the      *)
(* samples throw before DRIVER_OK.                                         *)
(***************************************************************************)
EXTENDS Integers, Sequences, FiniteSets

CONSTANTS Samples,                \* the programs
          RxBuffers, TxBuffers,   \* rx_buffers, tx_buffers: descriptor pools
          DeviceSize,             \* queue size the device reports
          IdxWrap,                \* 2^16 in the code: width of the ring indices
          MaxPackets,             \* max_packets, stop_after
          MaxRx                   \* bound: packets that arrive

Observers == {"promisc_observe", "ctrl_mac_addr", "ctrl_mac_table"}
ControlSamples == Observers \cup {"ctrl_promisc"}
EchoLoops == {"echo_loop", "irq_echo_loop"}

ASSUME SamplesAssumption == Samples \subseteq ControlSamples \cup EchoLoops
ASSUME PoolAssumption == RxBuffers \in Nat \ {0} /\ TxBuffers \in Nat \ {0}
ASSUME SizeAssumption == DeviceSize \in Nat \ {0}
ASSUME WrapAssumption == /\ \E k \in 1 .. 16 : IdxWrap = 2 ^ k
                         /\ DeviceSize < IdxWrap
ASSUME BoundAssumption == MaxPackets \in Nat \ {0} /\ MaxRx \in Nat

Queues == {"rx", "tx"}
Pool(q) == IF q = "rx" THEN 0 .. RxBuffers - 1 ELSE 0 .. TxBuffers - 1
OutsideId(q) == IF q = "rx" THEN RxBuffers ELSE TxBuffers
Idx == 0 .. IdxWrap - 1

VARIABLES sample,    \* the program that runs
          ctl,       \* the control command: its ack byte, how far the device is
                     \* with it (stage), whether it has effect (applied); and
                     \* the matching packets an observer has counted
          size,      \* per queue: chosen queue size
          shared,    \* rx_vector = tx_vector: one eventfd for both
          avail, availIdx,   \* per queue: available ring and index (driver writes)
          used, usedIdx,     \* per queue: used ring and index (device writes)
          fetched, held, kicked,    \* device: next entry to fetch, descriptors it
                                    \* has, and whether it was notified
          arrived, misreported,     \* packets received; a wrong id was reported
          msi, evt,  \* interrupts on their way; eventfds with a nonzero counter
          rxbuf, txbuf, wire,       \* buffer contents; packets transmitted
          pc, last, cur, i, rxid,   \* driver: place, last_*_used_idx, current_rx_used,
                                    \* loop index, descriptor in hand
          made_progress, in_flight, echoed_tx, completed_tx,
          late       \* the deadline of the current loop has passed

sizes == <<sample, size, shared>>
device == <<fetched, held, kicked, arrived, misreported, msi, wire>>
fixed == <<sample, ctl, size, shared>>
rings == <<fixed, avail, availIdx, used, usedIdx>>
driver == <<pc, last, cur, i, rxid, made_progress, in_flight, echoed_tx, completed_tx, late>>
vars == <<rings, device, evt, rxbuf, txbuf, driver>>

\* 26 has bound interrupts; the others look at the rings again and again.
ByInterrupt == sample = "irq_echo_loop"

\* The eventfd that queue q's vector is bound to.
Eventfd(q) == IF shared THEN "rx" ELSE q

----
\* choose_queue_size and compute_vring_layout: a power of two no larger than
\* the device's size.
ChosenSize(n) == n \in 1 .. DeviceSize /\ \E k \in 0 .. 15 : n = 2 ^ k

\* used_delta and the increment of a ring index, in IdxWrap arithmetic.
Delta(before, after) == (after - before) % IdxWrap
Succ(idx) == (idx + 1) % IdxWrap

\* Mutant: the ack byte starts as VIRTIO_NET_OK.
AckInitialOk == "ok"

\* kVirtioNetCtrlAckInitial, a value the device never writes.
AckInitial == "initial"

\* What publish_*_control_command leaves to the device, and a counter of 0.
PublishedCommand == [ack |-> AckInitial, stage |-> "published", applied |-> FALSE,
                     matched |-> 0]

NoPacket == [n |-> 0, match |-> FALSE]

\* One --queue-size for both queues.
\* publish_rx_buffers: descriptors 0 .. rx_buffers-1 are available, and the
\* driver has written DRIVER_OK and the first RX notify.
Init ==
  /\ \E n \in 1 .. DeviceSize : /\ ChosenSize(n)
                                /\ RxBuffers <= n /\ TxBuffers <= n
                                /\ size = [q \in Queues |-> n]
  /\ sample \in Samples /\ ctl = PublishedCommand
  /\ shared \in BOOLEAN /\ (~ByInterrupt => ~shared)
  /\ avail = [q \in Queues |-> [k \in 0 .. size[q] - 1 |->
                IF q = "rx" /\ k < RxBuffers THEN k ELSE 0]]
  /\ availIdx = [q \in Queues |-> IF q = "rx" THEN RxBuffers % IdxWrap ELSE 0]
  /\ used = [q \in Queues |-> [k \in 0 .. size[q] - 1 |-> 0]]
  /\ usedIdx = [q \in Queues |-> 0]
  /\ fetched = [q \in Queues |-> 0]
  /\ held = [q \in Queues |-> {}]
  /\ kicked = [q \in Queues |-> q = "rx"]
  /\ arrived = 0 /\ misreported = FALSE
  /\ msi = [q \in Queues |-> FALSE] /\ evt = [q \in Queues |-> FALSE]
  /\ rxbuf = [d \in Pool("rx") |-> NoPacket]
  /\ txbuf = [d \in Pool("tx") |-> 0]
  /\ wire = << >>
  /\ pc = IF sample \in ControlSamples THEN "ctrl_wait" ELSE "top"
  /\ last = [q \in Queues |-> 0]
  /\ cur = 0 /\ i = 0 /\ rxid = 0
  /\ made_progress = FALSE
  /\ in_flight = {}
  /\ echoed_tx = 0 /\ completed_tx = 0
  /\ late = FALSE

----
\* recycle_rx_buffer and publish_tx_packet: write the entry at avail_idx,
\* then the index.
MakeAvailable(q, d) ==
  /\ avail' = [avail EXCEPT ![q][availIdx[q] % size[q]] = d]
  /\ availIdx' = [availIdx EXCEPT ![q] = Succ(@)]

\* The ids in the used entries of queue q the driver has not seen.
UnseenUsed(q) == [k \in 0 .. Delta(last[q], usedIdx[q]) - 1 |->
                    used[q][((last[q] + k) % IdxWrap) % size[q]]]

\* consume_tx_completions: every completed slot is free again; an id outside
\* the pool is skipped.
CompletedTx == LET u == UnseenUsed("tx") IN {u[k] : k \in DOMAIN u} \cap Pool("tx")
CompletionCount == LET u == UnseenUsed("tx")
                   IN  Cardinality({k \in DOMAIN u : u[k] \in Pool("tx")})
AnyTxUsed == last["tx"] # usedIdx["tx"]

\* Mutant: the first slot is used whether it is in flight or not.
FirstSlot(busy) == {0}

\* find_free_tx_slot: the lowest slot not in flight, if there is one.
FreeTxSlot(busy) == {s \in Pool("tx") \ busy : \A r \in Pool("tx") \ busy : s <= r}

\* What follows the loop.
AfterLoop == IF sample \in Observers THEN "done" ELSE "tx_drain"

\* The head of the loop: while not late, take the TX completions.  Only 26
\* counts them as progress; the observers transmit nothing.
LoopTop ==
  /\ pc = "top"
  /\ IF late
     THEN /\ pc' = AfterLoop /\ late' = FALSE
          /\ UNCHANGED <<made_progress, in_flight, completed_tx, last>>
     ELSE /\ pc' = "rx_idx" /\ late' = late
          /\ made_progress' = (ByInterrupt /\ AnyTxUsed)
          /\ in_flight' = in_flight \ CompletedTx
          /\ completed_tx' = completed_tx + CompletionCount
          /\ last' = [last EXCEPT !["tx"] = usedIdx["tx"]]
  /\ UNCHANGED <<rings, device, evt, rxbuf, txbuf, cur, i, rxid, echoed_tx>>

\* current_rx_used = read_used_idx(...)
ReadRxIdx ==
  /\ pc = "rx_idx"
  /\ cur' = usedIdx["rx"]
  /\ i' = 0
  /\ pc' = "rx_entry"
  /\ UNCHANGED <<rings, device, evt, rxbuf, txbuf, last, rxid, made_progress,
                 in_flight, echoed_tx, completed_tx, late>>

RxCount == Delta(last["rx"], cur)
RxEntryId == used["rx"][((last["rx"] + i) % IdxWrap) % size["rx"]]

\* read_rx_used_packet finds an id outside the pool: nothing to give back.
SkipOutsideId ==
  /\ pc = "rx_entry" /\ i < RxCount
  /\ RxEntryId \notin Pool("rx")
  /\ made_progress' = TRUE
  /\ i' = i + 1
  /\ UNCHANGED <<rings, device, evt, rxbuf, txbuf, pc, last, cur, rxid,
                 in_flight,
                 echoed_tx, completed_tx, late>>

\* The packet does not match: its descriptor is given back.
SkipPacket ==
  /\ pc = "rx_entry" /\ i < RxCount
  /\ RxEntryId \in Pool("rx")
  /\ ~rxbuf[RxEntryId].match
  /\ made_progress' = TRUE
  /\ rxid' = RxEntryId
  /\ pc' = "recycle"
  /\ UNCHANGED <<rings, device, evt, rxbuf, txbuf, last, cur, i, in_flight,
                 echoed_tx, completed_tx, late>>

\* The packet matches and is answered: the answer is built in slot s and
\* published.
AnswerIn(s, busy) ==
  /\ txbuf' = [txbuf EXCEPT ![s] = rxbuf[RxEntryId].n]
  /\ MakeAvailable("tx", s)
  /\ in_flight' = busy \cup {s}
  /\ echoed_tx' = echoed_tx + 1
  /\ pc' = "kick_tx"

\* busy are the slots in flight; without a free one the packet waits or is
\* dropped, as next says.
AnswerOr(next, busy) ==
  \/ \E s \in FreeTxSlot(busy) : AnswerIn(s, busy)
  \/ /\ FreeTxSlot(busy) = {}
     /\ pc' = next /\ in_flight' = busy
     /\ UNCHANGED <<avail, availIdx, txbuf, echoed_tx>>

Matches == pc = "rx_entry" /\ i < RxCount /\ RxEntryId \in Pool("rx")
           /\ rxbuf[RxEntryId].match
ConsumeTx == /\ completed_tx' = completed_tx + CompletionCount
             /\ last' = [last EXCEPT !["tx"] = usedIdx["tx"]]

\* 26: take the TX completions; without a free slot the packet is dropped.
EchoPacket ==
  /\ Matches /\ ByInterrupt
  /\ made_progress' = TRUE /\ rxid' = RxEntryId
  /\ ConsumeTx /\ AnswerOr("recycle", in_flight \ CompletedTx)
  /\ UNCHANGED <<fixed, used, usedIdx, device, evt, rxbuf, cur, i, late>>

\* 25: without a free slot the packet waits for one.
EchoOrWait ==
  /\ Matches /\ sample = "echo_loop"
  /\ made_progress' = TRUE /\ rxid' = RxEntryId
  /\ AnswerOr("tx_wait", in_flight)
  /\ UNCHANGED <<fixed, used, usedIdx, device, evt, rxbuf, last, cur, i,
                 completed_tx, late>>

\* Until the deadline; then the packet is dropped and the loop left.
AwaitTxSlot ==
  /\ pc = "tx_wait"
  /\ IF late
       THEN /\ pc' = "drop"
            /\ UNCHANGED <<avail, availIdx, txbuf, in_flight, echoed_tx, completed_tx, last>>
       ELSE ConsumeTx /\ AnswerOr("tx_wait", in_flight \ CompletedTx)
  /\ UNCHANGED <<fixed, used, usedIdx, device, evt, rxbuf, cur, i, rxid,
                 made_progress, late>>

\* 28 to 30: the packet is counted.
CountPacket ==
  /\ Matches /\ sample \in Observers
  /\ ctl' = [ctl EXCEPT !.matched = @ + 1]
  /\ rxid' = RxEntryId /\ pc' = "recycle"
  /\ UNCHANGED <<sizes, avail, availIdx, used, usedIdx, device, evt, rxbuf, txbuf,
                 last, cur, i, made_progress, in_flight, echoed_tx, completed_tx, late>>

\* write_notify on the TX queue.
KickTx ==
  /\ pc = "kick_tx"
  /\ kicked' = [kicked EXCEPT !["tx"] = TRUE]
  /\ pc' = "recycle"
  /\ UNCHANGED <<rings, fetched, held, arrived, misreported, msi, wire, evt,
                 rxbuf,
                 txbuf, last, cur, i, rxid, made_progress, in_flight, echoed_tx, completed_tx, late>>

Recycle ==
  /\ pc \in {"recycle", "drop"}
  /\ MakeAvailable("rx", rxid)
  /\ rxid' = 0
  /\ pc' = IF pc = "recycle" THEN "kick_rx" ELSE "kick_drop"
  /\ UNCHANGED <<fixed, used, usedIdx, device, evt, rxbuf, txbuf, last, cur, i,
                 made_progress, in_flight, echoed_tx, completed_tx, late>>

\* As many packets have been answered or counted as were asked for.
Enough == IF sample \in Observers THEN ctl.matched >= MaxPackets
          ELSE echoed_tx >= MaxPackets

\* Mutant: the device is not told of the recycled descriptor.
KickRxForgotten ==
  /\ pc \in {"kick_rx", "kick_drop"}
  /\ i' = i + 1
  /\ pc' = "rx_entry"
  /\ UNCHANGED <<rings, device, evt, rxbuf, txbuf, cur, rxid, last,
                 made_progress, in_flight, echoed_tx, completed_tx, late>>

\* write_notify on the RX queue; after the last packet the loop is left.
KickRx ==
  /\ pc \in {"kick_rx", "kick_drop"}
  /\ kicked' = [kicked EXCEPT !["rx"] = TRUE]
  /\ IF Enough \/ pc = "kick_drop"
     THEN /\ last' = [last EXCEPT !["rx"] = cur]
          /\ pc' = AfterLoop /\ late' = FALSE
          /\ cur' = 0 /\ i' = 0 /\ made_progress' = FALSE
     ELSE /\ i' = i + 1
          /\ pc' = "rx_entry"
          /\ UNCHANGED <<last, late, cur, made_progress>>
  /\ UNCHANGED <<rings, fetched, held, arrived, misreported, msi, wire, evt,
                 rxbuf, txbuf, rxid,
                 in_flight, echoed_tx, completed_tx>>

\* 26 blocks when nothing was done; the others sleep for 10 ms.
NextTurn == IF ByInterrupt /\ ~made_progress THEN "poll" ELSE "top"

\* Mutant: the index read before the entries were handled is not kept.
EndRxNotAdvanced ==
  /\ pc = "rx_entry" /\ i = RxCount
  /\ pc' = NextTurn
  /\ cur' = 0 /\ i' = 0 /\ made_progress' = FALSE
  /\ UNCHANGED <<rings, device, evt, rxbuf, txbuf, rxid, last, in_flight,
                 echoed_tx,
                 completed_tx, late>>

\* Mutant: the index is read again instead of using current_rx_used.
EndRxReread ==
  /\ pc = "rx_entry" /\ i = RxCount
  /\ last' = [last EXCEPT !["rx"] = usedIdx["rx"]]
  /\ pc' = NextTurn
  /\ cur' = 0 /\ i' = 0 /\ made_progress' = FALSE
  /\ UNCHANGED <<rings, device, evt, rxbuf, txbuf, rxid, in_flight, echoed_tx,
                 completed_tx, late>>

\* Mutant: the eventfds are cleared before blocking.
EndRxDrains ==
  /\ pc = "rx_entry" /\ i = RxCount
  /\ last' = [last EXCEPT !["rx"] = cur]
  /\ pc' = NextTurn
  /\ evt' = [q \in Queues |-> FALSE]
  /\ cur' = 0 /\ i' = 0 /\ made_progress' = FALSE
  /\ UNCHANGED <<rings, device, rxbuf, txbuf, rxid, in_flight, echoed_tx,
                 completed_tx, late>>

\* last_rx_used_idx = current_rx_used; the locals of the loop body end with
\* it.
EndRx ==
  /\ pc = "rx_entry" /\ i = RxCount
  /\ last' = [last EXCEPT !["rx"] = cur]
  /\ pc' = NextTurn
  /\ cur' = 0 /\ i' = 0 /\ made_progress' = FALSE
  /\ UNCHANGED <<rings, device, evt, rxbuf, txbuf, rxid, in_flight, echoed_tx,
                 completed_tx, late>>

Signalled == \E q \in Queues : evt[q]

\* poll_irq_events: an eventfd is readable; both are drained.
PollReturns(next) ==
  /\ Signalled
  /\ evt' = [q \in Queues |-> FALSE]
  /\ pc' = next

Poll ==
  /\ pc = "poll"
  /\ PollReturns("top")
  /\ UNCHANGED <<rings, device, rxbuf, txbuf, last, cur, i, rxid, made_progress,
                 in_flight, echoed_tx, completed_tx, late>>

\* The deadline passes before an eventfd is readable.
PollTimeout ==
  /\ pc = "poll" /\ late
  /\ pc' = "tx_drain" /\ late' = FALSE
  /\ UNCHANGED <<rings, device, evt, rxbuf, txbuf, last, cur, i, rxid,
                 made_progress,
                 in_flight, echoed_tx, completed_tx>>

\* After the loop: up to a second for the outstanding TX completions (25 sleeps
\* 10 ms at a time).
TxDrain ==
  /\ pc = "tx_drain"
  /\ IF completed_tx < echoed_tx /\ ~late
     THEN /\ in_flight' = in_flight \ CompletedTx
          /\ completed_tx' = completed_tx + CompletionCount
          /\ last' = [last EXCEPT !["tx"] = usedIdx["tx"]]
          /\ pc' = IF AnyTxUsed \/ ~ByInterrupt THEN "tx_drain" ELSE "tx_poll"
     ELSE /\ pc' = "done"
          /\ UNCHANGED <<in_flight, completed_tx, last>>
  /\ UNCHANGED <<rings, device, evt, rxbuf, txbuf, cur, i, rxid, made_progress,
                 echoed_tx, late>>

TxPoll ==
  /\ pc = "tx_poll"
  /\ PollReturns("tx_drain")
  /\ UNCHANGED <<rings, device, rxbuf, txbuf, last, cur, i, rxid, made_progress,
                 in_flight, echoed_tx, completed_tx, late>>

TxPollTimeout ==
  /\ pc = "tx_poll" /\ late
  /\ pc' = "done"
  /\ UNCHANGED <<rings, device, evt, rxbuf, txbuf, last, cur, i, rxid,
                 made_progress,
                 in_flight, echoed_tx, completed_tx, late>>

\* wait_for_control_ack: until the device has returned the chain or the
\* deadline has passed; then the ack byte is read in either case.
WaitForAck ==
  /\ pc = "ctrl_wait" /\ (ctl.stage = "returned" \/ late)
  /\ pc' = "ctrl_ack"
  /\ UNCHANGED <<rings, device, evt, rxbuf, txbuf, last, cur, i, rxid, made_progress,
                 in_flight, echoed_tx, completed_tx, late>>

\* 27 prints what the byte says and cleans up; the others throw unless it is
\* VIRTIO_NET_OK, and observe until a new deadline.
ReadAck ==
  /\ pc = "ctrl_ack"
  /\ pc' = CASE sample = "ctrl_promisc" -> "done"
             [] sample # "ctrl_promisc" /\ ctl.ack = "ok" -> "top"
             [] OTHER -> "failed"
  /\ late' = FALSE
  /\ UNCHANGED <<rings, device, evt, rxbuf, txbuf, last, cur, i, rxid, made_progress,
                 in_flight, echoed_tx, completed_tx>>

\* The clock reaches the deadline of the current loop.
DeadlinePasses ==
  /\ pc \notin {"done", "failed"} /\ ~late
  /\ late' = TRUE
  /\ UNCHANGED <<rings, device, evt, rxbuf, txbuf, pc, last, cur, i, rxid,
                 made_progress, in_flight, echoed_tx, completed_tx>>

----
\* The device fetches available descriptors in order while it is awake,
\* and sleeps until the next notify once it finds the ring empty.
Fetch(q) ==
  /\ kicked[q]
  /\ fetched[q] # availIdx[q]
  /\ held' = [held EXCEPT ![q] = @ \cup {avail[q][fetched[q] % size[q]]}]
  /\ fetched' = [fetched EXCEPT ![q] = Succ(@)]
  /\ UNCHANGED <<rings, kicked, arrived, misreported, msi, wire, evt, rxbuf,
                 txbuf, driver>>

Sleep(q) ==
  /\ kicked[q]
  /\ fetched[q] = availIdx[q]
  /\ kicked' = [kicked EXCEPT ![q] = FALSE]
  /\ UNCHANGED <<rings, fetched, held, arrived, misreported, msi, wire, evt,
                 rxbuf, txbuf, driver>>

\* Write the used entry, then the index, then raise the interrupt (26).  The id
\* written is d, or (once) one outside the pool.
ReturnUsed(q, d) ==
  /\ \E wrong \in {FALSE, ~misreported} :
       /\ used' = [used EXCEPT ![q][usedIdx[q] % size[q]] =
                      IF wrong THEN OutsideId(q) ELSE d]
       /\ misreported' = (misreported \/ wrong)
  /\ usedIdx' = [usedIdx EXCEPT ![q] = Succ(@)]
  /\ held' = [held EXCEPT ![q] = @ \ {d}]
  /\ msi' = [msi EXCEPT ![q] = ByInterrupt]

Receive(d) ==
  /\ d \in held["rx"] /\ arrived < MaxRx
  /\ arrived' = arrived + 1
  /\ \E m \in BOOLEAN : rxbuf' = [rxbuf EXCEPT ![d] = [n |-> arrived + 1, match |-> m]]
  /\ ReturnUsed("rx", d)
  /\ UNCHANGED <<fixed, avail, availIdx, fetched, kicked, wire, evt, txbuf,
                 driver>>

Transmit(d) ==
  /\ d \in held["tx"]
  /\ wire' = Append(wire, txbuf[d])
  /\ ReturnUsed("tx", d)
  /\ UNCHANGED <<fixed, avail, availIdx, fetched, kicked, arrived, evt, rxbuf,
                 txbuf, driver>>

\* The interrupt reaches the eventfd bound to the queue's vector.
DeliverMsi(q) ==
  /\ msi[q]
  /\ msi' = [msi EXCEPT ![q] = FALSE]
  /\ evt' = [evt EXCEPT ![Eventfd(q)] = TRUE]
  /\ UNCHANGED <<rings, fetched, held, kicked, arrived, misreported, wire,
                 rxbuf, txbuf, driver>>

\* The device executes the command and writes the ack byte, then the used
\* entry and the index.
AnswerCommand ==
  /\ sample \in ControlSamples /\ ctl.stage = "published"
  /\ \E a \in {"ok", "err"} :
       ctl' = [ctl EXCEPT !.ack = a, !.stage = "answered", !.applied = (a = "ok")]
  /\ UNCHANGED <<sizes, avail, availIdx, used, usedIdx, device, evt, rxbuf, txbuf, driver>>
ReturnCommand ==
  /\ ctl.stage = "answered"
  /\ ctl' = [ctl EXCEPT !.stage = "returned"]
  /\ UNCHANGED <<sizes, avail, availIdx, used, usedIdx, device, evt, rxbuf, txbuf, driver>>

DriverStep == \/ WaitForAck \/ ReadAck
              \/ LoopTop \/ ReadRxIdx \/ SkipOutsideId \/ SkipPacket
              \/ EchoPacket \/ EchoOrWait \/ AwaitTxSlot \/ CountPacket
              \/ KickTx \/ Recycle \/ KickRx \/ EndRx \/ Poll \/ PollTimeout
              \/ TxDrain \/ TxPoll \/ TxPollTimeout

Next == \/ DriverStep \/ DeadlinePasses \/ AnswerCommand \/ ReturnCommand
        \/ \E q \in Queues : Fetch(q) \/ Sleep(q) \/ DeliverMsi(q)
        \/ \E d \in Pool("rx") : Receive(d)
        \/ \E d \in Pool("tx") : Transmit(d)

Spec == Init /\ [][Next]_vars

\* The driver's thread runs, interrupts arrive, and a device that has been
\* notified fetches and transmits.  Packets need not arrive, the device need
\* not answer the command, and the deadline of a loop need not pass; that of
\* the waits inside it does.
FairSpec == /\ Spec
            /\ WF_vars(DriverStep)
            /\ WF_vars(pc \in {"ctrl_wait", "tx_wait"} /\ DeadlinePasses)
            /\ \A q \in Queues : WF_vars(Fetch(q)) /\ WF_vars(DeliverMsi(q))
            /\ \A d \in Pool("tx") : WF_vars(Transmit(d))

----
TypeOK ==
  /\ sample \in Samples
  /\ ctl \in [ack : {AckInitial, "ok", "err"}, stage : {"published", "answered", "returned"},
              applied : BOOLEAN, matched : 0 .. MaxPackets]
  /\ size \in [Queues -> 1 .. DeviceSize]
  /\ \A q \in Queues : /\ avail[q] \in [0 .. size[q] - 1 -> Pool(q)]
                       /\ used[q] \in [0 .. size[q] - 1 -> Pool(q) \cup {OutsideId(q)}]
                       /\ held[q] \subseteq Pool(q)
  /\ availIdx \in [Queues -> Idx] /\ usedIdx \in [Queues -> Idx]
  /\ fetched \in [Queues -> Idx] /\ last \in [Queues -> Idx]
  /\ kicked \in [Queues -> BOOLEAN]
  /\ msi \in [Queues -> BOOLEAN] /\ evt \in [Queues -> BOOLEAN]
  /\ arrived \in 0 .. MaxRx
  /\ cur \in Idx /\ i \in 0 .. size["rx"] /\ rxid \in Pool("rx")
  /\ in_flight \subseteq Pool("tx")
  /\ made_progress \in BOOLEAN /\ late \in BOOLEAN
  /\ pc \in {"top", "rx_idx", "rx_entry", "kick_tx", "recycle", "kick_rx", "poll",
             "tx_wait", "drop", "kick_drop", "ctrl_wait", "ctrl_ack",
             "tx_drain", "tx_poll", "done", "failed"}

\* The ids in the available ring that the device has not fetched, and those
\* in the used ring that the driver has not handled, as bags of positions.
Window(from, to) == 0 .. Delta(from, to) - 1
InAvail(q, d) == {k \in Window(fetched[q], availIdx[q]) :
                    avail[q][((fetched[q] + k) % IdxWrap) % size[q]] = d}
Handled(q) == CASE q = "rx" /\ pc = "rx_entry" -> i
                [] q = "rx" /\ pc \in {"tx_wait", "kick_tx", "recycle", "drop", "kick_rx",
                                      "kick_drop"} -> i + 1
                [] OTHER -> 0
NextUsed(q) == (last[q] + Handled(q)) % IdxWrap
InUsed(q, d) == {k \in Window(NextUsed(q), usedIdx[q]) :
                   used[q][((NextUsed(q) + k) % IdxWrap) % size[q]] = d}
InHand(q, d) == q = "rx" /\ pc \in {"tx_wait", "kick_tx", "recycle", "drop"} /\ rxid = d

Owners(q, d) == Cardinality(InAvail(q, d)) + Cardinality(InUsed(q, d))
                + (IF d \in held[q] THEN 1 ELSE 0)
                + (IF InHand(q, d) THEN 1 ELSE 0)

\* Between driver and device every descriptor has at most one owner, the
\* rings never hold more entries than they have slots, and a TX slot the
\* driver takes for free is owned by nobody: no buffer is handed out twice
\* and no ring entry is overwritten before it is read, across any number of
\* index wraps.
OneOwner ==
  /\ TypeOK
  /\ \A q \in Queues : \A d \in Pool(q) : Owners(q, d) <= 1
  /\ \A q \in Queues : /\ Delta(fetched[q], availIdx[q]) <= size[q]
                       /\ Delta(NextUsed(q), usedIdx[q]) <= size[q]
  /\ \A d \in Pool("tx") : Owners("tx", d) = 1 => d \in in_flight

LoopLeft == pc \in {"tx_drain", "tx_poll", "done", "failed"}

\* As long as the device reports its ids truthfully no RX descriptor is ever
\* lost while the loop runs: the pool stays as large as it was.
NoRxLeak == (~misreported /\ ~LoopLeft)
              => \A d \in Pool("rx") : Owners("rx", d) = 1

\* 28 to 30 observe only under a command the device has executed and
\* acknowledged: an ack byte read after a timeout, when the device has not
\* written it or writes it later, is never taken for consent.
AckBelieved == sample \in Observers /\ pc \notin {"ctrl_wait", "ctrl_ack", "failed"}
                 => ctl.applied

\* What goes out on the wire are answers to matching packets that arrived,
\* each at most once: no answer is overwritten by a later one before the
\* device has read it, and no used entry is handled twice.
EchoesOnce == /\ \A k \in 1 .. Len(wire) : wire[k] \in 1 .. arrived
              /\ \A j, k \in 1 .. Len(wire) : wire[j] = wire[k] => j = k

\* A buffer published for transmission is not written again until the device
\* has completed it.
TxBufferStable ==
  [][\A d \in Pool("tx") : (d \in held["tx"] \/ InAvail("tx", d) # {})
                              => txbuf'[d] = txbuf[d]]_vars

\* No lost interrupt: when the driver blocks in poll() although the device
\* has returned something it has not seen, an eventfd is readable or an
\* interrupt is on its way.  In tx_poll only TX completions are of interest.
NoMissedInterrupt ==
  /\ pc = "poll" /\ (last["rx"] # usedIdx["rx"] \/ AnyTxUsed)
       => \E q \in Queues : evt[q] \/ msi[q]
  /\ pc = "tx_poll" /\ AnyTxUsed => \E q \in Queues : evt[q] \/ msi[q]

\* No lost notification: while the device sleeps there is nothing for it to
\* fetch, but for an entry whose notify the driver is about to write.
NoMissedNotify ==
  /\ fetched["rx"] # availIdx["rx"] => kicked["rx"] \/ pc \in {"kick_rx", "kick_drop"}
  /\ fetched["tx"] # availIdx["tx"] => kicked["tx"] \/ pc = "kick_tx"

\* Everything the device returns on the RX queue is looked at, or the loop
\* ends (all answers sent, or the deadline has passed).
RxConsumed == last["rx"] # usedIdx["rx"]
                ~> (last["rx"] = usedIdx["rx"] \/ LoopLeft)
====
