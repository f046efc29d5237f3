# advcpp in TLA+

TLA+ models, TLC runs and machine-checked proofs of the programs in this
repository: io_uring servers (`io_uring/`), userspace virtio drivers over VFIO
(`userspace_drivers/`) and DPDK samples (`dpdk/`). `PROJECT.json` maps every
definition that stands for code to the lines it stands for.

To repeat a check, in this directory: `tlc -config EchoServer.cfg EchoServer`
(each `.cfg` names its module in the table below), `tlapm MultithreadEchoProofs.tla`.

## 1. Inventory

### io_uring

All servers share one shape: a loop that calls `submit_and_wait`, then handles
the completions (CQEs) that were there when it returned. Handling a completion
prepares new submissions (SQEs), which the kernel sees at the next submit.

| component | state | operations | talks to |
|---|---|---|---|
| `Ring` (`io_uring_utils.hpp`) | submission and completion queue | `get_sqe` (throws when full), `submit_and_wait`, `wait_batch`, `peek`, `seen` | kernel |
| 07 batched / naive, 09 SQPOLL (`07_echo_common.hpp`) | `clients`: fd to buffer, send length and offset | `handle_cqe`: accept, recv, send | ring; completions carry (op, fd) |
| 10, 11 | as above, and a ring of provided buffers shared by all clients | recv picks a buffer, send gives it back, `-ENOBUFS` retries | ring, buffer ring |
| 12, 14, 17, 18 | one coroutine per client, resumed through a pointer in the completion | accept loop, recv/send loop; linked timeout (14), splice through a pipe (17), descriptor table (18) | ring |
| 15 | coroutines, `client_fds`, `shutting_down` | signal watcher cancels accept and clients; loop exits when no client is left | ring, signalfd |
| 19 | accept thread; per worker a lock-free `FdQueue`, an eventfd, a ring, coroutines | push + write eventfd; poll, drain, serve | threads, through queue and eventfd |
| 13 file server | one coroutine per client with a request, a file and an offset | request, header, chunks read and sent, close of client and file on every path | ring, file system |
| 07 epoll | `clients`: a set of descriptors | accept until `EAGAIN`, read once, write back what was read | non-blocking sockets |
| 08 bench | per client: rounds left, send and receive offset; `clients_done` | connect, send, receive and compare, verdict and exit code | ring, a server |
| 03 to 06 copies | one or two buffers, `read_off`, `write_off` | read, write; a linked pair (04); read and write at once (05, 06) | ring, file system |
| 01, 02, 16 | see section 8 | | |

Hard here: what a batch of completions asks of the submission queue;
descriptor numbers reused by the kernel as soon as they are closed; short
sends; a pool that runs dry; two completions for one await; a signal handled in
the middle of a batch; two threads on a queue without locks and a wakeup that
must not be lost.

What makes them correct: every accepted client has exactly one operation under
way (or one for each purpose), what comes back is what was sent, nobody waits
for ever, the queue does not overflow, and shutdown ends; a file arrives whole,
a copy or a benchmark that reports success is right to.

### userspace_drivers

04 binds and unbinds drivers and 05 creates virtual functions, by writing sysfs
files they have read before. From 06 on each sample opens a VFIO device, looks up
its capabilities, maps its registers, walks the virtio handshake as far as it wants to show, and undoes everything. What must be undone is held by
locals whose destructors run in reverse order: `VfioContext`, IRQ bindings,
`PciCommandGuard`, `MappedRegion`, `QueueSelectionGuard`, `AnonymousBuffer`,
`DmaMapping`, `DeviceResetGuard`. Every register read is checked and may throw.
From 21 on the samples exchange packets over virtqueues in memory shared with
the device; 25 and 26 loop, 26 with interrupts; 27 to 30 send commands on the
control queue. Without `--yes` most samples print a plan instead of doing anything.

Hard here: any of some forty checks may throw between any two steps; the device
is asynchronous (it resets when it likes, returns buffers between any two of
the driver's reads, interrupts late); ring indices wrap at 2^16 and slots at the
queue size; interrupts are level-less counters that have to be drained before
the rings are looked at; the plan of a dry run is a second copy of what the
sample does; capability list, offsets and sizes come from the device or the
command line, and every sum of them may be too large.

What makes them correct: the device is told to stop before its memory goes; a
sample leaves the device as it found it; no descriptor is lost or has two
owners; no buffer is written while the device may read it; no interrupt or
notification is missed; an acknowledgement is believed only when it was given;
without consent nothing is changed; no two areas of the shared memory overlap.

### dpdk

01 to 03 bring up EAL, read and print; 04 to 06 drive a port through configure,
mempool, queue setup, start, stop, close and EAL cleanup, each of which may fail.
There are no destructors: the end of the `try` block and its handler each undo
what three locals say was done.

## 2. Modules

| module | models | composes |
|---|---|---|
| `FdChannel` | abstract: a bounded FIFO | |
| `FdHandover` | 19: the capacity and the descriptors `FdQueue` and `MultithreadEcho` share | |
| `FdQueue` | 19: `push` and `pop`, one shared access per step | implements `FdChannel` |
| `MultithreadEcho` | 19: accept thread, workers, eventfds, rings, coroutines | |
| `MultithreadEchoProofs` | | theorems about `MultithreadEcho` and `FdQueue` |
| `IoRing` | `Ring` over an abstract kernel: operators, no behaviour of its own | |
| `IoRingProofs` | | lemmas about the operators of `IoRing` |
| `EchoService` | abstract: on each connection a prefix of what was written comes back | |
| `EchoServer` | 07 batched, 07 naive, 09 | `IoRing`; implements `EchoService` |
| `EchoServerProofs` | | theorems about `EchoServer`, on `IoRingProofs` |
| `BufferEcho` | 10, 11 | `IoRing` |
| `BufferEchoProofs` | | theorems about `BufferEcho`, on `IoRingProofs` |
| `CoroutineEcho` | 12, 14, 17, 18 | `IoRing`; implements `EchoService` |
| `FileServer` | 13 | extends `CoroutineEcho` (same accept and event loop) |
| `MCCoroutines` | | one behaviour is one of 12, 13, 14, 17, 18 |
| `CoroutineEchoProofs` | | theorems about `MCCoroutines`, on `IoRingProofs` |
| `GracefulShutdown` | 15 | `IoRing` |
| `GracefulShutdownProofs` | | theorems about `GracefulShutdown`, on `IoRingProofs` |
| `VirtioEcho` | 25 to 30 once they run: driver loop, virtqueues, control command, device, interrupts | |
| `VirtioEchoProofs` | | theorems about `VirtioEcho` |
| `SamplePrograms` | 06 to 30: what each command line does, as data | |
| `VirtioBringUp` | 06 to 30: bring-up, failure and cleanup | runs `SamplePrograms` |
| `DeviceWindows` | `vfio_utils.hpp`: capability list, mapped windows | |
| `DmaMemory` | `virtio_net_vfio.hpp`: layout of the shared memory | |
| `SysfsControl` | 04 bind/unbind, 05 SR-IOV | |
| `PortLifecycle` | `dpdk/` 01 to 06 | |
| `CopyLoop` | 03 to 06 of `io_uring/` | |
| `EpollEcho` | 07 epoll, and the sockets between it and its clients | |
| `EchoBench` | 08 | `EpollEcho`, `IoRing` |
| `MCPrograms` | | `VirtioBringUp`, `DeviceWindows`, `DmaMemory`, `SysfsControl`, `PortLifecycle`, `CopyLoop`, `EchoBench` |
| `ProgramProofs` | | theorems about `SysfsControl`, `PortLifecycle`, `DeviceWindows`, `DmaMemory`, `CopyLoop`, `EchoBench` and `MCPrograms` |

The programs `MCPrograms` puts together do not talk to one another. A behaviour is
of one of them, and the others stand still in a state in which they have ended;
so what is checked is what would be checked of each alone, plus the two
properties that are about all of them (`NothingWithoutYes`, `ProgramEnds`).

### How state and actions correspond to the code

*FdQueue.* `data`, `head`, `tail` are the members; `t`, `pfd`, `h`, `cfd` the
locals of `push` and `pop`; `ppc`, `cpc` say which line is next. `PushLoadTail`,
`PushLoadHead`, `PushWrite`, `PushStoreTail` are the four accesses of `push`, and
alike for `pop`. C++ lets an acquire load return an old value, but never one
older than the thread has seen: `vhead` and `vtail` are the newest seen, and a
load moves them by any number of stores up to the present. Slots are plain
`int`s, so two accesses at once would be a data race: `NoSlotRace` excludes it.

*MultithreadEcho.* The queue is here the channel that `QueueImplementsChannel` shows it
to implement. `apc` is the accept thread between `push` and `write`; `wpc` the
worker between `submit_and_wait`, the completions of a batch, the `read` of the
eventfd and the pops. `sq`, `kernel`, `cq`, `batch` are the places an operation of
a worker's ring goes through; a client's operation is named by its descriptor,
`NEW_CONN_TAG` is the poll. `up` becomes false when `get_sqe` throws (nothing
catches it in a worker thread, so the process ends).

*IoRing.* `sq` (prepared), `flight` (taken by the kernel), `cq` (completed, in
order), `ready` (how many of them this batch has left), `pc`. Operations are
records. With SQPOLL the kernel may take entries at any time after they are published.

*EchoServer.* `clients`, `buf`, `offset` are the `Client` records; `conns`,
`wrote`, `read`, `echoed` the connections as clients see them. Bytes are their
own positions in the stream, so order and duplication show. `HandleAccept`,
`HandleRecv`, `HandleSend`, `HandleFailed` are the branches of `handle_cqe`. The
variant (`batched`, `naive`, `sqpoll`) is chosen in `Init`.

*BufferEcho.* `pool` is the provided-buffer ring, `content` what is in the
buffers, `table` the kernel's descriptor table (a send may go to whoever has the number
now). `multishot` chooses between 10 and 11. `submit_and_wait` is one step for each
entry (`SubmitNext`), so other clients' traffic can fall between two of them, and one
to wait (`Submitted`).

*CoroutineEcho.* `co[fd]` is what the coroutine of a client awaits. The variant
chooses whether a recv brings a linked timeout, whether the data goes through a
pipe (`NoPipe`: `pipe2` fails) and whether closing is an operation of its own.

*GracefulShutdown.* `co`, `client_fds`, `shutting_down` as in the code; `flight`
is what a cancellation can find. Cancellations are executed at submission, in
order, among the other entries (`SubmitWaits`, `SubmitCompletes`,
`SubmitCancel`). `raced` is a history variable: something was started after the signal.

*FileServer.* A client of 13 is a client of `CoroutineEcho` with another coroutine:
`co[fd]` is again what it awaits. `Request` is what follows the first receive
(there is such a file, or not), `AllSent` and `ChunkRead` the loop over the file,
`EndClient` and `GivesUp` the ways out. `ending` remembers which of the two it was.

*VirtioEcho.* `avail`, `availIdx`, `used`, `usedIdx` are the shared rings, `last`
the `last_*_used_idx`, `cur` and `i` the snapshot and loop index, `in_flight` the
TX slots. `sample` chooses the program: 26 waits in `poll`, 25 looks again every
10 ms, 27 to 30 first wait for the byte `ctl.ack`. The environment is the device (`Fetch`,
`ReturnUsed`, `Receive`, `Transmit`, `Sleep`, and what it does with the command), the
interrupt path (`DeliverMsi`) and the clock (`DeadlinePasses`). The device may
once report an id outside the pool, which the code checks for.

*SamplePrograms, VirtioBringUp.* `Mains` holds, for each sample, the invocations its
`main` accepts; an invocation is the sequence of device-visible operations of
`run_*()` and what the dry run announces (`would`) and rules out (`wont`). Each
kind of operation is an action. A check that may throw is `Look` or a failing
branch; `Unwind` runs one destructor per step, youngest local first.
`resetting` is a reset that was asked for and not completed (`CompleteReset` is
the device's). 13 to 20 repeat the guards of `virtio_net_vfio.hpp` in their own
files, so `map` names one of the copies.

*DeviceWindows.* `cap`, `visited`, `hop`, `caps` are the locals of `read_virtio_caps`;
`bar` is what the device says of the capability to be mapped and VFIO of its
region, `window` what is mapped; numbers are 64-bit words with a largest one (`WordMax`),
and sums wrap (`WordSum`). *DmaMemory.* One step: `request` in, `layout`
out, in numbers with a largest one (`SizeMax`); `Thrown` is an exception.

*SysfsControl.* `sysfs` is the kernel's state, `seen` what the last read returned;
every write may fail, be refused in silence, or come after `Disturb`.

*PortLifecycle.* `Calls` lists the calls of each sample; `step` is the next,
`down` the next of the tear-down. `configured`, `started` are `main`'s locals, `port`,
`rx`, `tx`, `mempool` what DPDK holds. `refused` remembers a stop or close
DPDK did not grant.

*CopyLoop.* `turn` is the next step of the loop, `transfers` and `completed` what is
under way and what is in the completion queue. A transfer reads or fills its
buffer when it completes, so a buffer used twice at once shows.

*EpollEcho, EchoBench.* `events` is what `epoll_wait` returned, `to_server` and
`to_client` the bytes in the sockets. The client's ring is an instance of
`IoRing` of its own (`r_sq`, `r_flight`, `r_cq`).

## 3. Runs

| run | config, module | question and properties |
|---|---|---|
| `fd_queue` | FdQueue | Is the queue correct without locks? `NoSlotRace`, `QueueInv` (the inductive invariant), `ImplementsChannel` |
| `multithread_echo` | MultithreadEcho | `WakeupInv` (no lost wakeup), `OneHolder` (no descriptor has two holders), `QueuedIsServed` (liveness) |
| `multithread_drop` | MultithreadDrop, MultithreadEcho | violation of `EveryConnectionDelivered` |
| `echo_server` | EchoServer | `OneOperation` (one operation per client, and no queue overflow), `ImplementsService` (refinement), `EveryByteEchoed` (liveness) |
| `buffer_echo` | BufferEcho | `BuffersConserved`, `NobodyForgotten`, `EchoesInOrder`, `EverythingEchoed` (liveness, with fewer buffers than clients) |
| `multishot_order` | MultishotOrder, BufferEcho | violation of `InOrder` |
| `coroutines` | Coroutines, MCCoroutines | `OneAwait` (a completion finds the coroutine that awaits it, an open descriptor has one or is about to get one, and no queue overflow), `FilesServed`, `ImplementsService`, `NobodyStays` (liveness) |
| `graceful_shutdown` | GracefulShutdown | `RegistryExact`, `ShutdownFits`, `ShutdownUnlessRaced` (liveness) |
| `shutdown_raced` | ShutdownRaced, GracefulShutdown | violation of `ShutdownCompletes` |
| `virtio_echo` | VirtioEcho | `OneOwner`, `NoRxLeak`, `EchoesOnce`, `AckBelieved`, `NoMissedInterrupt`, `NoMissedNotify`, `TxBufferStable` (action property), `RxConsumed` (liveness) |
| `programs` | Programs, MCPrograms | see below |
| `mapped_until_reset` | MappedUntilReset, VirtioBringUp | violation of `MappedUntilReset` |

`programs` asks of every program that runs from a command line to an exit code:

| property | of | says |
|---|---|---|
| `InUseIsGuarded` | 06 to 30 | a running device has what it needs and is under the reset guard; it forgets the memory before it is unmapped |
| `NothingLeftBehind` | 06 to 30 | a sample that reaches its end leaves the device as found; one that ends with an exception unmaps, unbinds, restores the selector and has asked for a reset |
| `PlanKept` | 06 to 30 | what the dry run announces and rules out is what `--yes` does and does not |
| `NothingWithoutYes` | 06 to 30, 04, 05, DPDK | without consent no register, mapping, interrupt, port or sysfs file changes (action property) |
| `RegistersReached` | `DeviceWindows` | the walk of the capability list ends and finds nothing twice; an access that is let through stays inside capability, BAR and mappable area, but for the exception of section 4 |
| `MemoryLaidOut` | `DmaMemory` | the areas lie apart on pages of their own; a layout is refused exactly when it does not fit |
| `SysfsOutcome` | 04, 05 | success means it was so; a failure leaves the driver found, asked for, or none |
| `PortTornDown` | DPDK | stopped, closed, memory freed on every path; exit 0 only if so |
| `PoolServesQueues` | DPDK | the packet memory outlives the queues and has a buffer for each descriptor |
| `CopiedOrTold` | 03 to 06 | exit 0 means the destination is the source, but for the exceptions below |
| `BenchVerdict` | 08 with 07 epoll | who passes has had every round echoed; every client is counted once |
| `ProgramEnds` | all but `DmaMemory` | every program ends (liveness); the layout is a computation in one step |

Every module has one type invariant; it is a conjunct of one of the invariants
above. Each property has a mutant of the code in its module (`... Mutant: ...`)
under which it fails.

### Bounds and why they suffice

- `FdQueue`: `CAPACITY` 4 leaves room for three descriptors, so that the queue
  wraps, fills and empties, and the seen indices lag by up to three stores; two
  descriptor values tell order apart. The proofs remove the bound.
- `MultithreadEcho`: two workers (round robin matters), two descriptors,
  `CAPACITY` 2 (one place, so it is often full), `SqDepth` 2 (one short of
  what poll and two clients may want, so overflow happens), `CounterWrap` 3
  bounds `next_worker` (`unsigned` in the code). `WakeupInv` is proved without
  the bounds. `multithread_drop` needs a third descriptor.
- `EchoServer`: two descriptors and two connections, so that a number is closed and
  given out again while the other client is busy; `BufSize` 2 and `MaxBytes` 2,
  so a send can be short; `SqDepth` 3 is one more than the clients, the least that
  suffices.
  `MaxConns` counts accepts, failed ones included.
- `BufferEcho`: two clients and one buffer (10), so the pool runs dry; a
  multishot client and two buffers (11), so two sends are in flight. The order
  violation needs a third byte, hence a configuration of its own.
- `CoroutineEcho`, `FileServer`: `SqDepth` 5 is twice the clients and one, the least
  that suffices; files of 0 and 3 bytes are sent in no chunk and in two.
- `GracefulShutdown`: two descriptors, `SqDepth` 6 = twice the clients and two.
- `VirtioEcho`: `DeviceSize` 3 lets the driver choose sizes 1 and 2; `IdxWrap` 4
  wraps the indices twice as often as the slots, as 2^16 does for a real queue; one TX
  slot, so that it is taken; two packets, matching or not. `IdxWrap` must be a
  power of two larger than the queue, as in the code (assumption `WrapAssumption`).
- `VirtioBringUp`: no bound: every sample and command line, a throw at
  every check, a device that resets at any time or never.
- `DeviceWindows`: pointers to nothing, below 64, unaligned, to another capability, to
  themselves and at the end of the 256 bytes; pages of 8 bytes and regions of 0, 1
  and 2.5 pages, with windows that begin inside a page, cross one, or end beyond
  the region. A word has 6 bits, and offsets are also the last three of a word, so that
  every sum of `map_notify_window` wraps for some capability and does not for another.
- `DmaMemory`: `size_t` of 9 bits and pages of 16 bytes, with buffer sizes at and
  around a page and the largest number, so that each checked sum and product
  is sometimes too large; alignments below and above a page.
- `SysfsControl`: two drivers, two functions, one disturbance.
- `PortLifecycle`: two queues of each kind, two descriptors, four packet buffers: as
  many as two queues need, and fewer.
- `CopyLoop`: blocks of 2 bytes and files of 0 to 5: empty, less than a block, whole
  blocks, and three blocks with a rest, so both buffers are used again.
- `EchoBench`: two clients and two messages of two bytes, so both a client with two
  rounds and two clients of one; every split of sends and receives.

Deadlock is checked for `FdQueue`, `programs` and `mapped_until_reset` (programs
that ended stutter explicitly). The others may stop: the servers when every
bound is used up or the process has ended, 25 to 30 when their loop is over.

### Fairness and why the code justifies it

- Threads run: weak fairness on the server's, the accept thread's, the workers'
  and the driver's steps. They never block but in the modelled waits.
- The kernel completes what it can: data that arrived is received, a poll on a readable
  descriptor fires. For `EverythingEchoed` and `EveryByteEchoed` a client
  that writes is assumed to read as well, since otherwise a send stays under
  way for ever and rightly so; nothing of this kind is assumed in `MultithreadEcho` and
  `GracefulShutdown`.
- `GracefulShutdown`: strong fairness on the signalfd's poll, which the kernel
  looks at every time the server waits.
- `CoroutineEcho`: time passes, so a linked timeout that is not overtaken expires;
  `FileServer`: the disk answers and a client that asked reads its answer.
- `VirtioEcho`: a notified device fetches and transmits, interrupts arrive, and the
  deadline inside a wait passes. Nothing makes packets arrive or commands be answered.
- `MCPrograms`: the program's own thread, the kernel completing transfers of files and of
  sockets that have what is asked for, and the server's thread. Since only one program
  takes steps, fairness to the union of the programs' steps is fairness to that one.
  The device may never reset and the link never come up.

## 4. Findings

1. `multithread_drop` (`19_multithread_echo.cpp:305`): the accept thread ignores
   the `false` of a full queue. The connection stays open and nobody serves it.
2. `shutdown_raced` (`15_graceful_shutdown.cpp:215`): the watcher cancels what is
   under way when it runs. A completion behind the signal's in the same batch starts a recv,
   send or accept that no cancellation reaches, and no coroutine looks at
   `shutting_down`: the server goes on.
3. `multishot_order` (`11_multishot.cpp:228`): two sends of one client can be
   under way at once and nothing orders them.
4. `mapped_until_reset` (`virtio_net_vfio.hpp:446`): the reset guard's destructor does not
   wait for the reset it asks for, and the DMA memory is unmapped next; the
   guide (`linux_driver_develop_101.md:2082`) says the memory must stay mapped until the
   reset is complete. On the regular path the code does wait.

What else was met while reading, and is in the models:

- 05 and 06 advance by what they asked for: a short read leaves a hole in the
  copy, which then reports success; no copy looks at short writes. 04's linked pair turns a
  short read into an error. `CopiedOrTold` names exactly these exceptions.
- The epoll server drops what a short `write` leaves (its comment says so); the
  benchmark then waits for ever (`shortened` ends such a behaviour). A write on a
  connection the client has reset raises SIGPIPE. The benchmark exits 0 also when clients failed.
- 14 with `--show --yes` writes feature selectors without a guard; 13 leaves the
  status bits it was asked to set; 27 exits 0 when the device refuses the command.
- The packet pool of 05 and 06 (DPDK) is freed also after DPDK refused to stop or close the port.
- `map_notify_window` checks that the offset of the notify bytes has not wrapped
  (`vfio_utils.hpp:961`), but not that their end has not: for the last two offsets of 64 bits
  `bar_offset + 2` (959, 962) is 0 or 1 and passes both comparisons. Without a list of
  mappable areas only `mmap` can refuse the window. `RegistersReached` names this
  exception (`NotifyWraps`).
- 11 closes a client once more with each of its sends that fails, by number (`11_multishot.cpp:241`).
- An alignment above the page size holds relative to the ring's page, not in IOVA.
- A check that throws between negotiation and the reset guard leaves status bits set.

Two comments disagree with the code without consequence: `14_timeout.cpp:97`
("The coroutine is resumed after BOTH CQEs arrive"; the recv's completion alone
resumes it, which `OneAwait` shows to be safe) and the "Multishot accept" heading at
`18_registered_fds.cpp:183` over a single-shot `accept_direct`.

## 5. Proofs

`MultithreadEchoProofs` proves of `FdQueue`, from `CapacityAssumption` (a positive number) and
`FdsAssumption` (numbers) only:

- `QueueInvariance`: `QueueSpec => []QueueInv`. `NoSlotRace` is not inductive: that
  producer and consumer never stand on one slot follows from what the indices they have *seen* say
  about the real ones. `QueueInv` states that going round the array from the
  oldest head the producer may believe in, one meets `vhead`, `head`, `vtail`,
  `tail` in this order (`IndexOrder`), and what the locals of an unfinished call
  say of the shared state (`PushLocals`, `PopLocals`). The lemmas `DistType`,
  `DistInjective`, `DistSplit`, `DistJoin`, `SlotDist` and `SlotNext` are the modular arithmetic
  of the array, stated once so that the step proofs need no `%`.
- `SlotRaceFreedom`: `QueueSpec => []NoSlotRace`. If both were on one slot, `head = tail`,
  which `PopLocals` excludes.
- `QueueImplementsChannel`: `QueueSpec => ImplementsChannel`, the refinement with
  `Contents` (the slots from `head` to `tail`) as the channel's queue. Only the
  two index stores are visible steps; `PushWrite` writes outside `Contents`.

and of `MultithreadEcho`, for every number of workers, capacity, ring size and
counter width:

- `WakeupInvariance`: `Spec => []WakeupInv`. "No lost wakeup"
  (`NoLostWakeup`) alone is not inductive: it needs that a worker's poll is always
  somewhere on its way round the ring (`PollOnItsWay`), that a worker waits
  only after it has handled its batch (`BatchConsumed`), and the types. Each
  conjunct has a lemma with one step per action.
- `HolderInvariance`: `Spec => []OneHolder`. The invariant counts nothing: it says
  pairwise of the places a descriptor can be in (queues, rings, batches, the accept
  thread's hands) that they have no descriptor in common; that the sum of
  cardinalities in `Holders` is at most 1 follows from it.

`IoRingProofs` states once what the operators of `IoRing` do to "this group of operations
is pending at most once" (`Once`, `Absent`): prepare, submit, complete, consume. The
four modules about servers cite these lemmas and never look into the ring.

`EchoServerProofs` proves, from a finite set of descriptors:

- `OneOperationAlways`: `Spec => []OneOperation`. `ServerInv` strengthens it by
  `NotYetClient` (while the completion of an accept waits in the queue, its descriptor
  has no client: otherwise handling it would start a second recv), `NaiveBatch` (the naive
  server's two entries) and the types. That the queue does not overflow is counted by
  an injection of the entries into the descriptors and the accept.
- `ServersImplementService`: `Spec => ImplementsService`. `InStep` says where each
  connection stands between a recv and the last byte of its echo: which bytes of the
  buffer are those last read, and how many of them have been sent. With it
  every step is a step of the abstract service or leaves what the service sees alone.

`GracefulShutdownProofs` proves, from a finite set of descriptors and `SqDepth >= 2`
(with a queue of one the program ends in `main`, before any loop):

- `RegistryExactAlways`: `Spec => []RegistryExact`, from `ShutdownInv`, which adds what
  is pending of the signal watcher (`WatchedOnce`: the poll, or one cancellation each) and
  `NotYetClient` as above.
- `ShutdownFitsAlways`: `Spec => []ShutdownFits`. A queue holds at most one entry of
  each group, two groups for each descriptor and two more; the entries inject into the groups.

`BufferEchoProofs` proves, for every set of descriptors and every size of pool and buffer:

- `BuffersAlwaysConserved`: `Spec => []BuffersConserved`. The sum of cardinalities in `Places` is
  no invariant to reason with; `OnePlace` says of each buffer that it is at most once in the
  pool, at most once in a completion with data, with at most one send, and that these exclude
  each other and one of them holds. `BufferInv` adds the types, and that what the kernel has
  in flight is on a connection. It says nothing of who a send is for, so it
  also covers a send that fails because its descriptor has been closed, and the
  sends of a multishot client that overtake each other.
- `NobodyEverForgotten`: `Spec => []NobodyForgotten`, from `ClientInv`, which differs between
  the exercises. In 10 (`SingleInv`) every client has exactly one operation, queued, in flight or
  completed, and it is on the connection the client's descriptor names now; a completion
  that makes the server drop a client is that client's doing, or the invariant would not
  survive a descriptor number that is used again; and a new connection whose accept
  has not been handled is nobody's client yet. In 11 (`MultiInv`) a recv that has completed
  with more to come is still in flight, or another completion of it follows.
- `EchoesAlwaysInOrder`: `Spec => []EchoesInOrder`, from `OrderInv`. `InStep` says where a
  connection stands between a recv and the last byte of its echo: `Asked` (for what the server
  has asked for) and `Answered` (for what has completed) relate the bytes read, the bytes
  echoed, and the content and offset of the buffer the one operation names. That this buffer is
  nobody else's is `BufferInv`, that there is one operation is `ClientInv`.

`CoroutineEchoProofs` proves of the composition `MCCoroutines`, for every set of descriptors, every size
of queue, buffer and file, and, for 13, a buffer a header fits in (`HeaderAssumption`; in the code it
is forty times a header):

- `ServerInvariance`: `MCSpec => []ServerInv`. `OnePending` says of every client that its coroutine
  has one operation somewhere on the ring, of the kind it awaits; `TimeoutsQueued` that a linked timeout
  is in the queue only behind its recv; `NotYetClient` that the descriptor of an accept not yet
  handled has no coroutine, or (18, whose slots are closed by an operation) that the completion which ends
  the coroutine of the slot's last client comes earlier in the queue. `InPhase` says which
  bytes the client has when its operation has been asked for (`Asked`) and when it has completed
  (`Answered`). Two lemmas reduce the proof: every handler is a case of `Resumed` or
  `AcceptHandled`, and every completion one of `Completed`, also the one that posts a recv and its timeout
  together; `RingCases` says that a step is one of these or leaves the coroutines alone.
- `OneAwaitAlways`: `MCSpec => []OneAwait`. The queue is counted by an injection of its entries into
  numbers: 0 for the accept, a descriptor for its operation, its negative for its timeout (`QueueFits`). A
  handler finds room because the client whose completion it handles has nothing in the queue (`NextStaysUp`).
  That no descriptor is lost is `NoneLost`: an open one is in accept's completion or has a coroutine, and if
  that is closing a slot, the close has not been done (`NextNoneLost`).
- `CoroutinesImplementService`: `MCSpec => ImplementsService`, with the bytes received as the bytes written.
  `EchoedNext` is the step that matters: what a send takes out of the buffer are the next bytes.
- `FilesServedAlways`: `MCSpec => []FilesServed`. `Replying` says that what has come to the client is
  the header, or the header and the file up to `offset` and the part of the chunk that has been sent.

`ProgramProofs` proves of the programs that run alone, for every value of their constants:

- `SysfsBelieved`: that what was read has really been there (`SysfsInv`), also when
  somebody else writes sysfs between a read and a write.
- `PortAlwaysTornDown`, `PoolAlwaysServes`: `PortInv` records which of the calls of a
  sample's list have been made (`CallsMade`) and what the teardown has left (`TearDown`).
- `RegistersAlwaysReached`: `WalkInv` (the walk has been to as many of the 48 slots as it
  has hopped) and `WindowInside`, which is linear arithmetic over page-aligned addresses,
  for every word size. `WordSumFacts` says that a sum is exact or has wrapped, and the check of
  line 961 then rules out that the offset has; the exception of section 4 is part of the statement.
- `MemoryAlwaysLaidOut`: `MemorySpec => []MemoryLaidOut`, for every `size_t` of at least 8 bits that
  page and alignment divide, so also for 64 bits. There is one step, and the argument is
  arithmetic: `AlignUpExact`, `VringExact` and `ProductExact` say of each checked operation that it
  gives the exact number or throws, and throws exactly when that number does not fit;
  `UpAfter` that rounding up what begins on a page rounds the part after it; `MultipleFits` that a
  whole page is left after every page below the top, which is why the sum of the command area, added
  without a check, does not wrap. `StartsUnfold` gives the recursive function of the starts
  its value, which needs no induction because a layout has at most five areas, and
  `NextStart` adds one area to it.
- `CopiesTell`: `CopySpec => []CopiedOrTold`, for every block and file size. `CopyInv` says
  turn by turn which transfers are under way, completed or reaped and what the ones that are
  no longer under way have done (`HasRead`, `HasWritten`): `BlockRead` and `BlockWrite` for 03, `PairInv`
  for 04, `RoundInv` and `DrainInv` for 05 and 06, whose two transfers may end and be
  reaped in either order (`Flow`). All of it is said for a `GoodCopy`, one to which nothing
  has happened that the program does not look at; that is where the exceptions of the property come from.
  The data is a byte's number, so "the file holds the first n bytes" (`CopiedTo`) is an
  equation of sequences, and what a write of a buffer makes of it is one lemma.
- `BenchAlwaysTrusted`: `BenchSpec => []BenchVerdict`, for every number of clients, rounds and bytes of
  a message, with sends, receives, the server's reads and its writes cut anywhere, failures
  and the server's end included. `BenchInv` says of every operation in the ring (`Awaited`, `BenchResults`)
  in which round its client is (`InRound`), and that a client has at most one (`OnePlace`), so that
  `clients_done` counts the clients that have none (`Counted`) and a handler never finds the
  submission queue full. That an echo of the full length is the message, although `recv_buf` still
  holds the last round and the server may have lost bytes in between, needs `InOrder`: what is in
  `recv_buf`, on its way to the client and on its way to the server are three parts that rise
  (`Rises`), one after the other, up to what has been sent. A part of full length is then
  all of it, and the connection is empty for the next round (`WholeEchoInOrder`). `RisesCut` and
  `RisesThen` cut and join such parts, which is all that a read, a write, a send or a receive does.
- `ProgramsKeepTheirWord` and `ConsentFirst` (`MCSpec => NothingWithoutYes`, an action
  property) carry the results over to the composition `MCPrograms`, whose run checks them
  (but for `MemoryLaidOut`: the request at which that part is parked need not be in every set of requests).

`VirtioEchoProofs` proves, from the assumptions of `VirtioEcho` (an index width of 1 to
16 bits, queues the device allows) and nothing else:

- `AckAlwaysBelieved`, `NotifyAlwaysWritten`, `InterruptNeverMissed`, each
  from a small invariant of its own. The interrupt one says of *every* place in the loop what
  has still to be looked at: with a shared eventfd, draining it for one queue must not hide the other.
- The lemmas before them (`WrapFacts`, `DeltaFacts`, `Advanced`, `Extended`, `Apart`) are the
  arithmetic of ring indices that wrap: every queue size divides the width, and entries of
  a window no longer than the ring have slots of their own.
- `OneOwnerAlways`: `Spec => []OneOwner`. `OneOwner` is not inductive. `OwnInv` adds that one size
  holds both pools (`SizeInv`), that the used entries the loop body has still to handle are there
  (`BodyInv`), and for each queue `Owned`: the entries to fetch, the entries to handle, the
  descriptor in the driver's hands and those the device has are different busy
  descriptors. `Owned` also *counts*: the device may report an id outside the pool, so that what
  is disjoint no longer bounds the rings, but there are never more entries
  than busy descriptors. It is stated over windows of the rings that begin at
  index 0, so that the step lemmas need no modular arithmetic.
- `TxBuffersStable`: `Spec => TxBufferStable`. A slot `reclaim` finds completed, or that is not in
  flight, is by `OwnInv` neither published nor with the device.
- `NoRxLost`: `Spec => []NoRxLeak`. `RxMoves` lists what a step can do to the places of the RX
  descriptors; `NothingLost` (all of the pool is somewhere) is kept by each.
- `EachEchoOnce`: `Spec => []EchoesOnce`, from `EchoInv`: the packets that wait, the
  answers on their way and those on the wire are all different (`Different`), and the used entry
  of a packet that waits for a TX slot still names its descriptor.

The inductive invariants have been model-checked before they were proved, under the constants of the
run of their module.

Only model-checked:

- liveness (fairness and `ENABLED` are out of the prover's reach): `QueuedIsServed`,
  `EveryByteEchoed`, `RxConsumed`, `ShutdownUnlessRaced`, `ProgramEnds` and the like;
- `VirtioBringUp` (`InUseIsGuarded`, `NothingLeftBehind`, `PlanKept`, `ToldBeforeUnmap`): its
  only constant is the set of samples, and the run has all of them, so the run is already exhaustive.

## 6. What the models abstract from

Payloads are byte positions or packet numbers; printing, option parsing,
addresses and packet building are left out, but for the choice of what is
done and for the plans of dry runs. Kernel behaviour is the least the
man pages promise: any operation under way may complete at any time with any
result it can have, in any order. The effect of `std::cout` on scheduling,
memory exhaustion (`bad_alloc`) and `EINTR` are not modelled. The number of pending
connections is not limited. In `VirtioEcho` publishing a ring entry and its
index is one step, because a release fence separates them and the device does
not read beyond the index; a control command's chain of descriptors is one entry. In
`VirtioBringUp` the packets exchanged by 21 to 30 are one `Observe` step. In `DmaMemory` the control queue has its
smallest size.

## 7. Hazards

`PROJECT.json` lists what is hard to test in this code, at its line, with the
properties that would catch it.

## 8. Not modelled, and the plan

Not modelled:

- `io_uring/01`, `02`: one batch of reads, waited for and printed; no state outlives it.
- `io_uring/16`: its control flow is Boost.Asio's, which is not in the repository.
- `userspace_drivers/01` to `03`: they read and print.
- The one packet of 22 to 24: one step here; it is the first turn of 25's loop, which is modelled.
- `parse_region_caps`, option parsing, packet building and parsing: no state, and the
  rest depends only on whether they throw.
- `dpdk_static_compat.cpp` (link stubs), the Python test clients, build files.

What could be proved next: `InUseIsGuarded` for an arbitrary list of operations, which
would need the list as a constant.
