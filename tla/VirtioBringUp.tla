---- MODULE VirtioBringUp ----
(***************************************************************************)
(* How the samples of userspace_drivers/ take a virtio device into use     *)
(* through VFIO and let go of it again.                                    *)
(*                                                                         *)
(* A sample is the sequence of operations of SamplePrograms.  Any          *)
(* operation that checks something may throw; the locals constructed so    *)
(* far are then destroyed in reverse order, and their destructors are what *)
(* the device and the IOMMU see.  A sample that reaches its end has        *)
(* released everything explicitly before the same destructors run.         *)
(*                                                                         *)
(* The device is the environment: a reset asked for by writing 0 to        *)
(* device_status is complete only when the status reads 0.  Until then,    *)
(* once DRIVER_OK, an enabled queue and PCI bus mastering come together,   *)
(* the device may read and write the memory the queue registers point to.  *)
(***************************************************************************)
EXTENDS Naturals, Sequences, SamplePrograms

CONSTANT Samples   \* the samples that may run
ASSUME SamplesAssumption == Samples \subseteq DOMAIN Mains

Bits == {"ACKNOWLEDGE", "DRIVER", "FEATURES_OK", "DRIVER_OK"}

VARIABLES
  invoked, at, mode, \* the sample's invocation, its next operation, how it is going
  locals,           \* what its destructors will release, oldest first
  status, resetting, enabled, select,   \* device_status, a reset asked for and not
                                        \* complete, queue_enable, queue_select
  ours,             \* queues whose address registers point to the sample's memory
  command,          \* the PCI command register allows bus mastering
  mapped, irq,      \* VFIO: the memory is mapped, the eventfds are bound
  original, changed, armed,  \* original_select_ and changed_; active_ of the reset guard
  found             \* the selector and the PCI command the sample found

device == <<status, resetting, enabled, ours, select, command>>
guards == <<original, changed, armed>>
vars == <<invoked, at, mode, locals, device, mapped, irq, guards, found>>

Init ==
  /\ \E sample \in Samples : invoked \in Mains[sample]
  /\ at = 1 /\ mode = "running" /\ locals = << >>
  /\ \/ status \in {{}, {"ACKNOWLEDGE", "DRIVER"}} /\ enabled = {}
     \/ status = Bits /\ enabled \in {{}, {"rx"}, {"rx", "tx"}}
  /\ resetting = FALSE /\ ours = {}
  /\ select \in {"rx", "tx"} /\ command \in BOOLEAN
  /\ mapped = FALSE /\ irq = FALSE
  /\ original = "rx" /\ changed = FALSE /\ armed = FALSE
  /\ found = [select |-> select, command |-> command]

----
Running(op) == mode = "running" /\ at <= Len(invoked.ops) /\ invoked.ops[at][1] = op
Queue == invoked.ops[at][2]
Advance == at' = at + 1 /\ UNCHANGED <<invoked, mode, found>>
Throw   == mode' = "unwinding" /\ UNCHANGED <<invoked, at, found>>
Local(l) == locals' = Append(locals, l)

\* An operation that only checks, looks, or works on the shared memory and the
\* notification windows, and may throw.
Look ==
  /\ \E op \in {"options", "vfio_driver", "layout", "caps", "features", "look", "wait",
               "window", "publish", "transmit", "kick", "recycle"} : Running(op)
  /\ (Advance \/ Throw)
  /\ UNCHANGED <<locals, device, mapped, irq, guards>>

\* Waiting for wait_ms.
Observe == /\ Running("observe") /\ Advance
           /\ UNCHANGED <<locals, device, mapped, irq, guards>>

\* The locals with nothing to undo in the device: open_vfio_context,
\* map_common_cfg, AnonymousBuffer.
Open ==
  /\ \E op \in {"vfio", "common", "buffer"} :
       /\ Running(op)
       /\ \/ Local(op) /\ Advance
          \/ locals' = locals /\ Throw
  /\ UNCHANGED <<device, mapped, irq, guards>>

\* PciCommandGuard and enable_bus_mastering, which checks what it wrote.
EnableBusMastering ==
  /\ Running("command") /\ Local("command")
  /\ \/ command' = TRUE /\ (Advance \/ Throw)
     \/ command' = command /\ Throw
  /\ UNCHANGED <<status, resetting, enabled, ours, select, mapped, irq, guards>>

\* The eventfds are created, then bound in one ioctl.
BindIrq ==
  /\ Running("irq")
  /\ \/ irq' = TRUE /\ Local("irq") /\ Advance
     \/ UNCHANGED <<irq, locals>> /\ Throw
  /\ UNCHANGED <<device, mapped, guards>>
UnbindIrq ==
  /\ Running("unbind")
  /\ \/ irq' = FALSE /\ Advance
     \/ irq' = irq /\ Throw
  /\ UNCHANGED <<locals, device, mapped, guards>>

\* DmaMapping's constructor, or the bare ioctl.
MapDma ==
  /\ \/ Running("map") /\ mapped' = TRUE /\ Local("map") /\ Advance
     \/ Running("map_bare") /\ mapped' = TRUE /\ locals' = locals /\ Advance
     \/ (Running("map") \/ Running("map_bare")) /\ UNCHANGED <<mapped, locals>> /\ Throw
  /\ UNCHANGED <<device, irq, guards>>
\* dma.unmap
UnmapDma ==
  /\ Running("unmap")
  /\ \/ mapped' = FALSE /\ Advance
     \/ mapped' = mapped /\ Throw
  /\ UNCHANGED <<locals, device, irq, guards>>

\* write_status(0)
AskForReset ==
  /\ Running("reset") /\ resetting' = TRUE /\ Advance
  /\ UNCHANGED <<locals, status, enabled, ours, select, command, mapped, irq, guards>>

\* Mutant: no deadline.
AwaitForever ==
  /\ Running("await") /\ ~resetting /\ Advance
  /\ UNCHANGED <<locals, device, mapped, irq, guards>>

\* wait_for_status(0, 1000 ms): the status reads 0, or the deadline has passed.
AwaitReset ==
  /\ Running("await")
  /\ \/ ~resetting /\ Advance
     \/ resetting /\ Throw
  /\ UNCHANGED <<locals, device, mapped, irq, guards>>

\* The status bits, in order; the device may clear FEATURES_OK again.
WriteStatus ==
  /\ \/ Running("ack") /\ status' = {"ACKNOWLEDGE"} /\ Advance
     \/ Running("driver") /\ status' = {"ACKNOWLEDGE", "DRIVER"} /\ Advance
     \/ Running("features_ok") /\ status' = {"ACKNOWLEDGE", "DRIVER", "FEATURES_OK"}
        /\ Advance
     \/ Running("features_ok") /\ status' = {"ACKNOWLEDGE", "DRIVER"} /\ Throw
     \/ Running("driver_ok") /\ status' = status \cup {"DRIVER_OK"} /\ Advance
  /\ UNCHANGED <<locals, resetting, enabled, ours, select, command, mapped, irq, guards>>

\* QueueSelectionGuard, once the queue indices are known to be valid.
GuardSelection ==
  /\ Running("selection")
  /\ \/ Local("selection") /\ original' = select /\ Advance
     \/ UNCHANGED <<locals, original>> /\ Throw
  /\ UNCHANGED <<device, mapped, irq, changed, armed>>

\* selection.select and the checks on the queue: not enabled yet, a size or a
\* vector that can be used.  12 and 18 only look.
SelectQueue ==
  /\ Running("select") \/ Running("view")
  /\ select' = Queue /\ changed' = TRUE
  /\ \/ (Running("select") => Queue \notin enabled) /\ Advance
     \/ Throw
  /\ UNCHANGED <<locals, status, resetting, enabled, ours, command, mapped, irq,
                 original, armed>>
RestoreSelection ==
  /\ Running("restore_select")
  /\ select' = (IF changed THEN original ELSE select) /\ changed' = FALSE
  /\ Advance
  /\ UNCHANGED <<locals, status, resetting, enabled, ours, command, mapped, irq,
                 original, armed>>

\* program_queue_addresses; an access past the mapped range throws half way.
ProgramQueue ==
  /\ Running("program")
  /\ ours' = ours \cup {Queue} /\ (Advance \/ Throw)
  /\ UNCHANGED <<locals, status, resetting, enabled, select, command, mapped, irq, guards>>

\* enable_queue, and queue_enable read back.
EnableQueue ==
  /\ Running("enable")
  /\ \/ enabled' = enabled \cup {Queue} /\ Advance
     \/ enabled' = enabled /\ Throw
  /\ UNCHANGED <<locals, status, resetting, ours, select, command, mapped, irq, guards>>

\* DeviceResetGuard, and disarm.
ArmReset ==
  /\ Running("guard") /\ Local("guard") /\ armed' = TRUE /\ Advance
  /\ UNCHANGED <<device, mapped, irq, original, changed>>
Disarm ==
  /\ Running("disarm") /\ armed' = FALSE /\ Advance
  /\ UNCHANGED <<locals, device, mapped, irq, original, changed>>

\* pci_command.restore
RestoreCommand ==
  /\ Running("restore_command")
  /\ \/ command' = found.command /\ Advance
     \/ command' = command /\ Throw
  /\ UNCHANGED <<locals, status, resetting, enabled, ours, select, mapped, irq, guards>>

----
\* The end of the function body.
Leave ==
  /\ mode = "running" /\ at > Len(invoked.ops) /\ mode' = "leaving"
  /\ UNCHANGED <<invoked, at, locals, device, mapped, irq, guards, found>>

Youngest == locals[Len(locals)]
Pop == /\ mode \in {"leaving", "unwinding"} /\ locals # << >>
       /\ locals' = SubSeq(locals, 1, Len(locals) - 1)
       /\ UNCHANGED <<invoked, at, mode, found>>

\* ~DeviceResetGuard: asks for a reset and does not wait for it.
DestroyResetGuard ==
  /\ Pop /\ Youngest = "guard"
  /\ resetting' = (resetting \/ armed)
  /\ UNCHANGED <<status, enabled, ours, select, command, mapped, irq, guards>>
\* ~DmaMapping: a failing ioctl is swallowed.
DestroyMapping ==
  /\ Pop /\ Youngest = "map"
  /\ mapped' \in {FALSE, mapped}
  /\ UNCHANGED <<device, irq, guards>>
\* ~QueueSelectionGuard
DestroySelection ==
  /\ Pop /\ Youngest = "selection"
  /\ select' = (IF changed THEN original ELSE select) /\ changed' = FALSE
  /\ UNCHANGED <<status, resetting, enabled, ours, command, mapped, irq, original, armed>>
\* ~PciCommandGuard: a failing write is swallowed.
DestroyCommand ==
  /\ Pop /\ Youngest = "command"
  /\ command' \in {found.command, command}
  /\ UNCHANGED <<status, resetting, enabled, ours, select, mapped, irq, guards>>
\* ~IrqIndexBindingGuard, or the handler of 09: a failing ioctl is swallowed.
DestroyIrq ==
  /\ Pop /\ Youngest = "irq"
  /\ irq' \in {FALSE, irq}
  /\ UNCHANGED <<device, mapped, guards>>
\* ~MappedRegion, ~AnonymousBuffer
DestroyMemory ==
  /\ Pop /\ Youngest \in {"common", "buffer"}
  /\ UNCHANGED <<device, mapped, irq, guards>>
\* ~VfioContext: the kernel takes back what was mapped and bound.
CloseVfio ==
  /\ Pop /\ Youngest = "vfio"
  /\ mapped' = FALSE /\ irq' = FALSE
  /\ UNCHANGED <<device, guards>>

Exit ==
  /\ mode \in {"leaving", "unwinding"} /\ locals = << >>
  /\ mode' = (IF mode = "leaving" THEN "done" ELSE "failed")
  /\ UNCHANGED <<invoked, at, locals, device, mapped, irq, guards, found>>
Ended == mode \in {"done", "failed"}
Stop == Ended /\ UNCHANGED vars

\* The device completes a reset: its registers have their initial values.
CompleteReset ==
  /\ resetting /\ resetting' = FALSE
  /\ status' = {} /\ enabled' = {} /\ ours' = {} /\ select' = "rx"
  /\ UNCHANGED <<invoked, at, mode, locals, command, mapped, irq, guards, found>>

Run == \/ Look \/ Observe \/ Open \/ EnableBusMastering \/ BindIrq \/ UnbindIrq
       \/ MapDma \/ UnmapDma \/ AskForReset \/ AwaitReset \/ WriteStatus
       \/ GuardSelection \/ SelectQueue \/ RestoreSelection \/ ProgramQueue
       \/ EnableQueue \/ ArmReset \/ Disarm \/ RestoreCommand \/ Leave
Unwind == \/ DestroyResetGuard \/ DestroyMapping \/ DestroySelection \/ DestroyCommand
          \/ DestroyIrq \/ DestroyMemory \/ CloseVfio \/ Exit
Next == Run \/ Unwind \/ CompleteReset \/ Stop
Spec == Init /\ [][Next]_vars

----
TypeOK ==
  /\ invoked \in UNION {Mains[sample] : sample \in Samples}
  /\ at \in 1 .. Len(invoked.ops) + 1
  /\ mode \in {"running", "leaving", "unwinding", "done", "failed"}
  /\ locals \in Seq({"vfio", "irq", "command", "common", "selection", "buffer", "map", "guard"})
  /\ status \subseteq Bits /\ enabled \subseteq Queues /\ ours \subseteq Queues
  /\ select \in Queues /\ original \in Queues
  /\ found \in [select : Queues, command : BOOLEAN]
  /\ {resetting, command, mapped, irq, changed, armed} \subseteq BOOLEAN

InUse == "DRIVER_OK" \in status /\ ours # {}
QueuesOf == {invoked.ops[k][2] : k \in {j \in 1 .. Len(invoked.ops) :
                                              invoked.ops[j][1] = "enable"}}

ToldBeforeUnmap == ours # {} => mapped \/ resetting

\* A device that runs on the sample's queues (DRIVER_OK) has negotiated its
\* features, has every queue of the sample enabled over mapped memory, and is
\* under the reset guard until a reset is asked for.  And before the memory is
\* unmapped, on whatever path, the device has been told to forget the addresses
\* in its queue registers: the destructors run in the reverse order of
\* DmaMapping and DeviceResetGuard.
InUseIsGuarded ==
  /\ TypeOK /\ ToldBeforeUnmap
  /\ InUse => \/ resetting
              \/ /\ armed /\ mapped /\ enabled = QueuesOf
                 /\ "FEATURES_OK" \in status

Does(op) == \E k \in 1 .. Len(invoked.ops) : invoked.ops[k][1] = op

\* A sample that reaches its end has left nothing for its destructors to undo:
\* no memory mapped, no eventfd bound, no queue address of its own, the PCI
\* command as found, the selector as found or as a reset leaves it, and a
\* device that ran under the reset guard has completed the reset.  One that ends
\* with an exception has no memory mapped and no eventfd bound either, has asked
\* for a reset of a device that knows its queue addresses, and the selector is
\* as found wherever it threw, but for what a reset may have made of it.
Done(kind) == {k \in 1 .. at - 1 : invoked.ops[k][1] = kind}
NothingLeftBehind ==
  /\ mode \in {"leaving", "done"} =>
       /\ ~mapped /\ ~irq /\ ~armed /\ ~changed /\ ours = {}
       /\ command = found.command
       /\ select = (IF Does("reset") THEN "rx" ELSE found.select)
       /\ Does("guard") => status = {} /\ ~resetting
  /\ mode = "failed" =>
       /\ ~mapped /\ ~irq /\ ~changed /\ (ours # {} => resetting)
       /\ select = found.select \/ (Done("reset") # {} /\ select = "rx")

\* What the dry run announced is what --yes does: nothing the plan rules out is
\* ever done, and a sample that reaches its end has done all the plan announces,
\* each for the last time in the order announced.
Last(kind) == CHOOSE k \in Done(kind) : \A j \in Done(kind) : j <= k
PlanKept ==
  LET plan == invoked.plan IN
  /\ \A kind \in plan.wont : Done(kind) = {}
  /\ mode = "done" => /\ \A i \in DOMAIN plan.would : Done(plan.would[i]) # {}
                     /\ \A i, j \in DOMAIN plan.would :
                          i < j => Last(plan.would[i]) < Last(plan.would[j])

\* linux_driver_develop_101.md: once DRIVER_OK is set the vring memory must stay
\* mapped until the reset is complete.
MappedUntilReset ==
  \A q \in ours \cap enabled : "DRIVER_OK" \in status /\ command => mapped
====
