---- MODULE SamplePrograms ----
(***************************************************************************)
(* What the samples 06 to 30 of userspace_drivers/ do, as data: for every  *)
(* sample the invocations its command line allows, each a sequence of      *)
(* operations.  VirtioBringUp runs them.                                   *)
(*                                                                         *)
(* With --yes a sample carries out its run_*() function.  Without it, it   *)
(* prints its plan (dry_run()): what it would do, what it would not do,    *)
(* and in which order it would let go of the device.                       *)
(***************************************************************************)
EXTENDS Naturals, Sequences

Queues == {"rx", "tx", "ctrl"}

\* An operation is a tuple <<kind>> or <<kind, queue>>.
Steps(kinds) == [k \in 1 .. Len(kinds) |-> <<kinds[k]>>]
For(q, kinds) == [k \in 1 .. Len(kinds) |-> <<kinds[k], q>>]

----
\* A plan: the kinds of operation it announces, in order, and those it rules out.
Says(would, wont) == [would |-> would, wont |-> wont]
Silent == Says(<< >>, {})

\* main reads the options and finds the device; require_vfio_driver follows.
Invocation(yes, ops, plan) ==
  [yes |-> yes, ops |-> Steps(<<"options", "vfio_driver">>) \o ops, plan |-> plan]
YesOrPlan(ops, plan) ==
  {Invocation(TRUE, ops, plan), Invocation(FALSE, Steps(<<"layout">>), Silent)}
Show(ops) == Invocation(FALSE, ops, Silent)

----
Common == Steps(<<"vfio", "caps", "common">>)

\* negotiate_minimal_features and its variants differ only in the features
\* they ask for.
Negotiate == Steps(<<"reset", "await", "ack", "driver", "features", "features_ok">>)

\* Mutant: the device is told to reset and not waited for.
ReleaseAtOnce == Steps(<<"restore_select", "reset", "disarm">>)
\* Mutant: the reset guard is disarmed before the reset.
ReleaseDisarmedFirst == Steps(<<"restore_select", "disarm", "reset", "await">>)
\* Mutant: the selector is left to the reset.
ReleaseSelected == Steps(<<"reset", "await", "disarm">>)

\* selection.restore, reset_device, reset_guard.disarm
Release == Steps(<<"restore_select", "reset", "await", "disarm">>)

\* Mutant: the guard is declared before the mapping and destroyed after it.
MemoryGuardFirst == Steps(<<"buffer", "guard", "map">>)

\* AnonymousBuffer buffer; DmaMapping dma; DeviceResetGuard reset_guard;
Memory == Steps(<<"buffer", "map", "guard">>)

----
\* 06, 07, 10 and 11 open the device and look.
VfioInfo   == Steps(<<"vfio", "look">>)
RegionDump == Steps(<<"vfio", "look", "common">>)
VirtioCaps == Steps(<<"vfio", "caps">>)
CommonCfg  == Common \o Steps(<<"look">>)

\* 08: no guard around the mapping.
DmaMapTest == Steps(<<"vfio", "buffer", "map_bare", "unmap">>)

\* 09: the handler that unbinds the eventfd and throws again is a local here.
IrqEventfd == Steps(<<"vfio", "irq", "wait", "unbind">>)
ShowIrqs   == Steps(<<"vfio", "look">>)

\* 12 and 18: likewise for the handler that restores queue_select.  12 visits
\* the queue asked for or all of them, 18 only one that was asked for.
QueueInfo(queues)  == Common \o Steps(<<"selection">>) \o queues
                      \o Steps(<<"restore_select">>)
NotifyInfo(queue) == Common \o Steps(<<"look", "selection">>) \o For(queue, <<"view">>)
                     \o Steps(<<"restore_select">>)
View(q) == For(q, <<"view">>)

\* 13 leaves the status bits it has set.
ResetStatus(reset, ack_driver) ==
  Common \o (IF reset THEN Steps(<<"reset", "await">>) ELSE << >>)
         \o (IF ack_driver THEN Steps(<<"ack", "driver">>) ELSE << >>)

\* 14, likewise; --show walks the feature words and puts the selectors back.
FeatureBits  == Common \o Negotiate
ShowFeatures == Common \o Steps(<<"features">>)

VringMap == Common \o Steps(<<"selection">>) \o For("rx", <<"select">>)
            \o Steps(<<"buffer", "map", "unmap", "restore_select">>)

\* 16, 17, 19 and 20 differ in how far they go with one queue.
OneQueue(ops) == Common \o Negotiate \o Steps(<<"selection">>)
                 \o For("rx", <<"select">>) \o Memory \o For("rx", ops)
                 \o Release \o Steps(<<"unmap">>)
QueueProgram == OneQueue(<<"program">>)
QueueEnable  == OneQueue(<<"program", "enable">>)
NotifyWrite  == OneQueue(<<"program", "enable", "window", "kick">>)
DriverOk     == OneQueue(<<"program", "enable", "driver_ok", "observe">>)

----
\* program_and_enable_queue, also with an MSI-X vector to be accepted.
ProgramAndEnable(q) == For(q, <<"select", "program", "enable">>)

\* The network samples: "head" is what is taken before COMMON_CFG is mapped,
\* "size", "publish", "enable" and "windows" what is done for each queue, "tail"
\* what comes after DRIVER_OK, and "restore" what follows the release.
Net(head, size, publish, enable, windows, tail, restore) ==
  Steps(head) \o Steps(<<"caps", "common">>) \o Negotiate
  \o Steps(<<"selection">>) \o size \o Memory \o publish \o enable \o windows
  \o Steps(<<"driver_ok">>) \o tail
  \o Release \o Steps(restore) \o Steps(<<"unmap">>)

PairSize   == For("rx", <<"select">>) \o For("tx", <<"select">>)
PairEnable == ProgramAndEnable("rx") \o ProgramAndEnable("tx")

\* inspect_and_choose_queue and program_and_enable_queue, three queues.
CtrlSize   == PairSize \o For("ctrl", <<"select">>)
CtrlEnable == PairEnable \o ProgramAndEnable("ctrl")

Publish(q) == For(q, <<"publish">>)
Transmit   == For("tx", <<"transmit">>)
Windows(q) == For(q, <<"window">>)
Kick(q)    == For(q, <<"kick">>)

Bus == <<"vfio", "command">>
Restore == <<"restore_command">>

\* 21 and 22: what arrives in the posted buffers is counted after wait_ms.
Watch == Kick("rx") \o Steps(<<"observe">>)
RxBuffers == Net(<<"vfio">>, PairSize, Publish("rx"), PairEnable, Windows("rx"), Watch, << >>)
RxObserve == Net(Bus, PairSize, Publish("rx"), PairEnable, Windows("rx"), Watch, Restore)

\* 23: the packet is in its ring before the queues are enabled.
SendOne  == Kick("rx") \o Kick("tx") \o Steps(<<"observe">>)
TxPacket == Net(Bus, PairSize, Publish("rx") \o Transmit, PairEnable,
                Windows("rx") \o Windows("tx"), SendOne, Restore)

\* 24 throws when no packet has matched in wait_ms.
AnswerOne == Kick("rx") \o Steps(<<"wait">>) \o Transmit \o Kick("tx") \o Steps(<<"observe">>)
RxTxEcho  == Net(Bus, PairSize, Publish("rx"), PairEnable,
                 Windows("rx") \o Windows("tx"), AnswerOne, Restore)

\* 25 and 26: one packet of the loop; VirtioEcho has the loop of 26.
EchoOne == Kick("rx") \o Steps(<<"look">>) \o Transmit \o Kick("tx")
           \o For("rx", <<"recycle">>) \o Kick("rx")
EchoLoop    == Net(Bus, PairSize, Publish("rx"), PairEnable,
                   Windows("rx") \o Windows("tx"), EchoOne, Restore)
IrqEchoLoop == Net(<<"vfio", "irq", "command">>, PairSize, Publish("rx"), PairEnable,
                   Windows("rx") \o Windows("tx"),
                   EchoOne \o Steps(<<"wait", "unbind">>), Restore)

\* 27 waits for the device to use the command; 28 to 30 throw unless it is
\* acknowledged, and then look at what is received.
Ctrl(tail) == Net(Bus, CtrlSize, Publish("rx") \o Publish("ctrl"), CtrlEnable,
                  Windows("rx") \o Windows("ctrl"),
                  Kick("rx") \o Kick("ctrl") \o tail, Restore)
Filtered == Steps(<<"wait", "observe">>) \o For("rx", <<"recycle">>) \o Kick("rx")
FilteredByAddr  == Filtered
FilteredByTable == Filtered
CtrlPromisc    == Ctrl(Steps(<<"observe">>))
PromiscObserve == Ctrl(Filtered)
CtrlMacAddr    == Ctrl(FilteredByAddr)
CtrlMacTable   == Ctrl(FilteredByTable)

----
\* The plans the samples print.
LetGo == <<"restore_select", "reset", "unmap">>
VringMapPlan == Says(<<"vfio", "common", "select", "buffer", "map", "unmap", "restore_select">>,
                     {"program", "enable"})
OneQueuePlan == <<"vfio", "common", "features_ok", "select", "map", "program">>
QueueProgramPlan == Says(OneQueuePlan \o LetGo, {"enable", "kick", "driver_ok"})
QueueEnablePlan  == Says(OneQueuePlan \o <<"enable">> \o LetGo, {"kick", "driver_ok"})
NotifyWritePlan  == Says(OneQueuePlan \o <<"enable", "window", "kick">> \o LetGo,
                         {"driver_ok"})
DriverOkPlan     == Says(OneQueuePlan \o <<"enable", "driver_ok", "observe">> \o LetGo,
                         {"publish", "kick"})

BusOpen == <<"vfio", "command", "common", "features_ok">>
InUseBy == <<"map", "publish", "program", "enable", "driver_ok", "kick">>
RxBuffersPlan == Says(<<"vfio", "common", "features_ok">> \o InUseBy \o <<"observe">> \o LetGo,
                      {"transmit", "recycle"})
RxObservePlan == Says(BusOpen \o InUseBy \o <<"observe">> \o LetGo, {"transmit", "recycle"})
TxPacketPlan  == Says(BusOpen \o <<"map", "publish", "transmit", "program", "enable",
                                   "driver_ok", "kick", "observe">> \o LetGo, {"recycle"})
RxTxEchoPlan  == Says(BusOpen \o <<"map", "publish", "program", "enable", "driver_ok",
                                   "wait", "transmit", "kick", "observe">> \o LetGo,
                      {"recycle"})
EchoLoopPlan  == Says(BusOpen \o InUseBy \o LetGo, {"irq"})
IrqEchoLoopPlan == Says(<<"vfio", "irq", "command", "common", "features_ok">> \o InUseBy
                        \o <<"wait", "unbind", "reset", "unmap">>, {})
CtrlPromiscPlan == Says(BusOpen \o <<"map", "publish", "enable", "driver_ok", "kick",
                                     "observe", "reset">>, {})
\* 28 to 30 promise that the reset before the exit undoes the setting.
FilteredPlan == BusOpen \o <<"publish", "enable", "driver_ok", "wait", "observe", "reset">>
PromiscObservePlan == Says(FilteredPlan, {"transmit"})
CtrlMacAddrPlan    == Says(FilteredPlan, {"transmit"})
CtrlMacTablePlan   == Says(FilteredPlan, {"transmit"})

----
\* The command lines each main accepts.
VfioInfoMain   == {Show(VfioInfo)}
RegionDumpMain == {Show(RegionDump)}
VirtioCapsMain == {Show(VirtioCaps)}
CommonCfgMain  == {Show(CommonCfg)}
DmaMapMain     == YesOrPlan(DmaMapTest, Says(<<"buffer", "map_bare", "unmap">>, {}))
IrqEventfdMain == {Show(ShowIrqs)}
                  \cup YesOrPlan(IrqEventfd, Says(<<"vfio", "irq", "wait">>, {}))
QueueInfoMain  == {Show(Common \o Steps(<<"look">>))}
                  \cup {Invocation(TRUE, QueueInfo(queues), Says(<<"view">>, {})) :
                          queues \in {View("rx"), View("tx"), View("rx") \o View("tx")}}
NotifyInfoMain == {Show(Common \o Steps(<<"look">>)),
                   Invocation(TRUE, Common \o Steps(<<"look">>), Silent)}
                  \cup {Invocation(TRUE, NotifyInfo(q), Says(<<"view">>, {})) :
                          q \in {"rx", "tx"}}


\* --reset, --ack-driver or both.
Asked == (BOOLEAN \X BOOLEAN) \ {<<FALSE, FALSE>>}
\* Mutant: the writes do not wait for --yes.
ResetStatusAlways == {Show(ResetStatus(a[1], a[2])) : a \in Asked}

ResetStatusMain ==
  {Show(Common)} \cup {Invocation(TRUE, ResetStatus(a[1], a[2]), Silent) : a \in Asked}
FeatureBitsMain ==
  {Show(Common), Invocation(TRUE, ShowFeatures, Says(<<"features">>, {})),
   Invocation(TRUE, FeatureBits,
              Says(<<"reset", "ack", "driver", "features", "features_ok">>,
                   {"driver_ok", "enable", "map"}))}

VringMapMain     == YesOrPlan(VringMap, VringMapPlan)
QueueProgramMain == YesOrPlan(QueueProgram, QueueProgramPlan)
QueueEnableMain  == YesOrPlan(QueueEnable, QueueEnablePlan)
NotifyWriteMain  == YesOrPlan(NotifyWrite, NotifyWritePlan)
DriverOkMain     == YesOrPlan(DriverOk, DriverOkPlan)
RxBuffersMain    == YesOrPlan(RxBuffers, RxBuffersPlan)
RxObserveMain    == YesOrPlan(RxObserve, RxObservePlan)
TxPacketMain     == YesOrPlan(TxPacket, TxPacketPlan)
RxTxEchoMain     == YesOrPlan(RxTxEcho, RxTxEchoPlan)
EchoLoopMain     == YesOrPlan(EchoLoop, EchoLoopPlan)
IrqEchoLoopMain  == YesOrPlan(IrqEchoLoop, IrqEchoLoopPlan)
CtrlPromiscMain    == YesOrPlan(CtrlPromisc, CtrlPromiscPlan)
PromiscObserveMain == YesOrPlan(PromiscObserve, PromiscObservePlan)
CtrlMacAddrMain    == YesOrPlan(CtrlMacAddr, CtrlMacAddrPlan)
CtrlMacTableMain   == YesOrPlan(CtrlMacTable, CtrlMacTablePlan)

Mains == [vfio_info |-> VfioInfoMain, region_dump |-> RegionDumpMain,
          dma_map |-> DmaMapMain, irq_eventfd |-> IrqEventfdMain,
          virtio_caps |-> VirtioCapsMain, common_cfg |-> CommonCfgMain,
          queue_info |-> QueueInfoMain, reset_status |-> ResetStatusMain,
          feature_bits |-> FeatureBitsMain, vring_map |-> VringMapMain,
          queue_program |-> QueueProgramMain, queue_enable |-> QueueEnableMain,
          notify_info |-> NotifyInfoMain, notify_write |-> NotifyWriteMain,
          driver_ok |-> DriverOkMain, rx_buffers |-> RxBuffersMain,
          rx_observe |-> RxObserveMain, tx_packet |-> TxPacketMain,
          rx_tx_echo |-> RxTxEchoMain, echo_loop |-> EchoLoopMain,
          irq_echo_loop |-> IrqEchoLoopMain, ctrl_promisc |-> CtrlPromiscMain,
          promisc_observe |-> PromiscObserveMain, ctrl_mac_addr |-> CtrlMacAddrMain,
          ctrl_mac_table |-> CtrlMacTableMain]
====
