---- MODULE MCPrograms ----
(***************************************************************************)
(* The programs that run from a command line to an exit code: the virtio   *)
(* samples and the sysfs tools of userspace_drivers/, the port samples of  *)
(* dpdk/, the file copies of io_uring/ and its benchmark with the epoll    *)
(* server it talks to; and what a virtio sample computes on the way, the   *)
(* windows onto its device and the layout of their memory.  A behaviour is *)
(* of one of them; the others stand still in one fixed state of theirs in  *)
(* which they have ended.                                                  *)
(***************************************************************************)
EXTENDS VirtioBringUp, PortLifecycle, SysfsControl, CopyLoop, EchoBench,
        DeviceWindows, DmaMemory

mcvars == <<vars, pvars, svars, cvars, bvars, wvars, mvars>>

VirtioParked ==
  /\ invoked = Show(VfioInfo) /\ at = 1 /\ mode = "failed" /\ locals = << >>
  /\ status = {} /\ resetting = FALSE /\ enabled = {} /\ ours = {}
  /\ select = "rx" /\ command = FALSE /\ mapped = FALSE /\ irq = FALSE
  /\ original = "rx" /\ changed = FALSE /\ armed = FALSE
  /\ found = [select |-> "rx", command |-> FALSE]
PortParked == psample = "env_check" /\ phase = "exit1" /\ PortStart
SysfsParked ==
  /\ asked = [action |-> "show", driver |-> "vendor", override |-> FALSE,
              count |-> 0, yes |-> FALSE]
  /\ pc = "start" /\ exit = "1" /\ disturbed = FALSE /\ reached = FALSE
  /\ sysfs = [driver |-> "vendor", override |-> "none", autoprobe |-> 1, num_vfs |-> 0]
  /\ seen = sysfs /\ before = sysfs
CopyParked ==
  /\ copier = "file_copy" /\ file_size = 0 /\ turn = "open" /\ copy_exit = "1" /\ CopyStart
BenchParked == load = <<1, 1>> /\ bench_exit = "1" /\ BenchStart
WindowParked == cap = 0 /\ lookup = "failed" /\ bar = NoWindow /\ WalkStart
MemoryParked ==
  /\ request = [kind |-> "vring", rx |-> 3, tx |-> 3, align |-> 4, buffers |-> 0,
                buffer_size |-> 0, tx_buffers |-> 0, extra_size |-> 0]
  /\ layout = [NoLayout EXCEPT !.result = "thrown"]

LookupsParked == WindowParked /\ MemoryParked
FilesParked   == SysfsParked /\ CopyParked /\ BenchParked
MCInit == \/ Init /\ PortParked /\ FilesParked /\ LookupsParked
          \/ VirtioParked /\ PortInit /\ FilesParked /\ LookupsParked
          \/ VirtioParked /\ PortParked /\ SysfsInit /\ CopyParked /\ BenchParked /\ LookupsParked
          \/ VirtioParked /\ PortParked /\ SysfsParked /\ CopyInit /\ BenchParked /\ LookupsParked
          \/ VirtioParked /\ PortParked /\ SysfsParked /\ CopyParked /\ BenchInit /\ LookupsParked
          \/ VirtioParked /\ PortParked /\ FilesParked /\ WindowInit /\ MemoryParked
          \/ VirtioParked /\ PortParked /\ FilesParked /\ WindowParked /\ MemoryInit

lookups == <<wvars, mvars>>
VirtioStep == (Run \/ Unwind) /\ UNCHANGED <<pvars, svars, cvars, bvars, lookups>>
PortStep   == PortRun /\ UNCHANGED <<vars, svars, cvars, bvars, lookups>>
SysfsStep  == SysfsRun /\ UNCHANGED <<vars, pvars, cvars, bvars, lookups>>
CopyStep   == CopyRun /\ UNCHANGED <<vars, pvars, svars, bvars, lookups>>
KernelStep == CompleteTransfer /\ UNCHANGED <<vars, pvars, svars, bvars, lookups>>
Others == <<vars, pvars, svars, cvars, lookups>>
ClientStep == BenchStep /\ UNCHANGED Others
EchoStep   == ServerStep /\ UNCHANGED Others
NetStep    == NetworkStep /\ UNCHANGED Others
programs == <<vars, pvars, svars, cvars, bvars>>
WindowStep == WindowRun /\ UNCHANGED <<programs, mvars>>
MemoryStep == ComputeLayout /\ UNCHANGED <<programs, wvars>>
Around == \/ CompleteReset /\ UNCHANGED <<pvars, svars, cvars, bvars, lookups>>
          \/ LinkComesUp /\ UNCHANGED <<vars, svars, cvars, bvars, lookups>>
          \/ NetworkFault /\ UNCHANGED Others
          \/ Disturb /\ UNCHANGED <<vars, pvars, cvars, bvars, lookups>>
AllEnded == Ended /\ PortEnded /\ SysfsEnded /\ CopyEnded /\ BenchEnded /\ WindowEnded
MCNext == \/ VirtioStep \/ PortStep \/ SysfsStep \/ CopyStep \/ KernelStep
          \/ ClientStep \/ EchoStep \/ NetStep \/ WindowStep \/ MemoryStep \/ Around
          \/ AllEnded /\ UNCHANGED mcvars
\* The programs are single threads the kernel schedules, and it completes the
\* transfers of regular files and of sockets that have what is asked for; nothing
\* is assumed of the device, the link and the other users of the machine.  Only
\* one program takes steps in a behaviour, so fairness to the steps of all of
\* them is fairness to it; its peers are the kernel, or the server and the
\* network.
ProgramStep == VirtioStep \/ PortStep \/ SysfsStep \/ CopyStep \/ ClientStep \/ WindowStep
PeerStep == KernelStep \/ EchoStep
MCSpec == /\ MCInit /\ [][MCNext]_mcvars
          /\ WF_mcvars(ProgramStep) /\ WF_mcvars(PeerStep) /\ WF_mcvars(NetStep)

----
\* The user consents with --yes: without it no program writes a device register
\* or the PCI command, maps memory, binds an interrupt, configures a port,
\* creates packet memory or writes a sysfs file, whatever else it was asked.
NothingWithoutYes ==
  [][/\ invoked.yes \/ UNCHANGED <<device, mapped, irq>>
     /\ opts.yes \/ UNCHANGED <<port, rx, tx, mempool>>
     /\ asked.yes \/ UNCHANGED sysfs \/ disturbed # disturbed']_mcvars

\* Every program ends: also over a device that never completes a reset, and
\* over a link that never comes up.  (A benchmark whose echo the server has cut
\* short waits for ever.)
ProgramEnds == <>AllEnded
====
