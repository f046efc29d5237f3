---- MODULE SysfsControl ----
(***************************************************************************)
(* 04_bind_unbind and 05_sriov_vfs: which driver a PCI device is bound to  *)
(* and how many virtual functions it has, read and written through sysfs.  *)
(*                                                                         *)
(* A sample reads a file, decides, writes a file and reads it back, and    *)
(* nothing holds the device in between: udev, a driver being loaded or     *)
(* another administrator may change it once (Disturb).  The kernel may     *)
(* refuse a write, or take it and not do what it says.                     *)
(***************************************************************************)
EXTENDS Naturals

CONSTANT TotalVfs   \* sriov_totalvfs
ASSUME TotalVfsAssumption == TotalVfs \in Nat \ {0}

Drivers == {"vendor", "vfio_pci"}
\* The drivers whose table of IDs has the device.
Matching == {"vendor"}

\* The command lines the two mains accept; "driver" and "count" are the
\* argument of the action, "override" is --override.
BindArgs == [action : {"bind", "rebind"}, driver : Drivers, override : BOOLEAN,
             count : {0}, yes : BOOLEAN]
BindUnbindMain ==
  BindArgs \cup [action : {"show", "unbind"}, driver : {"vendor"}, override : {FALSE},
                 count : {0}, yes : BOOLEAN]
SriovMain ==
  [action : {"show_pf", "destroy", "create", "set_autoprobe"}, driver : {"vendor"},
   override : {FALSE}, count : 0 .. TotalVfs + 1, yes : BOOLEAN]

VARIABLES
  asked,      \* the command line
  pc, seen,   \* the next step, and what the last read of the device said
  exit,       \* "none", or the exit code
  sysfs,      \* what the kernel holds: driver, override, autoprobe, num_vfs
  before,     \* history: sysfs when the sample was started
  reached,    \* history: the device has been as asked since then
  disturbed   \* history: somebody else has changed it

svars == <<asked, pc, seen, exit, sysfs, before, reached, disturbed>>

Sysfs == [driver : Drivers \cup {"unbound"}, override : Drivers \cup {"none"},
          autoprobe : 0 .. 1, num_vfs : 0 .. TotalVfs]

\* What the command line asks of the device.
AsAsked(s) ==
  CASE asked.action = "unbind" -> s.driver = "unbound"
    [] asked.action \in {"bind", "rebind"} -> s.driver = asked.driver
    [] asked.action = "set_autoprobe" -> s.autoprobe = asked.count
    [] asked.action = "create" -> s.num_vfs = asked.count
    [] asked.action = "destroy" -> s.num_vfs = 0
    [] OTHER -> TRUE

SysfsInit ==
  /\ asked \in BindUnbindMain \cup SriovMain
  /\ pc = "start" /\ exit = "none" /\ disturbed = FALSE
  /\ sysfs \in Sysfs /\ seen = sysfs /\ before = sysfs /\ reached = AsAsked(sysfs)

----
At(label) == exit = "none" /\ pc = label
Goto(label) == pc' = label /\ UNCHANGED <<asked, exit, before, disturbed>>
ExitWith(code) == exit' = code /\ UNCHANGED <<asked, pc, before, disturbed>>
Fail == ExitWith("1")
Done0 == ExitWith("0")
Read == seen' = sysfs
NoWrite == UNCHANGED <<sysfs, reached>>

\* maybe_write_value, with what the kernel makes of it: the write is done, is
\* taken without effect or, like every open, write and close, may fail.
Write(new, next) ==
  /\ seen' = seen
  /\ IF asked.yes
       THEN \/ sysfs' \in {new, sysfs} /\ reached' = (reached \/ AsAsked(sysfs')) /\ Goto(next)
            \/ NoWrite /\ Fail
       ELSE NoWrite /\ Goto(next)

\* The driver directory must exist for bind and rebind; show and show_pf only read.
Dispatch ==
  /\ At("start") /\ Read /\ NoWrite
  /\ \/ asked.action \in {"show", "show_pf"} /\ (Done0 \/ Fail)
     \/ asked.action \in {"unbind", "rebind"} /\ Goto("unbind")
     \/ asked.action = "bind" /\ Goto("bind")
     \/ asked.action \in {"set_autoprobe", "create", "destroy"} /\ Goto("write_vfs")
     \/ Fail

\* unbind_current: the file written is the one of the driver read before.
UnbindCurrent ==
  /\ At("unbind")
  /\ IF seen.driver = "unbound"
       THEN /\ seen' = seen /\ NoWrite
            /\ IF asked.action = "rebind" THEN Goto("bind") ELSE Done0
       ELSE Write([sysfs EXCEPT !.driver = IF @ = seen.driver THEN "unbound" ELSE @],
                  "verify_unbound")
\* verify_unbound
VerifyUnbound ==
  /\ At("verify_unbound") /\ Read /\ NoWrite
  /\ IF asked.yes /\ sysfs.driver # "unbound" THEN Fail
     ELSE IF asked.action = "rebind" THEN Goto("bind") ELSE Done0

\* bind_to_driver: the driver directory must still be there; then driver_override,
\* bind and verify_bound.
WriteOverride ==
  /\ At("bind")
  /\ \/ asked.override /\ Write([sysfs EXCEPT !.override = asked.driver], "bind_driver")
     \/ seen' = seen /\ NoWrite /\ (Fail \/ (~asked.override /\ Goto("bind_driver")))
\* The kernel binds an unbound device to the driver of its override, or to one
\* that matches it if it has none.
Binds == /\ sysfs.driver = "unbound"
         /\ IF sysfs.override = "none" THEN asked.driver \in Matching
            ELSE sysfs.override = asked.driver
WriteBind ==
  /\ At("bind_driver")
  /\ Write([sysfs EXCEPT !.driver = IF Binds THEN asked.driver ELSE @], "verify_bound")

\* Mutant: the write is taken for its effect.
BoundIfWritten == At("verify_bound") /\ Read /\ NoWrite /\ Done0

VerifyBound ==
  /\ At("verify_bound") /\ Read /\ NoWrite
  /\ IF asked.yes /\ sysfs.driver # asked.driver THEN Fail ELSE Done0

\* What set_autoprobe, create_vfs and destroy_vfs check of what they have read.
MayWriteVfs ==
  CASE asked.action = "set_autoprobe" -> asked.count <= 1 /\ seen.num_vfs = 0
    [] asked.action = "create" -> /\ seen.num_vfs = 0 /\ asked.count \in 1 .. TotalVfs
                                  /\ seen.driver \notin {"unbound", "vfio_pci"}
    [] OTHER -> TRUE
\* The kernel creates functions only from none, and for the vendor driver.
Creates == sysfs.num_vfs = 0 /\ sysfs.driver = "vendor"
WriteVfs ==
  /\ At("write_vfs")
  /\ \/ ~MayWriteVfs /\ seen' = seen /\ NoWrite /\ Fail
     \/ /\ asked.action = "destroy" /\ seen.num_vfs = 0
        /\ seen' = seen /\ NoWrite /\ Done0
     \/ /\ MayWriteVfs /\ asked.action = "set_autoprobe"
        /\ Write([sysfs EXCEPT !.autoprobe = asked.count], "verify_vfs")
     \/ /\ MayWriteVfs /\ asked.action = "create"
        /\ Write([sysfs EXCEPT !.num_vfs = IF Creates THEN asked.count ELSE @], "verify_vfs")
     \/ /\ asked.action = "destroy" /\ seen.num_vfs # 0
        /\ Write([sysfs EXCEPT !.num_vfs = 0], "verify_vfs")
VerifyVfs ==
  /\ At("verify_vfs") /\ Read /\ NoWrite
  /\ IF asked.yes /\ ~AsAsked(sysfs) THEN Fail ELSE Done0

\* Somebody else: the driver changes, or the functions come or go.
Disturb ==
  /\ exit = "none" /\ ~disturbed /\ disturbed' = TRUE
  /\ \/ sysfs' \in {[sysfs EXCEPT !.driver = d] : d \in Drivers \cup {"unbound"}}
     \/ sysfs' \in {[sysfs EXCEPT !.num_vfs = n] : n \in 0 .. TotalVfs}
  /\ reached' = (reached \/ AsAsked(sysfs'))
  /\ UNCHANGED <<asked, pc, seen, exit, before>>

SysfsRun == \/ Dispatch \/ UnbindCurrent \/ VerifyUnbound \/ WriteOverride \/ WriteBind
            \/ VerifyBound \/ WriteVfs \/ VerifyVfs
SysfsNext == SysfsRun \/ Disturb
SysfsSpec == SysfsInit /\ [][SysfsNext]_svars /\ WF_svars(SysfsRun)
SysfsEnded == exit # "none"

----
SysfsTypeOK ==
  /\ asked \in BindUnbindMain \cup SriovMain
  /\ pc \in {"start", "unbind", "verify_unbound", "bind", "bind_driver", "verify_bound",
             "write_vfs", "verify_vfs"}
  /\ exit \in {"none", "0", "1"} /\ {sysfs, seen, before} \subseteq Sysfs
  /\ reached \in BOOLEAN /\ disturbed \in BOOLEAN

\* Success means the device has really been as asked while the sample ran, also
\* when somebody else changed it between a read and a write; and nobody else
\* interfering, a failure leaves the driver found, the one asked for or none.
SysfsOutcome ==
  /\ SysfsTypeOK
  /\ exit = "0" /\ asked.yes => reached
  /\ SysfsEnded /\ ~disturbed =>
       /\ sysfs.driver \in {before.driver, "unbound", asked.driver}
       /\ exit = "0" /\ asked.yes => AsAsked(sysfs)
====
