---- MODULE ProgramProofs ----
(***************************************************************************)
(* Proofs about the programs that run from a command line to an exit code. *)
(* Each is first shown for the program by itself, whatever its constants   *)
(* are, and then for the composition of MCPrograms, in which the others    *)
(* stand still.                                                            *)
(***************************************************************************)
EXTENDS MCPrograms, FiniteSetTheorems, TLAPS

----
\* 04_bind_unbind and 05_sriov_vfs.  Which action leads to which step; what has
\* been read was there; and, nobody else interfering, what was read is still
\* there when it is written, and the driver is one of three.
SysfsInv ==
  /\ SysfsTypeOK
  /\ exit = "none" =>
       /\ AsAsked(sysfs) \/ AsAsked(seen) => reached
       /\ pc \in {"unbind", "verify_unbound"} => asked.action \in {"unbind", "rebind"}
       /\ pc \in {"bind", "bind_driver", "verify_bound"} => asked.action \in {"bind", "rebind"}
       /\ pc \in {"write_vfs", "verify_vfs"} =>
            asked.action \in {"set_autoprobe", "create", "destroy"}
       /\ ~disturbed /\ pc \in {"unbind", "write_vfs"} => seen = sysfs
  /\ ~disturbed => sysfs.driver \in {before.driver, "unbound", asked.driver}
  /\ exit = "0" /\ asked.yes => reached /\ (~disturbed => AsAsked(sysfs))

----
\* The DPDK samples.  Their calls have fixed places: after the sixth the port is
\* configured, after the eighth there is a pool, the ninth and the tenth are
\* taken once for every queue, and the port runs before the fourteenth.
CallsMade ==
  /\ down = "stop" /\ refused = {}
  /\ (configured <=> step > 6) /\ (started <=> step \in {13, 14})
  /\ port = IF step <= 6 THEN "idle" ELSE IF step \in {13, 14} THEN "started" ELSE "configured"
  /\ mempool = IF step <= 8 THEN "none" ELSE "live"
  /\ step > 4 => opts.rx_queues <= MaxQueues
  /\ step > 7 /\ psample # "ethdev_configure" => opts.rx_queues * desc <= opts.mbufs
  /\ step < 9 => rx = 0
  /\ step = 9 => rx < opts.rx_queues
  /\ step > 9 => rx = opts.rx_queues
  /\ step < 10 => tx = 0
  /\ step = 10 => tx < opts.tx_queues
  /\ step > 10 => tx = opts.tx_queues

\* What is to be undone is what the locals of main say; what has not been undone
\* was refused.
TearDown ==
  /\ port \in {"idle", "released"} => rx = 0
  /\ rx > 0 => mempool = "live" \/ refused # {}
  /\ phase = "leaving" => refused = {} /\ down # "stop"
  /\ down = "stop" => /\ configured <=> port # "idle"
                      /\ started <=> port = "started"
                      /\ refused = {} /\ port # "released"
  /\ down = "close" => /\ configured <=> port # "idle"
                       /\ port # "released" /\ "close" \notin refused
  /\ down # "stop" /\ port = "started" => "stop" \in refused
  /\ down \in {"free", "cleanup"} /\ port = "configured" => "close" \in refused
  /\ down = "cleanup" => mempool # "live"
  /\ mempool = "freed" => down = "cleanup"

PortInv ==
  /\ PortTypeOK
  /\ mempool = "none" => rx = 0
  /\ phase \in {"starting", "running"} => CallsMade
  /\ phase = "starting" => step = 1
  /\ phase \in {"leaving", "giving_up", "catching"} => TearDown
  /\ PortEnded => PortTornDown /\ (rx > 0 => mempool = "freed" /\ refused # {})

----
\* The capability walk: it has been to as many slots as it has hopped, of the 48
\* there are.  The window: it begins with the page of what was asked for.
Slots == {4 * k : k \in 16 .. 63}

WalkInv ==
  /\ visited \subseteq Slots /\ hop = Cardinality(visited)
  /\ caps \in Seq([at : Nat, len : Nat, type : Kinds])
  /\ \A k \in DOMAIN caps : caps[k].at \in visited /\ caps[k].at + caps[k].len <= ConfigSize
  /\ \A j, k \in DOMAIN caps : caps[j].at = caps[k].at => j = k

WindowInv ==
  /\ cap \in PointerBytes \cup {0}
  /\ lookup \in {"walking", "found", "mapping", "mapped", "failed"}
  /\ bar \in BarWindows \cup {NoWindow}
  /\ WalkInv /\ WindowInside

\* What a command line is.
LEMMA AskedFacts ==
  ASSUME SysfsTypeOK
  PROVE  /\ asked.driver \in Drivers /\ asked.count \in Nat /\ asked.yes \in BOOLEAN
         /\ sysfs \in Sysfs /\ seen \in Sysfs
<1>0. asked \in BindUnbindMain \cup SriovMain /\ sysfs \in Sysfs /\ seen \in Sysfs
  BY DEF SysfsTypeOK
<1>1. CASE asked \in BindArgs
  BY <1>0, <1>1 DEF BindArgs
<1>2. CASE asked \in BindUnbindMain /\ asked \notin BindArgs
  <2>1. asked \in [action : {"show", "unbind"}, driver : {"vendor"}, override : {FALSE},
                   count : {0}, yes : BOOLEAN]
    BY <1>2 DEF BindUnbindMain
  <2>2. asked.driver = "vendor" /\ asked.count = 0 /\ asked.yes \in BOOLEAN
    BY <2>1
  <2> QED
    BY <1>0, <2>2 DEF Drivers
<1>3. CASE asked \in SriovMain
  <2>1. asked.driver \in Drivers /\ asked.count \in 0 .. TotalVfs + 1 /\ asked.yes \in BOOLEAN
    BY <1>3 DEF SriovMain, Drivers
  <2> QED
    BY <1>0, <2>1, TotalVfsAssumption
<1> QED
  BY <1>0, <1>1, <1>2, <1>3

\* maybe_write_value keeps it, whatever the kernel makes of the write.
LEMMA WriteKeeps ==
  ASSUME SysfsInv, exit = "none", NEW new \in Sysfs, NEW next, Write(new, next),
         next \in {"verify_unbound", "bind_driver", "verify_bound", "verify_vfs"},
         next = "verify_unbound" => asked.action \in {"unbind", "rebind"},
         next \in {"bind_driver", "verify_bound"} => asked.action \in {"bind", "rebind"},
         next = "verify_vfs" => asked.action \in {"set_autoprobe", "create", "destroy"},
         new.driver \in {sysfs.driver, "unbound", asked.driver}
  PROVE  SysfsInv'
<1>0. SysfsTypeOK /\ (AsAsked(sysfs) \/ AsAsked(seen) => reached)
      /\ (~disturbed => sysfs.driver \in {before.driver, "unbound", asked.driver})
  BY DEF SysfsInv
<1>1. seen' = seen /\ asked' = asked /\ before' = before /\ disturbed' = disturbed
  BY DEF Write, Goto, Fail, ExitWith
<1>2. \A s : AsAsked(s)' <=> AsAsked(s)
  BY <1>1 DEF AsAsked
<1>3. CASE Goto(next) /\ sysfs' \in {new, sysfs} /\ reached' = (reached \/ AsAsked(sysfs'))
  <2>1. pc' = next /\ exit' = exit
    BY <1>3 DEF Goto
  <2>2. reached' \in BOOLEAN /\ (AsAsked(sysfs') \/ AsAsked(seen) => reached')
    BY <1>0, <1>3
  <2>3. SysfsTypeOK'
    BY <1>0, <1>1, <1>3, <2>1, <2>2 DEF SysfsTypeOK
  <2>4. ~disturbed' => sysfs'.driver \in {before'.driver, "unbound", asked'.driver}
    BY <1>0, <1>1, <1>3
  <2> QED
    BY <1>1, <1>2, <2>1, <2>2, <2>3, <2>4 DEF SysfsInv
<1>4. CASE NoWrite /\ Fail
  <2>1. exit' = "1" /\ UNCHANGED <<pc, sysfs, reached>>
    BY <1>4 DEF Fail, ExitWith, NoWrite
  <2> QED
    BY <1>0, <1>1, <2>1 DEF SysfsInv, SysfsTypeOK
<1>5. CASE NoWrite /\ Goto(next)
  <2>1. pc' = next /\ UNCHANGED <<exit, sysfs, reached>>
    BY <1>5 DEF Goto, NoWrite
  <2>2. AsAsked(sysfs)' \/ AsAsked(seen)' => reached'
    BY <1>0, <1>1, <1>2, <2>1
  <2> QED
    BY <1>0, <1>1, <2>1, <2>2 DEF SysfsInv, SysfsTypeOK
<1> QED
  BY <1>3, <1>4, <1>5 DEF Write

\* A step that writes nothing, and goes on or ends.
LEMMA ReadKeeps ==
  ASSUME SysfsInv, exit = "none", NoWrite, seen' \in {seen, sysfs},
         UNCHANGED <<asked, before, disturbed>>,
         \/ /\ exit' = exit /\ pc' \in {"unbind", "bind", "bind_driver", "write_vfs"}
            /\ pc' = "unbind" => asked.action \in {"unbind", "rebind"}
            /\ pc' \in {"bind", "bind_driver"} => asked.action \in {"bind", "rebind"}
            /\ pc' = "write_vfs" => asked.action \in {"set_autoprobe", "create", "destroy"}
            /\ pc' \in {"unbind", "write_vfs"} => seen' = sysfs
         \/ exit' = "1" /\ pc' = pc
         \/ /\ exit' = "0" /\ pc' = pc
            /\ asked.yes => AsAsked(sysfs) \/ (AsAsked(seen) /\ (~disturbed => seen = sysfs))
  PROVE  SysfsInv'
<1>0. /\ SysfsTypeOK /\ (AsAsked(sysfs) \/ AsAsked(seen) => reached)
      /\ (~disturbed => sysfs.driver \in {before.driver, "unbound", asked.driver})
  BY DEF SysfsInv
<1>1. UNCHANGED <<sysfs, reached>>
  BY DEF NoWrite
<1>2. \A s : AsAsked(s)' <=> AsAsked(s)
  BY DEF AsAsked
<1>3. SysfsTypeOK'
  BY <1>0, <1>1 DEF SysfsTypeOK
<1>4. AsAsked(sysfs)' \/ AsAsked(seen)' => reached'
  BY <1>0, <1>1, <1>2
<1>5. ~disturbed' => sysfs'.driver \in {before'.driver, "unbound", asked'.driver}
  BY <1>0, <1>1
<1>6. CASE exit' = exit
  BY <1>1, <1>3, <1>4, <1>5, <1>6 DEF SysfsInv
<1>7. CASE exit' = "1"
  BY <1>3, <1>5, <1>7 DEF SysfsInv
<1>8. CASE exit' = "0" /\ (asked.yes => AsAsked(sysfs) \/ (AsAsked(seen) /\ (~disturbed => seen = sysfs)))
  <2>1. asked'.yes => reached' /\ (~disturbed' => AsAsked(sysfs)')
    BY <1>0, <1>1, <1>2, <1>8
  <2> QED
    BY <1>3, <1>5, <1>8, <2>1 DEF SysfsInv
<1> QED
  BY <1>6, <1>7, <1>8

\* Every step of the two samples, and of somebody else, keeps it.
LEMMA NextSysfsInv == ASSUME SysfsInv, SysfsNext PROVE SysfsInv'
<1>0. /\ SysfsTypeOK /\ asked.driver \in Drivers /\ asked.count \in Nat /\ asked.yes \in BOOLEAN
      /\ sysfs \in Sysfs /\ seen \in Sysfs
  BY AskedFacts DEF SysfsInv
<1>p. exit = "none" =>
       /\ AsAsked(sysfs) \/ AsAsked(seen) => reached
       /\ pc \in {"unbind", "verify_unbound"} => asked.action \in {"unbind", "rebind"}
       /\ pc \in {"bind", "bind_driver", "verify_bound"} => asked.action \in {"bind", "rebind"}
       /\ pc \in {"write_vfs", "verify_vfs"} =>
            asked.action \in {"set_autoprobe", "create", "destroy"}
       /\ ~disturbed /\ pc \in {"unbind", "write_vfs"} => seen = sysfs
  BY DEF SysfsInv
<1>s. \A d \in Drivers \cup {"unbound"} : [sysfs EXCEPT !.driver = d] \in Sysfs
  BY <1>0 DEF Sysfs
<1>1. CASE Dispatch
  <2>1. /\ exit = "none" /\ NoWrite /\ seen' = sysfs /\ UNCHANGED <<asked, before, disturbed>>
    BY <1>1 DEF Dispatch, At, Read, Done0, Fail, Goto, ExitWith
  <2>2. asked.action \in {"show", "show_pf"} => AsAsked(sysfs)
    BY DEF AsAsked
  <2>3. \/ /\ exit' = exit /\ pc' \in {"unbind", "bind", "write_vfs"}
           /\ pc' = "unbind" => asked.action \in {"unbind", "rebind"}
           /\ pc' = "bind" => asked.action \in {"bind", "rebind"}
           /\ pc' = "write_vfs" => asked.action \in {"set_autoprobe", "create", "destroy"}
        \/ exit' = "1" /\ pc' = pc
        \/ exit' = "0" /\ pc' = pc /\ asked.action \in {"show", "show_pf"}
    BY <1>1 DEF Dispatch, Goto, Fail, Done0, ExitWith
  <2> QED
    BY <2>1, <2>2, <2>3, ReadKeeps
<1>2. CASE UnbindCurrent /\ seen.driver = "unbound"
  <2>1. /\ exit = "none" /\ pc = "unbind" /\ NoWrite /\ seen' = seen
        /\ UNCHANGED <<asked, before, disturbed>>
    BY <1>2 DEF UnbindCurrent, At, Done0, Goto, ExitWith
  <2>2. \/ exit' = exit /\ pc' = "bind" /\ asked.action = "rebind"
        \/ exit' = "0" /\ pc' = pc /\ asked.action # "rebind"
    BY <1>2 DEF UnbindCurrent, Goto, Done0, ExitWith
  <2>3. asked.action # "rebind" => AsAsked(seen)
    BY <1>2, <1>p, <2>1 DEF AsAsked
  <2> QED
    BY <1>p, <2>1, <2>2, <2>3, ReadKeeps
<1>3. CASE UnbindCurrent /\ seen.driver # "unbound"
  <2>1. PICK new : new = [sysfs EXCEPT !.driver = IF @ = seen.driver THEN "unbound" ELSE @]
    OBVIOUS
  <2>2. new \in Sysfs /\ new.driver \in {sysfs.driver, "unbound"}
    BY <1>0, <2>1 DEF Sysfs
  <2>3. exit = "none" /\ pc = "unbind" /\ Write(new, "verify_unbound")
    BY <1>3, <2>1 DEF UnbindCurrent, At
  <2> QED
    BY <1>p, <2>2, <2>3, WriteKeeps
<1>4. CASE VerifyUnbound
  <2>1. /\ exit = "none" /\ pc = "verify_unbound" /\ NoWrite /\ seen' = sysfs
        /\ UNCHANGED <<asked, before, disturbed>>
    BY <1>4 DEF VerifyUnbound, At, Read, Done0, Fail, Goto, ExitWith
  <2>2. \/ exit' = "1" /\ pc' = pc
        \/ exit' = exit /\ pc' = "bind" /\ asked.action = "rebind"
        \/ /\ exit' = "0" /\ pc' = pc /\ asked.action # "rebind"
           /\ asked.yes => sysfs.driver = "unbound"
    BY <1>4 DEF VerifyUnbound, Done0, Fail, Goto, ExitWith
  <2>3. asked.action # "rebind" /\ sysfs.driver = "unbound" => AsAsked(sysfs)
    BY <1>p, <2>1 DEF AsAsked
  <2> QED
    BY <2>1, <2>2, <2>3, ReadKeeps
<1>5. CASE WriteOverride
  <2>1. exit = "none" /\ pc = "bind"
    BY <1>5 DEF WriteOverride, At
  <2>2. PICK new : new = [sysfs EXCEPT !.override = asked.driver]
    OBVIOUS
  <2>3. new \in Sysfs /\ new.driver = sysfs.driver
    BY <1>0, <2>2 DEF Sysfs
  <2>4. CASE Write(new, "bind_driver")
    BY <1>p, <2>1, <2>3, <2>4, WriteKeeps
  <2>5. CASE seen' = seen /\ NoWrite /\ (Fail \/ Goto("bind_driver"))
    <3>1. /\ UNCHANGED <<asked, before, disturbed>>
          /\ (exit' = "1" /\ pc' = pc) \/ (exit' = exit /\ pc' = "bind_driver")
      BY <2>5 DEF Fail, Goto, ExitWith
    <3> QED
      BY <1>p, <2>1, <2>5, <3>1, ReadKeeps
  <2> QED
    BY <1>5, <2>2, <2>4, <2>5 DEF WriteOverride
<1>6. CASE WriteBind
  <2>1. PICK new : new = [sysfs EXCEPT !.driver = IF Binds THEN asked.driver ELSE @]
    OBVIOUS
  <2>2. new \in Sysfs /\ new.driver \in {sysfs.driver, asked.driver}
    BY <1>0, <2>1 DEF Sysfs
  <2>3. exit = "none" /\ pc = "bind_driver" /\ Write(new, "verify_bound")
    BY <1>6, <2>1 DEF WriteBind, At
  <2> QED
    BY <1>p, <2>2, <2>3, WriteKeeps
<1>7. CASE VerifyBound \/ VerifyVfs
  <2>1. /\ exit = "none" /\ pc \in {"verify_bound", "verify_vfs"} /\ NoWrite /\ seen' = sysfs
        /\ UNCHANGED <<asked, before, disturbed>> /\ pc' = pc
    BY <1>7 DEF VerifyBound, VerifyVfs, At, Read, Done0, Fail, ExitWith
  <2>2. exit' = "1" \/ (exit' = "0" /\ (asked.yes => AsAsked(sysfs)))
    <3>1. CASE VerifyVfs
      BY <3>1 DEF VerifyVfs, Done0, Fail, ExitWith
    <3>2. CASE VerifyBound
      <4>1. exit' = "1" \/ (exit' = "0" /\ (asked.yes => sysfs.driver = asked.driver))
        BY <3>2 DEF VerifyBound, Done0, Fail, ExitWith
      <4>2. asked.action \in {"bind", "rebind"}
        BY <1>p, <3>2 DEF VerifyBound, At
      <4> QED
        BY <4>1, <4>2 DEF AsAsked
    <3> QED
      BY <1>7, <3>1, <3>2
  <2> QED
    BY <2>1, <2>2, ReadKeeps
<1>8. CASE WriteVfs
  <2>1. exit = "none" /\ pc = "write_vfs"
    BY <1>8 DEF WriteVfs, At
  <2>2. ASSUME seen' = seen, NoWrite, Fail \/ (asked.action = "destroy" /\ seen.num_vfs = 0 /\ Done0)
        PROVE  SysfsInv'
    <3>1. /\ UNCHANGED <<asked, before, disturbed>> /\ pc' = pc
          /\ exit' = "1" \/ (exit' = "0" /\ asked.action = "destroy" /\ seen.num_vfs = 0)
      BY <2>2 DEF Fail, Done0, ExitWith
    <3>2. asked.action = "destroy" /\ seen.num_vfs = 0 => AsAsked(seen)
      BY DEF AsAsked
    <3> QED
      BY <1>p, <2>1, <2>2, <3>1, <3>2, ReadKeeps
  <2>3. ASSUME NEW new \in Sysfs, new.driver = sysfs.driver, Write(new, "verify_vfs")
        PROVE  SysfsInv'
    BY <1>p, <2>1, <2>3, WriteKeeps
  <2>4. CASE MayWriteVfs /\ asked.action = "set_autoprobe"
             /\ Write([sysfs EXCEPT !.autoprobe = asked.count], "verify_vfs")
    <3>1. asked.count \in 0 .. 1
      BY <1>0, <2>4 DEF MayWriteVfs
    <3>2. PICK new : new = [sysfs EXCEPT !.autoprobe = asked.count]
      OBVIOUS
    <3>3. new \in Sysfs /\ new.driver = sysfs.driver
      BY <1>0, <3>1, <3>2 DEF Sysfs
    <3> QED
      BY <2>3, <2>4, <3>2, <3>3
  <2>5. CASE MayWriteVfs /\ asked.action = "create"
             /\ Write([sysfs EXCEPT !.num_vfs = IF Creates THEN asked.count ELSE @], "verify_vfs")
    <3>1. asked.count \in 0 .. TotalVfs
      BY <1>0, <2>5, TotalVfsAssumption DEF MayWriteVfs
    <3>2. PICK new : new = [sysfs EXCEPT !.num_vfs = IF Creates THEN asked.count ELSE @]
      OBVIOUS
    <3>3. new \in Sysfs /\ new.driver = sysfs.driver
      BY <1>0, <3>1, <3>2 DEF Sysfs
    <3> QED
      BY <2>3, <2>5, <3>2, <3>3
  <2>6. CASE Write([sysfs EXCEPT !.num_vfs = 0], "verify_vfs")
    <3>1. 0 \in 0 .. TotalVfs
      BY TotalVfsAssumption
    <3>2. PICK new : new = [sysfs EXCEPT !.num_vfs = 0]
      OBVIOUS
    <3>3. new \in Sysfs /\ new.driver = sysfs.driver
      BY <1>0, <3>1, <3>2 DEF Sysfs
    <3> QED
      BY <2>3, <2>6, <3>2, <3>3
  <2> QED
    BY <1>8, <2>2, <2>4, <2>5, <2>6 DEF WriteVfs
<1>9. CASE Disturb
  <2>1. /\ exit = "none" /\ disturbed' = TRUE /\ UNCHANGED <<asked, pc, seen, exit, before>>
        /\ reached' = (reached \/ AsAsked(sysfs'))
    BY <1>9 DEF Disturb
  <2>2. sysfs' \in Sysfs
    <3>1. \A n \in 0 .. TotalVfs : [sysfs EXCEPT !.num_vfs = n] \in Sysfs
      BY <1>0 DEF Sysfs
    <3> QED
      BY <1>9, <1>s, <3>1 DEF Disturb
  <2>3. \A s : AsAsked(s)' <=> AsAsked(s)
    BY <2>1 DEF AsAsked
  <2>4. reached' \in BOOLEAN /\ (AsAsked(sysfs') \/ AsAsked(seen) => reached')
    BY <1>0, <1>p, <2>1
  <2>5. AsAsked(sysfs)' \/ AsAsked(seen)' => reached'
    BY <2>1, <2>3, <2>4
  <2>6. SysfsTypeOK'
    BY <1>0, <2>1, <2>2, <2>4 DEF SysfsTypeOK
  <2>7. ~(~disturbed') /\ exit' = "none"
    BY <2>1
  <2> QED
    BY <1>p, <2>1, <2>5, <2>6, <2>7 DEF SysfsInv
<1> QED
  BY <1>1, <1>2, <1>3, <1>4, <1>5, <1>6, <1>7, <1>8, <1>9 DEF SysfsNext, SysfsRun

\* Both as a program of its own and as one that stands still.
LEMMA InitSysfsInv == SysfsInit \/ SysfsParked => SysfsInv
<1>1. ASSUME SysfsInit PROVE SysfsInv
  <2>1. /\ asked \in BindUnbindMain \cup SriovMain /\ pc = "start" /\ exit = "none"
        /\ disturbed = FALSE /\ sysfs \in Sysfs /\ seen = sysfs /\ before = sysfs
        /\ reached = AsAsked(sysfs)
    BY <1>1 DEF SysfsInit
  <2>2. reached \in BOOLEAN
    BY <2>1 DEF AsAsked
  <2>3. SysfsTypeOK
    BY <2>1, <2>2 DEF SysfsTypeOK
  <2> QED
    BY <2>1, <2>3 DEF SysfsInv
<1>2. ASSUME SysfsParked PROVE SysfsInv
  <2>1. /\ asked = [action |-> "show", driver |-> "vendor", override |-> FALSE,
                    count |-> 0, yes |-> FALSE]
        /\ pc = "start" /\ exit = "1" /\ disturbed = FALSE /\ reached = FALSE
        /\ sysfs = [driver |-> "vendor", override |-> "none", autoprobe |-> 1, num_vfs |-> 0]
        /\ seen = sysfs /\ before = sysfs
    BY <1>2 DEF SysfsParked
  <2>2. asked \in BindUnbindMain
    BY <2>1 DEF BindUnbindMain
  <2>3. sysfs \in Sysfs
    BY <2>1, TotalVfsAssumption DEF Sysfs, Drivers
  <2>4. SysfsTypeOK
    BY <2>1, <2>2, <2>3 DEF SysfsTypeOK
  <2> QED
    BY <2>1, <2>4 DEF SysfsInv
<1> QED
  BY <1>1, <1>2

\* Standing still changes nothing.
LEMMA StillSysfsInv == ASSUME SysfsInv, UNCHANGED svars PROVE SysfsInv'
<1>1. UNCHANGED <<asked, pc, seen, exit, sysfs, before, reached, disturbed>>
  BY DEF svars
<1>2. SysfsTypeOK'
  BY <1>1 DEF SysfsInv, SysfsTypeOK
<1>3. \A s : AsAsked(s)' <=> AsAsked(s)
  BY <1>1 DEF AsAsked
<1> QED
  BY <1>1, <1>2, <1>3 DEF SysfsInv

\* The exit code of the sysfs tools can be believed: success means the device
\* has been as asked, also when somebody else changed it between a read and a
\* write, and for any number of virtual functions.
THEOREM SysfsBelieved == SysfsSpec => []SysfsOutcome
<1>1. SysfsInit => SysfsInv
  BY InitSysfsInv
<1>2. SysfsInv /\ [SysfsNext]_svars => SysfsInv'
  BY NextSysfsInv, StillSysfsInv
<1>3. SysfsInv => SysfsOutcome
  BY DEF SysfsInv, SysfsOutcome, SysfsEnded
<1> QED
  BY <1>1, <1>2, <1>3, PTL DEF SysfsSpec

----
\* The last sample does what the one before it does, and three calls more.
LEMMA StartStopCalls ==
  /\ Len(StartStop) = 14
  /\ \A k \in 1 .. 11 : StartStop[k] = QueueSetup[k]
  /\ StartStop[12] = "start" /\ StartStop[13] = "link" /\ StartStop[14] = "stop"
<1> DEFINE T == {"options", "resolve", "info", "validate", "plan", "configure", "adjust",
                 "pool", "rxq", "txq", "start", "link", "stop"}
<1>1. QueueSetup \in Seq(T) /\ Len(QueueSetup) = 11
  BY DEF QueueSetup
<1>2. /\ <<"start", "link", "stop">> \in Seq(T) /\ Len(<<"start", "link", "stop">>) = 3
      /\ <<"start", "link", "stop">>[1] = "start" /\ <<"start", "link", "stop">>[2] = "link"
      /\ <<"start", "link", "stop">>[3] = "stop"
  OBVIOUS
<1>3. PICK t \in Seq(T) : /\ t = <<"start", "link", "stop">> /\ Len(t) = 3
                          /\ t[1] = "start" /\ t[2] = "link" /\ t[3] = "stop"
  BY <1>2
<1>4. StartStop = QueueSetup \o t
  BY <1>3 DEF StartStop
<1> HIDE DEF T
<1>5. PICK u \in Seq(T) : u = QueueSetup /\ Len(u) = 11
  BY <1>1
<1>6. /\ Len(u \o t) = 14
      /\ \A k \in 1 .. 11 : (u \o t)[k] = u[k]
      /\ (u \o t)[12] = t[1] /\ (u \o t)[13] = t[2] /\ (u \o t)[14] = t[3]
  <2>1. /\ Len(u \o t) = Len(u) + Len(t)
        /\ \A k \in 1 .. Len(u) : (u \o t)[k] = u[k]
        /\ \A k \in 1 .. Len(t) : (u \o t)[Len(u) + k] = t[k]
    OBVIOUS
  <2> QED
    BY <1>3, <1>5, <2>1
<1> QED
  BY <1>3, <1>4, <1>5, <1>6

\* Which call is where.
LEMMA CallPlaces ==
  ASSUME psample \in DOMAIN Calls, step \in 1 .. Len(Calls[psample]) + 1
  PROVE  /\ step \in 1 .. 15 /\ Len(Calls[psample]) \in 1 .. 14
         /\ step > Len(Calls[psample]) => step \in {2, 4, 8, 12, 15}
         /\ psample \in {"env_check", "pci_probe", "ethdev_info", "ethdev_configure"} => step <= 8
         /\ psample \in {"env_check", "pci_probe", "ethdev_info"} => step <= 4
         /\ \A c : Calling(c) =>
              /\ step <= Len(Calls[psample])
              /\ c = "options" => step = 1
              /\ c = "resolve" => step = 2
              /\ c = "info" => step \in {3, 11} \/ (step = 7 /\ psample = "ethdev_configure")
              /\ c = "validate" => step = 4
              /\ c = "plan" => step = 5
              /\ c = "configure" => step = 6
              /\ c = "adjust" => step = 7 /\ psample # "ethdev_configure"
              /\ c = "pool" => step = 8
              /\ c = "rxq" => step = 9
              /\ c = "txq" => step = 10
              /\ c = "start" => step = 12
              /\ c = "link" => step = 13
              /\ c = "stop" => step = 14
<1>1. psample \in {"env_check", "pci_probe", "ethdev_info", "ethdev_configure", "queue_setup", "start_stop"}
  BY DEF Calls
<1>2. CASE psample \in {"env_check", "pci_probe"}
  <2>1. Calls[psample] = <<"options">>
    BY <1>2 DEF Calls, EnvCheck, PciProbe
  <2> QED
    BY <1>2, <2>1 DEF Calling
<1>3. CASE psample = "ethdev_info"
  <2>1. Calls[psample] = <<"options", "resolve", "info">>
    BY <1>3 DEF Calls, EthdevInfo
  <2> QED
    BY <1>3, <2>1 DEF Calling
<1>4. CASE psample = "ethdev_configure"
  <2>1. Calls[psample] = EthdevConfigure
    BY <1>4 DEF Calls
  <2> QED
    BY <1>4, <2>1 DEF Calling, EthdevConfigure
<1>5. CASE psample = "queue_setup"
  <2>1. Calls[psample] = QueueSetup
    BY <1>5 DEF Calls
  <2> QED
    BY <1>5, <2>1 DEF Calling, QueueSetup
<1>6. CASE psample = "start_stop"
  <2>1. Calls[psample] = StartStop
    BY <1>6 DEF Calls
  <2>2. Len(Calls[psample]) = 14 /\ step \in 1 .. 15
    BY <2>1, StartStopCalls
  <2>3. step \in 1 .. 11 => Calls[psample][step] = QueueSetup[step]
    BY <2>1, StartStopCalls
  <2>4. /\ step = 12 => Calls[psample][step] = "start"
        /\ step = 13 => Calls[psample][step] = "link"
        /\ step = 14 => Calls[psample][step] = "stop"
    BY <2>1, StartStopCalls
  <2> QED
    BY <1>6, <2>2, <2>3, <2>4 DEF Calling, QueueSetup
<1> QED
  BY <1>1, <1>2, <1>3, <1>4, <1>5, <1>6

\* What options can be.
LEMMA OptionFacts ==
  ASSUME psample \in DOMAIN Calls, NEW o \in Options[psample] \cup {NoOptions}
  PROVE  /\ o.rx_queues \in Nat \ {0} /\ o.tx_queues \in 1 .. MaxQueues /\ o.mbufs \in Nat
         /\ o.yes \in BOOLEAN
<1>0. {MaxQueues, MaxDesc, MaxMbufs} \subseteq Nat \ {0}
  BY PortAssumption
<1>1. psample \in {"env_check", "pci_probe", "ethdev_info", "ethdev_configure", "queue_setup", "start_stop"}
  BY DEF Calls
<1>2. ASSUME o = NoOptions PROVE o.rx_queues = 1 /\ o.tx_queues = 1 /\ o.mbufs = 1 /\ o.yes \in BOOLEAN
  BY <1>2 DEF NoOptions
<1>3. ASSUME NEW c \in ConfigureOptions
      PROVE  /\ c.rx_queues \in Nat \ {0} /\ c.tx_queues \in 1 .. MaxQueues /\ c.mbufs \in Nat
             /\ c.yes \in BOOLEAN
             /\ DOMAIN c = {"yes", "rx_queues", "tx_queues", "fits", "mbufs", "require_link_up"}
  BY <1>0 DEF ConfigureOptions
<1>4. ASSUME NEW c \in QueueOptions
      PROVE  /\ c.rx_queues \in Nat \ {0} /\ c.tx_queues \in 1 .. MaxQueues /\ c.mbufs \in Nat
             /\ c.yes \in BOOLEAN
             /\ DOMAIN c = {"yes", "rx_queues", "tx_queues", "fits", "mbufs", "require_link_up"}
  <2>1. PICK b \in ConfigureOptions, n \in 1 .. MaxMbufs : c = [b EXCEPT !.mbufs = n]
    BY DEF QueueOptions
  <2> QED
    BY <1>0, <1>3, <2>1
<1>5. ASSUME NEW c \in StartOptions
      PROVE  /\ c.rx_queues \in Nat \ {0} /\ c.tx_queues \in 1 .. MaxQueues /\ c.mbufs \in Nat
             /\ c.yes \in BOOLEAN
  <2>1. PICK b \in QueueOptions, r \in BOOLEAN : c = [b EXCEPT !.require_link_up = r]
    BY DEF StartOptions
  <2> QED
    BY <1>4, <2>1
<1>6. \/ o = NoOptions \/ o \in ConfigureOptions \/ o \in QueueOptions \/ o \in StartOptions
  <2>1. CASE psample \in {"env_check", "pci_probe", "ethdev_info"}
    <3>1. Options[psample] = {NoOptions}
      BY <2>1 DEF Options, EnvOptions, PciOptions, InfoOptions
    <3> QED
      BY <3>1
  <2>2. CASE psample = "ethdev_configure"
    <3>1. Options[psample] = ConfigureOptions
      BY <2>2 DEF Options
    <3> QED
      BY <3>1
  <2>3. CASE psample = "queue_setup"
    <3>1. Options[psample] = QueueOptions
      BY <2>3 DEF Options
    <3> QED
      BY <3>1
  <2>4. CASE psample = "start_stop"
    <3>1. Options[psample] = StartOptions
      BY <2>4 DEF Options
    <3> QED
      BY <3>1
  <2> QED
    BY <1>1, <2>1, <2>2, <2>3, <2>4
<1>7. CASE o = NoOptions
  <2>1. MaxQueues \in Nat \ {0}
    BY <1>0
  <2>2. 1 \in 1 .. MaxQueues
    BY <2>1
  <2> QED
    BY <1>2, <1>7, <2>2
<1> QED
  BY <1>3, <1>4, <1>5, <1>6, <1>7

\* An exception in the try block leaves everything to the handler.
LEMMA RaiseKeeps ==
  ASSUME PortInv, phase = "running", Raise, desc' \in 1 .. MaxDesc,
         UNCHANGED <<opts, configured, started, eal, port, rx, tx, link, mempool>>
  PROVE  PortInv'
<1>0. PortTypeOK /\ CallsMade
  BY DEF PortInv
<1>1. phase' = "catching" /\ down' = "stop" /\ UNCHANGED <<psample, step, refused>>
  BY DEF Raise
<1>2. PortTypeOK'
  BY <1>0, <1>1 DEF PortTypeOK
<1>3. step \in 1 .. 15
  BY <1>0, CallPlaces DEF PortTypeOK
<1>4. TearDown'
  <2>1. (port \in {"idle", "released"} => rx = 0) /\ (rx > 0 => mempool = "live") /\ refused = {}
    BY <1>0, <1>3 DEF CallsMade
  <2>2. /\ configured <=> port # "idle"
        /\ started <=> port = "started"
        /\ port # "released" /\ mempool # "freed"
    BY <1>0, <1>3 DEF CallsMade
  <2> QED
    BY <1>1, <2>1, <2>2 DEF TearDown
<1>5. mempool' = "none" => rx' = 0
  BY DEF PortInv
<1> QED
  BY <1>1, <1>2, <1>4, <1>5 DEF PortInv, PortEnded

\* A call that returns leaves everything as its place says.
LEMMA ReturnKeeps ==
  ASSUME PortInv, phase = "running", phase' = "running", CallsMade', UNCHANGED <<psample, down, refused>>,
         step' \in 1 .. Len(Calls[psample]) + 1,
         opts' \in Options[psample] \cup {NoOptions}, desc' \in 1 .. MaxDesc,
         {configured', started', eal', link'} \subseteq BOOLEAN,
         port' \in {"idle", "configured", "started"}, mempool' \in {"none", "live"},
         rx' \in 0 .. MaxQueues, tx' \in 0 .. MaxQueues
  PROVE  PortInv'
<1>1. PortTypeOK
  BY DEF PortInv
<1>2. PortTypeOK'
  BY <1>1 DEF PortTypeOK
<1>3. mempool' = "none" => rx' = 0
  <2>1. Len(Calls[psample]) \in 1 .. 14
    BY <1>1, CallPlaces DEF PortTypeOK
  <2>2. PICK n \in 1 .. 14 : n = Len(Calls[psample])
    BY <2>1
  <2>3. step' \in 1 .. n + 1
    BY <2>2
  <2>4. step' \in 1 .. 15
    BY <2>3
  <2> QED
    BY <2>4 DEF CallsMade
<1> QED
  BY <1>2, <1>3 DEF PortInv, PortEnded

\* The end of the try block and the handler.
LEMMA TearDownKeeps ==
  ASSUME PortInv, CatchStop \/ ClosePort \/ FreePool \/ CleanUpEal
  PROVE  PortInv'
<1>0. PortTypeOK /\ TearDown /\ phase \in {"leaving", "giving_up", "catching"}
      /\ (mempool = "none" => rx = 0)
  BY DEF PortInv, CatchStop, ClosePort, FreePool, CleanUpEal
<1>t. /\ refused \subseteq {"stop", "close"} /\ rx \in 0 .. MaxQueues /\ MaxQueues \in Nat
      /\ mempool \in {"none", "live", "freed"} /\ port \in {"idle", "configured", "started", "released"}
      /\ configured \in BOOLEAN /\ started \in BOOLEAN
  BY <1>0, PortAssumption DEF PortTypeOK
<1>1. CASE CatchStop
  <2>1. /\ phase = "catching" /\ down = "stop" /\ down' = "close"
        /\ \/ ~started /\ UNCHANGED <<port, link, refused>>
           \/ started /\ port' = "configured" /\ link' = FALSE /\ refused' = refused
           \/ started /\ refused' = refused \cup {"stop"} /\ UNCHANGED <<port, link>>
        /\ UNCHANGED <<psample, step, phase, opts, desc, configured, started, eal, rx, tx, mempool>>
    BY <1>1 DEF CatchStop
  <2>2. PortTypeOK'
    BY <1>0, <2>1 DEF PortTypeOK
  <2>3. TearDown'
    BY <1>0, <1>t, <2>1 DEF TearDown
  <2> QED
    BY <1>0, <2>1, <2>2, <2>3 DEF PortInv, PortEnded
<1>2. CASE ClosePort
  <2>1. /\ phase \in {"leaving", "catching"} /\ down = "close" /\ down' = "free"
        /\ UNCHANGED <<psample, step, opts, desc, started, eal, link, mempool>>
    BY <1>2 DEF ClosePort
  <2>2. CASE ~configured /\ UNCHANGED <<phase, configured, port, rx, tx, refused>>
    <3>1. PortTypeOK'
      BY <1>0, <2>1, <2>2 DEF PortTypeOK
    <3>2. TearDown'
      BY <1>0, <1>t, <2>1, <2>2 DEF TearDown
    <3> QED
      BY <1>0, <2>1, <2>2, <3>1, <3>2 DEF PortInv, PortEnded
  <2>3. CASE configured /\ Close
             /\ configured' = (phase = "catching" \/ "close" \in refused')
             /\ phase' = IF phase = "leaving" /\ "close" \in refused' THEN "giving_up" ELSE phase
    <3>1. /\ port' \in {port, "released"} /\ refused' \in {refused, refused \cup {"close"}}
          /\ (rx' = 0 /\ tx' = 0) \/ UNCHANGED <<rx, tx>>
          /\ port' = "released" /\ port = "configured" => rx' = 0
          /\ port' = "configured" => "close" \in refused'
          /\ port = "started" => port' = port
          /\ port' = "idle" => port = "idle"
          /\ port # "configured" => UNCHANGED <<port, rx, tx, refused>>
      BY <2>3 DEF Close
    <3>2. configured' \in BOOLEAN /\ phase' \in {"leaving", "giving_up", "catching"}
          /\ (phase' = "leaving" => phase = "leaving" /\ "close" \notin refused')
      BY <2>1, <2>3
    <3>3. 0 \in 0 .. MaxQueues
      BY <1>t
    <3>4. PortTypeOK'
      BY <1>0, <1>t, <2>1, <3>1, <3>2, <3>3 DEF PortTypeOK
    <3>5. /\ port' \in {"idle", "released"} => rx' = 0
          /\ rx' > 0 => rx > 0
          /\ phase' = "leaving" => refused' = {}
      BY <1>0, <1>t, <2>1, <3>1, <3>2 DEF TearDown
    <3>6. TearDown'
      BY <1>0, <1>t, <2>1, <3>1, <3>5 DEF TearDown
    <3> QED
      BY <1>0, <2>1, <3>1, <3>2, <3>4, <3>6 DEF PortInv, PortEnded
  <2> QED
    BY <1>2, <2>2, <2>3 DEF ClosePort
<1>3. CASE FreePool
  <2>1. /\ down = "free" /\ down' = "cleanup"
        /\ mempool' = IF mempool = "live" THEN "freed" ELSE mempool
        /\ UNCHANGED <<psample, step, phase, opts, desc, configured, started,
                       eal, port, rx, tx, link, refused>>
    BY <1>3 DEF FreePool
  <2>2. PortTypeOK'
    BY <1>0, <2>1 DEF PortTypeOK
  <2>3. TearDown'
    BY <1>0, <1>t, <2>1 DEF TearDown
  <2> QED
    BY <1>0, <2>1, <2>2, <2>3 DEF PortInv, PortEnded
<1>4. CASE CleanUpEal
  <2>1. /\ down = "cleanup" /\ eal' \in BOOLEAN
        /\ phase' = IF phase = "leaving" /\ ~eal' THEN "exit0" ELSE "exit1"
        /\ UNCHANGED <<psample, step, down, opts, desc, configured, started,
                       port, rx, tx, link, mempool, refused>>
    BY <1>4 DEF CleanUpEal
  <2>2. PortTypeOK'
    BY <1>0, <2>1 DEF PortTypeOK
  <2>3. PortTornDown'
    BY <1>0, <1>t, <2>1 DEF TearDown, PortTornDown, PortEnded
  <2>4. rx' > 0 => mempool' = "freed" /\ refused' # {}
    BY <1>0, <1>t, <2>1 DEF TearDown
  <2>5. mempool' = "none" => rx' = 0
    BY <1>0, <2>1
  <2> QED
    BY <2>1, <2>2, <2>3, <2>4, <2>5 DEF PortInv
<1> QED
  BY <1>1, <1>2, <1>3, <1>4

\* Every step of a DPDK sample, one case for each call.
LEMMA NextPortInv == ASSUME PortInv, PortNext PROVE PortInv'
<1>0. PortTypeOK /\ (mempool = "none" => rx = 0)
  BY DEF PortInv
<1>t. /\ psample \in DOMAIN Calls /\ step \in 1 .. Len(Calls[psample]) + 1
      /\ opts \in Options[psample] \cup {NoOptions} /\ desc \in 1 .. MaxDesc
      /\ configured \in BOOLEAN /\ started \in BOOLEAN /\ eal \in BOOLEAN /\ link \in BOOLEAN
      /\ rx \in 0 .. MaxQueues /\ tx \in 0 .. MaxQueues
      /\ port \in {"idle", "configured", "started", "released"}
      /\ mempool \in {"none", "live", "freed"}
  BY <1>0 DEF PortTypeOK
<1>m. {MaxQueues, MaxDesc, MaxMbufs} \subseteq Nat \ {0}
  BY PortAssumption
<1>p. /\ step \in 1 .. 15 /\ Len(Calls[psample]) \in 1 .. 14
      /\ step > Len(Calls[psample]) => step \in {2, 4, 8, 12, 15}
  BY <1>t, CallPlaces
<1>o. /\ opts.rx_queues \in Nat \ {0} /\ opts.tx_queues \in 1 .. MaxQueues /\ opts.mbufs \in Nat
      /\ opts.yes \in BOOLEAN
  BY <1>t, OptionFacts
<1>r. ASSUME phase = "running"
      PROVE  /\ CallsMade
             /\ port \in {"idle", "configured", "started"} /\ mempool \in {"none", "live"}
  <2>1. CallsMade
    BY <1>r DEF PortInv
  <2> QED
    BY <1>p, <2>1 DEF CallsMade
<1>s. ASSUME step <= Len(Calls[psample]) PROVE step + 1 \in 1 .. Len(Calls[psample]) + 1
  BY <1>p, <1>s
<1>1. CASE EalInit
  <2>1. /\ phase = "starting" /\ CallsMade /\ step = 1
        /\ phase' \in {"running", "exit1"} /\ eal' \in BOOLEAN
        /\ UNCHANGED <<psample, step, down, opts, desc, configured, started,
                       port, rx, tx, link, mempool, refused>>
    BY <1>1 DEF EalInit, PortInv
  <2>2. PortTypeOK'
    BY <1>0, <2>1 DEF PortTypeOK
  <2>3. CallsMade'
    BY <2>1 DEF CallsMade
  <2>4. port' = "idle" /\ mempool' = "none" /\ rx' = 0
    BY <2>1 DEF CallsMade
  <2>5. PortTornDown'
    BY <2>1, <2>4 DEF PortTornDown
  <2> QED
    BY <2>1, <2>2, <2>3, <2>4, <2>5 DEF PortInv
<1>2. CASE ParseOptions
  <2>1. Calling("options") /\ phase = "running" /\ UNCHANGED <<desc, configured, started, eal, port, rx, tx, link, mempool>>
    BY <1>2 DEF ParseOptions, Calling, dpdk
  <2>2. step = 1 /\ step <= Len(Calls[psample])
    BY <1>t, <2>1, CallPlaces
  <2>3. CASE opts' \in Options[psample] /\ Return
    <3>1. step' = 2 /\ UNCHANGED <<psample, phase, down, refused>>
      BY <2>2, <2>3 DEF Return
    <3>2. CallsMade'
      BY <1>r, <2>1, <2>2, <3>1 DEF CallsMade
    <3> QED
      BY <1>r, <1>s, <1>t, <2>1, <2>2, <2>3, <3>1, <3>2, ReturnKeeps
  <2>4. CASE opts' = opts /\ Raise
    BY <1>t, <2>1, <2>4, RaiseKeeps
  <2> QED
    BY <1>2, <2>3, <2>4 DEF ParseOptions
<1>3. CASE AskPort
  <2>1. /\ Calling("resolve") \/ Calling("info")
        /\ phase = "running" /\ UNCHANGED <<opts, desc, configured, started, eal, port, rx, tx, link, mempool>>
    BY <1>3 DEF AskPort, Calling, dpdk
  <2>2. /\ step \in {2, 3, 11} \/ (step = 7 /\ psample = "ethdev_configure")
        /\ step <= Len(Calls[psample])
    BY <1>t, <2>1, CallPlaces
  <2>3. CASE Return
    <3>1. step' = step + 1 /\ UNCHANGED <<psample, phase, down, refused>>
      BY <2>3 DEF Return
    <3>2. CallsMade'
      BY <1>o, <1>r, <2>1, <2>2, <3>1, SMTT(40) DEF CallsMade
    <3> QED
      BY <1>r, <1>s, <1>t, <2>1, <2>2, <3>1, <3>2, ReturnKeeps
  <2>4. CASE Raise
    BY <1>t, <2>1, <2>4, RaiseKeeps
  <2> QED
    BY <1>3, <2>3, <2>4 DEF AskPort
<1>4. CASE ValidateRequest
  <2>1. Calling("validate") /\ phase = "running" /\ UNCHANGED <<opts, desc, configured, started, eal, port, rx, tx, link, mempool>>
    BY <1>4 DEF ValidateRequest, Calling, dpdk
  <2>2. step = 4 /\ step <= Len(Calls[psample])
    BY <1>t, <2>1, CallPlaces
  <2>3. CASE opts.rx_queues <= MaxQueues /\ Return
    <3>1. step' = 5 /\ UNCHANGED <<psample, phase, down, refused>>
      BY <2>2, <2>3 DEF Return
    <3>2. CallsMade'
      BY <1>o, <1>r, <2>1, <2>2, <2>3, <3>1 DEF CallsMade
    <3> QED
      BY <1>r, <1>s, <1>t, <2>1, <2>2, <3>1, <3>2, ReturnKeeps
  <2>4. CASE Raise
    BY <1>t, <2>1, <2>4, RaiseKeeps
  <2> QED
    BY <1>4, <2>3, <2>4 DEF ValidateRequest
<1>l. ASSUME phase = "running", phase' = "leaving", down' = "close", step \notin {13, 14},
             UNCHANGED <<psample, step, opts, desc, configured, started, eal, port, rx, tx,
                         link, mempool, refused>>
      PROVE  PortInv'
  <2>1. PortTypeOK'
    BY <1>0, <1>l DEF PortTypeOK
  <2>2. /\ refused = {} /\ port # "released" /\ port # "started" /\ mempool # "freed"
        /\ configured <=> port # "idle"
        /\ rx > 0 => mempool = "live"
        /\ port = "idle" => rx = 0
    BY <1>l, <1>p, <1>r DEF CallsMade
  <2>3. TearDown'
    BY <1>l, <2>2 DEF TearDown
  <2> QED
    BY <1>0, <1>l, <2>1, <2>3 DEF PortInv, PortEnded
<1>5. CASE Plan
  <2>1. Calling("plan") /\ phase = "running" /\ UNCHANGED <<opts, desc, configured, started, eal, port, rx, tx, link, mempool>>
    BY <1>5 DEF Plan, Calling, dpdk
  <2>2. step = 5 /\ step <= Len(Calls[psample])
    BY <1>t, <2>1, CallPlaces
  <2>3. CASE Return
    <3>1. step' = 6 /\ UNCHANGED <<psample, phase, down, refused>>
      BY <2>2, <2>3 DEF Return
    <3>2. CallsMade'
      BY <1>o, <1>r, <2>1, <2>2, <3>1 DEF CallsMade
    <3> QED
      BY <1>r, <1>s, <1>t, <2>1, <2>2, <3>1, <3>2, ReturnKeeps
  <2>4. CASE phase' = "leaving" /\ down' = "close" /\ UNCHANGED <<psample, step, refused>>
    BY <1>l, <2>1, <2>2, <2>4
  <2> QED
    BY <1>5, <2>3, <2>4 DEF Plan
<1>6. CASE Configure
  <2>1. Calling("configure") /\ phase = "running" /\ UNCHANGED <<opts, desc, started, eal, rx, tx, link, mempool>>
    BY <1>6 DEF Configure, Calling
  <2>2. step = 6 /\ step <= Len(Calls[psample])
    BY <1>t, <2>1, CallPlaces
  <2>3. CASE port' = "configured" /\ configured' = TRUE /\ Return
    <3>1. step' = 7 /\ UNCHANGED <<psample, phase, down, refused>>
      BY <2>2, <2>3 DEF Return
    <3>2. CallsMade'
      BY <1>o, <1>r, <2>1, <2>2, <2>3, <3>1 DEF CallsMade
    <3> QED
      BY <1>r, <1>s, <1>t, <2>1, <2>2, <2>3, <3>1, <3>2, ReturnKeeps
  <2>4. CASE UNCHANGED <<port, configured>> /\ Raise
    BY <1>t, <2>1, <2>4, RaiseKeeps
  <2> QED
    BY <1>6, <2>3, <2>4 DEF Configure
<1>7. CASE AdjustDescriptors
  <2>1. Calling("adjust") /\ phase = "running" /\ UNCHANGED <<opts, configured, started, eal, port, rx, tx, link, mempool>>
    BY <1>7 DEF AdjustDescriptors, Calling, dpdk
  <2>2. step = 7 /\ step <= Len(Calls[psample])
    BY <1>t, <2>1, CallPlaces
  <2>3. CASE desc' \in 1 .. MaxDesc /\ ~(opts.mbufs < opts.rx_queues * desc') /\ Return
    <3>1. step' = 8 /\ UNCHANGED <<psample, phase, down, refused>>
      BY <2>2, <2>3 DEF Return
    <3>2. desc' \in Nat
      BY <1>m, <2>3
    <3>3. opts.rx_queues * desc' \in Nat
      BY <1>o, <3>2
    <3>4. opts'.rx_queues * desc' <= opts'.mbufs
      BY <1>o, <2>1, <2>3, <3>3
    <3>5. CallsMade'
      BY <1>o, <1>r, <2>1, <2>2, <3>1, <3>4 DEF CallsMade
    <3> QED
      BY <1>r, <1>s, <1>t, <2>1, <2>2, <2>3, <3>1, <3>5, ReturnKeeps
  <2>4. CASE desc' \in 1 .. MaxDesc /\ Raise
    BY <1>t, <2>1, <2>4, RaiseKeeps
  <2> QED
    BY <1>7, <1>t, <2>3, <2>4 DEF AdjustDescriptors
<1>8. CASE CreatePool
  <2>1. Calling("pool") /\ phase = "running" /\ UNCHANGED <<opts, desc, configured, started, eal, port, rx, tx, link>>
    BY <1>8 DEF CreatePool, Calling
  <2>2. step = 8 /\ step <= Len(Calls[psample])
    BY <1>t, <2>1, CallPlaces
  <2>3. CASE mempool' = "live" /\ Return
    <3>1. step' = 9 /\ UNCHANGED <<psample, phase, down, refused>>
      BY <2>2, <2>3 DEF Return
    <3>2. CallsMade'
      BY <1>o, <1>r, <2>1, <2>2, <2>3, <3>1 DEF CallsMade
    <3> QED
      BY <1>r, <1>s, <1>t, <2>1, <2>2, <2>3, <3>1, <3>2, ReturnKeeps
  <2>4. CASE mempool' = mempool /\ Raise
    BY <1>t, <2>1, <2>4, RaiseKeeps
  <2> QED
    BY <1>8, <2>3, <2>4 DEF CreatePool
<1>9. CASE SetUpRxQueue
  <2>1. Calling("rxq") /\ phase = "running" /\ UNCHANGED <<opts, desc, configured, started, eal, port, tx, link, mempool>>
    BY <1>9 DEF SetUpRxQueue, Calling
  <2>2. step = 9 /\ step <= Len(Calls[psample])
    BY <1>t, <2>1, CallPlaces
  <2>3. CASE rx' = rx + 1 /\ UNCHANGED <<psample, phase, down, refused>>
             /\ step' = IF rx' = opts.rx_queues THEN 10 ELSE step
    <3>1. rx < opts.rx_queues /\ opts.rx_queues <= MaxQueues
      BY <1>r, <2>1, <2>2 DEF CallsMade
    <3>2. rx' \in 0 .. MaxQueues /\ (rx' # opts.rx_queues => rx' < opts.rx_queues)
      BY <1>m, <1>o, <1>t, <2>3, <3>1
    <3>3. step' \in 1 .. Len(Calls[psample]) + 1
      BY <1>s, <1>t, <2>2, <2>3
    <3>4. CallsMade'
      BY <1>o, <1>r, <2>1, <2>2, <2>3, <3>2 DEF CallsMade
    <3> QED
      BY <1>r, <1>t, <2>1, <2>2, <2>3, <3>2, <3>3, <3>4, ReturnKeeps
  <2>4. CASE rx' = rx /\ Raise
    BY <1>t, <2>1, <2>4, RaiseKeeps
  <2> QED
    BY <1>9, <2>2, <2>3, <2>4 DEF SetUpRxQueue, Return
<1>10. CASE SetUpTxQueue
  <2>1. Calling("txq") /\ phase = "running" /\ UNCHANGED <<opts, desc, configured, started, eal, port, rx, link, mempool>>
    BY <1>10 DEF SetUpTxQueue, Calling
  <2>2. step = 10 /\ step <= Len(Calls[psample])
    BY <1>t, <2>1, CallPlaces
  <2>3. CASE tx' = tx + 1 /\ UNCHANGED <<psample, phase, down, refused>>
             /\ step' = IF tx' = opts.tx_queues THEN 11 ELSE step
    <3>1. tx < opts.tx_queues
      BY <1>r, <2>1, <2>2 DEF CallsMade
    <3>2. tx' \in 0 .. MaxQueues /\ (tx' # opts.tx_queues => tx' < opts.tx_queues)
      BY <1>m, <1>o, <1>t, <2>3, <3>1
    <3>3. step' \in 1 .. Len(Calls[psample]) + 1
      BY <1>s, <1>t, <2>2, <2>3
    <3>4. CallsMade'
      BY <1>o, <1>r, <2>1, <2>2, <2>3, <3>2 DEF CallsMade
    <3> QED
      BY <1>r, <1>t, <2>1, <2>2, <2>3, <3>2, <3>3, <3>4, ReturnKeeps
  <2>4. CASE tx' = tx /\ Raise
    BY <1>t, <2>1, <2>4, RaiseKeeps
  <2> QED
    BY <1>10, <2>2, <2>3, <2>4 DEF SetUpTxQueue, Return
<1>11. CASE StartPort
  <2>1. Calling("start") /\ phase = "running" /\ UNCHANGED <<opts, desc, configured, eal, rx, tx, link, mempool>>
    BY <1>11 DEF StartPort, Calling
  <2>2. step = 12 /\ step <= Len(Calls[psample])
    BY <1>t, <2>1, CallPlaces
  <2>3. CASE port' = "started" /\ started' = TRUE /\ Return
    <3>1. step' = 13 /\ UNCHANGED <<psample, phase, down, refused>>
      BY <2>2, <2>3 DEF Return
    <3>2. CallsMade'
      BY <1>o, <1>r, <2>1, <2>2, <2>3, <3>1 DEF CallsMade
    <3> QED
      BY <1>r, <1>s, <1>t, <2>1, <2>2, <2>3, <3>1, <3>2, ReturnKeeps
  <2>4. CASE UNCHANGED <<port, started>> /\ Raise
    BY <1>t, <2>1, <2>4, RaiseKeeps
  <2> QED
    BY <1>11, <2>3, <2>4 DEF StartPort
<1>12. CASE WaitForLink
  <2>1. Calling("link") /\ phase = "running" /\ UNCHANGED <<opts, desc, configured, started, eal, port, rx, tx, link, mempool>>
    BY <1>12 DEF WaitForLink, Calling, dpdk
  <2>2. step = 13 /\ step <= Len(Calls[psample])
    BY <1>t, <2>1, CallPlaces
  <2>3. CASE Return
    <3>1. step' = 14 /\ UNCHANGED <<psample, phase, down, refused>>
      BY <2>2, <2>3 DEF Return
    <3>2. CallsMade'
      BY <1>o, <1>r, <2>1, <2>2, <3>1 DEF CallsMade
    <3> QED
      BY <1>r, <1>s, <1>t, <2>1, <2>2, <3>1, <3>2, ReturnKeeps
  <2>4. CASE Raise
    BY <1>t, <2>1, <2>4, RaiseKeeps
  <2> QED
    BY <1>12, <2>3, <2>4 DEF WaitForLink
<1>13. CASE StopPort
  <2>1. Calling("stop") /\ phase = "running" /\ UNCHANGED <<opts, desc, configured, eal, rx, tx, mempool>>
    BY <1>13 DEF StopPort, Calling
  <2>2. step = 14 /\ step <= Len(Calls[psample])
    BY <1>t, <2>1, CallPlaces
  <2>3. CASE port' = "configured" /\ link' = FALSE /\ started' = FALSE /\ Return
    <3>1. step' = 15 /\ UNCHANGED <<psample, phase, down, refused>>
      BY <2>2, <2>3 DEF Return
    <3>2. CallsMade'
      BY <1>o, <1>r, <2>1, <2>2, <2>3, <3>1 DEF CallsMade
    <3>3. {configured', started', eal', link'} \subseteq BOOLEAN
      BY <1>t, <2>1, <2>3
    <3>4. step' \in 1 .. Len(Calls[psample]) + 1 /\ phase' = "running"
      BY <1>s, <2>1, <2>2, <3>1
    <3> QED
      BY <1>r, <1>t, <2>1, <2>3, <3>1, <3>2, <3>3, <3>4, ReturnKeeps
  <2>4. CASE UNCHANGED <<port, link, started>> /\ Raise
    BY <1>t, <2>1, <2>4, RaiseKeeps
  <2> QED
    BY <1>13, <2>3, <2>4 DEF StopPort
<1>14. CASE EndOfCalls
  <2>1. /\ phase = "running" /\ step > Len(Calls[psample]) /\ phase' = "leaving" /\ down' = "close"
        /\ UNCHANGED <<psample, step, opts, desc, configured, started, eal, port, rx, tx,
                       link, mempool, refused>>
    BY <1>14 DEF EndOfCalls, dpdk
  <2> QED
    BY <1>l, <1>p, <2>1
<1>15. CASE LinkComesUp
  <2>1. link' = TRUE /\ UNCHANGED <<psample, step, phase, down, opts, desc, configured, started,
                                    eal, port, rx, tx, mempool, refused>>
    BY <1>15 DEF LinkComesUp
  <2>2. PortTypeOK'
    BY <1>0, <2>1 DEF PortTypeOK
  <2>3. (CallsMade => CallsMade') /\ (TearDown => TearDown') /\ (PortTornDown => PortTornDown')
    BY <2>1 DEF CallsMade, TearDown, PortTornDown, PortEnded
  <2> QED
    BY <2>1, <2>2, <2>3 DEF PortInv, PortEnded
<1>16. CASE CatchStop \/ ClosePort \/ FreePool \/ CleanUpEal
  BY <1>16, TearDownKeeps
<1> QED
  BY <1>1, <1>2, <1>3, <1>4, <1>5, <1>6, <1>7, <1>8, <1>9, <1>10, <1>11, <1>12, <1>13, <1>14,
     <1>15, <1>16 DEF PortNext, PortRun

\* Both as a program of its own and as one that stands still.
LEMMA InitPortInv == PortInit \/ PortParked => PortInv
<1> SUFFICES ASSUME PortInit \/ PortParked PROVE PortInv
  OBVIOUS
<1>1. psample \in DOMAIN Calls
  BY PortSamplesAssumption DEF PortInit, PortParked, Calls
<1>2. phase \in {"starting", "exit1"} /\ PortStart
  BY DEF PortInit, PortParked
<1>3. /\ step = 1 /\ down = "stop" /\ opts = NoOptions /\ desc = 1
      /\ configured = FALSE /\ started = FALSE /\ eal = FALSE /\ port = "idle"
      /\ rx = 0 /\ tx = 0 /\ link = FALSE /\ mempool = "none" /\ refused = {}
  BY <1>2 DEF PortStart
<1>4. MaxQueues \in Nat /\ MaxDesc \in Nat \ {0}
  BY PortAssumption
<1>5. 0 \in 0 .. MaxQueues /\ 1 \in 1 .. MaxDesc
  BY <1>4
<1>6. 1 \in 1 .. Len(Calls[psample]) + 1
  <2>1. CASE psample \in {"env_check", "pci_probe"}
    BY <2>1 DEF Calls, EnvCheck, PciProbe
  <2>2. CASE psample = "ethdev_info"
    BY <2>2 DEF Calls, EthdevInfo
  <2>3. CASE psample = "ethdev_configure"
    BY <2>3 DEF Calls, EthdevConfigure
  <2>4. CASE psample = "queue_setup"
    BY <2>4 DEF Calls, QueueSetup
  <2>5. CASE psample = "start_stop"
    <3>1. Calls[psample] = StartStop
      BY <2>5 DEF Calls
    <3> QED
      BY <3>1, StartStopCalls
  <2> QED
    BY <1>1, <2>1, <2>2, <2>3, <2>4, <2>5 DEF Calls
<1>7. PortTypeOK
  BY <1>1, <1>2, <1>3, <1>5, <1>6 DEF PortTypeOK
<1>8. CallsMade
  BY <1>3, OptionFacts, <1>1 DEF CallsMade
<1>9. PortTornDown
  BY <1>2, <1>3 DEF PortTornDown
<1> QED
  BY <1>2, <1>3, <1>7, <1>8, <1>9 DEF PortInv

\* Standing still changes nothing.
LEMMA StillPortInv == ASSUME PortInv, UNCHANGED pvars PROVE PortInv'
<1>1. UNCHANGED <<psample, step, phase, down, opts, desc, configured, started,
                  eal, port, rx, tx, link, mempool, refused>>
  BY DEF pvars, dpdk
<1>2. PortTypeOK => PortTypeOK'
  BY <1>1 DEF PortTypeOK
<1>3. (CallsMade => CallsMade') /\ (TearDown => TearDown') /\ (PortTornDown => PortTornDown')
  BY <1>1 DEF CallsMade, TearDown, PortTornDown, PortEnded
<1> QED
  BY <1>1, <1>2, <1>3 DEF PortInv, PortEnded

\* What the invariant says of a port in use and of one that is given up.
LEMMA PortServed == PortInv => PortTornDown /\ PoolServesQueues
<1> SUFFICES ASSUME PortInv PROVE PortTornDown /\ PoolServesQueues
  OBVIOUS
<1>1. PortTypeOK /\ (mempool = "none" => rx = 0)
  BY DEF PortInv
<1>2. /\ psample \in DOMAIN Calls /\ step \in 1 .. Len(Calls[psample]) + 1
      /\ mempool \in {"none", "live", "freed"} /\ rx \in 0 .. MaxQueues
      /\ opts \in Options[psample] \cup {NoOptions}
      /\ phase \in {"starting", "running", "leaving", "giving_up", "catching", "exit0", "exit1"}
  BY <1>1 DEF PortTypeOK
<1>3. step \in 1 .. 15 /\ (psample = "ethdev_configure" => step <= 8)
  BY <1>2, CallPlaces
<1>4. rx > 0 => mempool = "live" \/ (mempool = "freed" /\ refused # {})
  <2>1. CASE phase \in {"starting", "running"}
    BY <1>1, <1>2, <1>3, <2>1 DEF PortInv, CallsMade
  <2>2. CASE phase \in {"leaving", "giving_up", "catching"}
    <3>1. rx > 0 => mempool = "live" \/ refused # {}
      BY <2>2 DEF PortInv, TearDown
    <3>2. rx > 0 => mempool # "none"
      BY <1>1
    <3> QED
      BY <1>2, <3>1, <3>2
  <2>3. CASE PortEnded
    BY <2>3 DEF PortInv
  <2> QED
    BY <1>2, <2>1, <2>2, <2>3 DEF PortEnded
<1>5. ASSUME port = "started", phase = "running"
      PROVE  rx = opts.rx_queues /\ tx = opts.tx_queues /\ rx * desc <= opts.mbufs
  <2>1. CallsMade
    BY <1>5 DEF PortInv
  <2>2. step \in {13, 14}
    BY <1>3, <1>5, <2>1 DEF CallsMade
  <2> QED
    BY <1>3, <2>1, <2>2 DEF CallsMade
<1>6. PortTornDown
  BY DEF PortInv, PortTornDown
<1> QED
  BY <1>1, <1>4, <1>5, <1>6 DEF PoolServesQueues

\* However a DPDK sample ends, it has stopped and closed its port and given back
\* the packet memory, or DPDK refused; and exit code 0 says that nothing did.
THEOREM PortAlwaysTornDown == PortSpec => []PortTornDown
<1>1. PortInit => PortInv
  BY InitPortInv
<1>2. PortInv /\ [PortNext]_pvars => PortInv'
  BY NextPortInv, StillPortInv
<1> QED
  BY <1>1, <1>2, PortServed, PTL DEF PortSpec

\* The packet memory outlives the queues that use it, and a port that runs has a
\* buffer for every descriptor, for every number of queues, descriptors and
\* buffers and whatever the driver makes of the number of descriptors.
THEOREM PoolAlwaysServes == PortSpec => []PoolServesQueues
<1>1. PortInit => PortInv
  BY InitPortInv
<1>2. PortInv /\ [PortNext]_pvars => PortInv'
  BY NextPortInv, StillPortInv
<1> QED
  BY <1>1, <1>2, PortServed, PTL DEF PortSpec

----
\* There are 48 slots for capabilities in configuration space.
LEMMA SlotCount == IsFiniteSet(Slots) /\ Cardinality(Slots) <= 48
<1>1. IsFiniteSet(16 .. 63) /\ Cardinality(16 .. 63) = 48
  <2>1. PICK a \in Int, b \in Int : a = 16 /\ b = 63
    OBVIOUS
  <2>2. IsFiniteSet(a .. b) /\ Cardinality(a .. b) = IF a > b THEN 0 ELSE b - a + 1
    BY FS_Interval
  <2> QED
    BY <2>1, <2>2
<1>2. PICK f : f = [k \in 16 .. 63 |-> 4 * k]
  OBVIOUS
<1>3. f \in Surjection(16 .. 63, Slots)
  <2>1. \A k \in 16 .. 63 : 4 * k \in Slots
    BY DEF Slots
  <2>2. f \in [16 .. 63 -> Slots]
    BY <1>2, <2>1
  <2>3. \A t \in Slots : \E k \in 16 .. 63 : f[k] = t
    BY <1>2 DEF Slots
  <2> QED
    BY <2>2, <2>3 DEF Surjection
<1> QED
  BY <1>1, <1>3, FS_Surjection

\* A byte that is the place of a capability is so after the mask.
LEMMA SlotFacts ==
  ASSUME NEW byte \in 0 .. 255, Slot(byte) >= 64
  PROVE  Slot(byte) \in Slots /\ Slot(byte) \in Nat
<1>1. byte = 4 * (byte \div 4) + (byte % 4) /\ byte % 4 \in 0 .. 3
  OBVIOUS
<1>2. PICK k \in Nat : k = byte \div 4
  OBVIOUS
<1>3. Slot(byte) = 4 * k
  BY <1>1, <1>2 DEF Slot
<1>4. k \in 16 .. 63
  BY <1>1, <1>2, <1>3
<1> QED
  BY <1>3, <1>4 DEF Slots

\* What a capability and the region it is in can be.
LEMMA BarFacts ==
  ASSUME bar \in BarWindows \cup {NoWindow}
  PROVE  /\ bar.size \in Nat /\ bar.offset \in Nat /\ bar.length \in Nat /\ bar.into \in Nat
         /\ bar.size <= WordMax
         /\ \A a \in bar.areas : a.offset \in Nat /\ a.size \in Nat
<1>0. WordMax \in Nat /\ \A n \in BarSizes \cup Offsets \cup Lengths : n \in Nat /\ n <= WordMax
  BY WindowAssumption
<1>1. CASE bar = NoWindow
  BY <1>0, <1>1 DEF NoWindow
<1>2. CASE bar \in BarWindows
  <2>1. bar \in [kind : Kinds, size : BarSizes, offset : Offsets, length : Lengths,
                 into : Lengths, areas : Areas]
    BY <1>2 DEF BarWindows
  <2>2. /\ bar.size \in Nat /\ bar.offset \in Nat /\ bar.length \in Nat /\ bar.into \in Nat
        /\ bar.size <= WordMax /\ bar.areas \in Areas
    BY <1>0, <2>1
  <2>3. ASSUME NEW a \in bar.areas PROVE a.offset \in Nat /\ a.size \in Nat
    <3>1. PICK o \in Offsets, n \in Lengths : a = [offset |-> o, size |-> n]
      BY <2>2 DEF Areas
    <3> QED
      BY <1>0, <3>1
  <2> QED
    BY <2>2, <2>3
<1> QED
  BY <1>1, <1>2

\* A remainder is no more than what is divided.
LEMMA Remainder ==
  ASSUME NEW n \in Nat, NEW m \in Nat \ {0}
  PROVE  n % m \in 0 .. m - 1 /\ n % m <= n /\ (n < m => n % m = n)
OBVIOUS

\* A sum of 64 bits is the sum, or less where that does not fit.
LEMMA WordSumFacts ==
  ASSUME NEW a \in Nat, NEW b \in Nat
  PROVE  /\ WordSum(a, b) \in Nat /\ WordSum(a, b) <= WordMax /\ WordSum(a, b) <= a + b
         /\ a + b <= WordMax => WordSum(a, b) = a + b
<1>1. WordMax \in Nat
  BY WindowAssumption
<1>2. PICK m \in Nat \ {0}, n \in Nat : m = WordMax + 1 /\ n = a + b /\ WordSum(a, b) = n % m
  BY <1>1 DEF WordSum
<1>3. n % m \in 0 .. m - 1 /\ n % m <= n /\ (n < m => n % m = n)
  BY Remainder
<1> QED
  BY <1>1, <1>2, <1>3

\* A window begins with a page.
LEMMA RangeBegins ==
  ASSUME NEW offset \in Nat, NEW size, MapRange(offset, size)
  PROVE  \E d \in 0 .. PageBytes - 1 :
           /\ d <= offset /\ (offset - d) % PageBytes = 0
           /\ window'.at = offset - d /\ window'.delta = d /\ window'.size = WordSum(d, size)
<1>0. PageBytes \in Nat \ {0}
  BY WindowAssumption
<1>1. PICK d \in 0 .. PageBytes - 1 : d = offset % PageBytes
  BY <1>0
<1>2. PICK q \in Nat : q = offset \div PageBytes
  BY <1>0
<1>3. offset = PageBytes * q + d
  BY <1>0, <1>1, <1>2
<1>4. (PageBytes * q) % PageBytes = 0 /\ PageBytes * q \in Nat
  BY <1>0
<1>5. offset - d = PageBytes * q /\ d <= offset
  BY <1>0, <1>3, <1>4
<1>6. window'.at = offset - d /\ window'.delta = d /\ window'.size = WordSum(d, size)
  BY <1>1 DEF MapRange
<1> QED
  BY <1>4, <1>5, <1>6

\* MappedRegion: a window of whole pages up to a range of the capability, of its
\* BAR and of an area, whose accesses start at the delta, stays in the range.
LEMMA RangeInside ==
  ASSUME bar \in BarWindows \cup {NoWindow}, bar' = bar,
         NEW offset \in Nat, NEW size \in Nat, MapRange(offset, size), MayMap(offset, size),
         offset >= bar.offset, offset + size <= bar.offset + bar.length, offset + size <= bar.size
  PROVE  WindowInside'
<1>0. PageBytes \in Nat \ {0}
  BY WindowAssumption
<1>1. PICK d \in 0 .. PageBytes - 1 :
        /\ d <= offset /\ (offset - d) % PageBytes = 0
        /\ window'.at = offset - d /\ window'.delta = d /\ window'.size = WordSum(d, size)
  BY RangeBegins
<1>5. WordSum(d, size) = d + size
  <2>1. WordMax \in Nat /\ d \in Nat
    BY <1>0, WindowAssumption
  <2>2. d + size <= WordMax
    BY <1>1, <2>1, BarFacts
  <2> QED
    BY <2>1, <2>2, WordSumFacts
<1>6. window'.at = offset - d /\ window'.delta = d /\ window'.size = d + size
  BY <1>1, <1>5
<1>7. window'.at % PageBytes = 0
  BY <1>1, <1>6
<1>8. ASSUME NEW o \in window'.delta .. window'.size, NEW w \in 1 .. 4, InRange(o, w)'
      PROVE  window'.at + o >= offset /\ window'.at + o + w <= offset + size /\ window'.at + o \in Nat
  <2>1. o \in Nat /\ o >= d /\ o + w <= d + size
    <3>1. ~(w > window'.size - o) /\ window'.size \in Nat /\ window'.delta \in Nat
      BY <1>0, <1>1, <1>6, <1>8 DEF InRange
    <3> QED
      BY <1>0, <1>1, <1>6, <3>1
  <2> QED
    BY <1>0, <1>1, <1>6, <2>1
<1>9. ASSUME NEW o \in window'.delta .. window'.size, NEW w \in 1 .. 4, InRange(o, w)'
      PROVE  /\ window'.at + o >= bar'.offset /\ window'.at + o + w <= bar'.offset + bar'.length
             /\ window'.at + o + w <= bar'.size
             /\ bar'.areas = {} \/ \E a \in bar'.areas :
                  window'.at + o >= a.offset /\ window'.at + o + w <= a.offset + a.size
  <2>1. PICK first \in Nat : first = window'.at + o
    BY <1>8, <1>9
  <2>2. first >= offset /\ first + w <= offset + size
    BY <1>8, <1>9, <2>1
  <2>3. ASSUME NEW a \in bar.areas, Contains(a, offset, size)
        PROVE  first >= a.offset /\ first + w <= a.offset + a.size
    BY <2>2, <2>3, BarFacts DEF Contains
  <2>4. bar.areas = {} \/ \E a \in bar.areas : first >= a.offset /\ first + w <= a.offset + a.size
    BY <2>3 DEF MayMap
  <2>5. /\ first >= bar.offset /\ first + w <= bar.offset + bar.length
        /\ first + w <= bar.size
    BY <2>2, BarFacts
  <2> QED
    BY <2>1, <2>4, <2>5
<1> QED
  BY <1>7, <1>9 DEF WindowInside

\* Every step of the walk and of a mapping.
LEMMA NextWindowInv == ASSUME WindowInv, WindowRun PROVE WindowInv'
<1>0. /\ cap \in PointerBytes \cup {0} /\ bar \in BarWindows \cup {NoWindow}
      /\ lookup \in {"walking", "found", "mapping", "mapped", "failed"}
      /\ WalkInv /\ WindowInside
  BY DEF WindowInv
<1>w. /\ visited \subseteq Slots /\ hop = Cardinality(visited)
      /\ caps \in Seq([at : Nat, len : Nat, type : Kinds])
      /\ \A k \in DOMAIN caps : caps[k].at \in visited /\ caps[k].at + caps[k].len <= ConfigSize
      /\ \A j, k \in DOMAIN caps : caps[j].at = caps[k].at => j = k
  BY <1>0 DEF WalkInv
<1>1. ASSUME NextCap, lookup' \in {"walking", "failed"},
             \/ caps' = caps
             \/ \E type \in Kinds, len \in {CapSize, NotifySize, Cap64Size} :
                  /\ Slot(cap) + len <= ConfigSize
                  /\ caps' = Append(caps, [at |-> Slot(cap), len |-> len, type |-> type])
      PROVE  WindowInv'
  <2>1. /\ Slot(cap) >= 64 /\ Slot(cap) \notin visited /\ bar' = bar
        /\ visited' = visited \cup {Slot(cap)} /\ cap' \in PointerBytes /\ hop' = hop + 1
    BY <1>1 DEF NextCap, Hops, Listed
  <2>2. cap \in 0 .. 255
    BY <1>0, PointerAssumption
  <2>3. PICK s \in Slots : s = Slot(cap) /\ s \in Nat
    BY <2>1, <2>2, SlotFacts
  <2>4. visited' \subseteq Slots /\ hop' = Cardinality(visited')
    <3>1. IsFiniteSet(visited)
      BY <1>w, SlotCount, FS_Subset
    <3>2. Cardinality(visited \cup {s}) = Cardinality(visited) + 1
      BY <2>1, <2>3, <3>1, FS_AddElement
    <3> QED
      BY <1>w, <2>1, <2>3, <3>2
  <2>5. WalkInv'
    <3>1. CASE caps' = caps
      BY <1>w, <2>1, <2>4, <3>1 DEF WalkInv
    <3>2. ASSUME NEW type \in Kinds, NEW len \in {CapSize, NotifySize, Cap64Size},
                 s + len <= ConfigSize, caps' = Append(caps, [at |-> s, len |-> len, type |-> type])
          PROVE  WalkInv'
      <4>1. PICK c \in [at : Nat, len : Nat, type : Kinds] :
              c = [at |-> s, len |-> len, type |-> type] /\ c.at = s /\ c.at + c.len <= ConfigSize
        BY <2>3, <3>2 DEF CapSize, NotifySize, Cap64Size
      <4>2. caps' = Append(caps, c)
        BY <3>2, <4>1
      <4>3. /\ caps' \in Seq([at : Nat, len : Nat, type : Kinds])
            /\ DOMAIN caps = 1 .. Len(caps) /\ Len(caps) \in Nat
            /\ DOMAIN caps' = 1 .. Len(caps) + 1
            /\ \A k \in DOMAIN caps : caps'[k] = caps[k]
            /\ caps'[Len(caps) + 1] = c
        BY <1>w, <4>2
      <4>4. \A k \in DOMAIN caps' : k \in DOMAIN caps \/ k = Len(caps) + 1
        BY <4>3
      <4>5. \A k \in DOMAIN caps' : caps'[k].at \in visited' /\ caps'[k].at + caps'[k].len <= ConfigSize
        BY <1>w, <2>1, <2>3, <4>1, <4>3, <4>4
      <4>6. ASSUME NEW j \in DOMAIN caps', NEW k \in DOMAIN caps', caps'[j].at = caps'[k].at
            PROVE  j = k
        <5>1. \A i \in DOMAIN caps : caps'[i].at = caps[i].at /\ caps[i].at # s
          BY <1>w, <2>1, <2>3, <4>3
        <5>2. caps'[Len(caps) + 1].at = s
          BY <4>1, <4>3
        <5>3. CASE j \in DOMAIN caps /\ k \in DOMAIN caps
          BY <1>w, <4>6, <5>1, <5>3
        <5>4. CASE j = Len(caps) + 1 \/ k = Len(caps) + 1
          BY <4>4, <4>6, <5>1, <5>2, <5>4
        <5> QED
          BY <4>4, <5>3, <5>4
      <4> QED
        BY <2>4, <4>3, <4>5, <4>6 DEF WalkInv
    <3> QED
      BY <1>1, <2>3, <3>1, <3>2
  <2>6. WindowInside'
    BY <1>1 DEF WindowInside
  <2> QED
    BY <1>0, <1>1, <2>1, <2>5, <2>6 DEF WindowInv
<1>2. CASE SkipCap
  <2>1. NextCap /\ caps' = caps /\ lookup' = "walking"
    BY <1>2 DEF SkipCap, NextCap, Hops
  <2> QED
    BY <1>1, <2>1
<1>3. CASE TakeCap
  <2>1. NextCap /\ lookup = "walking"
    BY <1>3 DEF TakeCap, NextCap, Hops
  <2>2. PICK type \in Kinds, len \in {CapSize, NotifySize, Cap64Size} :
          /\ Slot(cap) + len <= ConfigSize
          /\ IF type = "notify" /\ len < NotifySize
             THEN lookup' = "failed" /\ caps' = caps
             ELSE lookup' = lookup /\ caps' = Append(caps, [at |-> Slot(cap), len |-> len, type |-> type])
    BY <1>3 DEF TakeCap
  <2> QED
    BY <1>1, <2>1, <2>2
<1>s. ASSUME UNCHANGED <<cap, hop, visited, caps, bar>>,
             lookup' \in {"found", "mapped", "failed"}, WindowInside'
      PROVE  WindowInv'
  <2>1. WalkInv'
    BY <1>0, <1>s DEF WalkInv
  <2> QED
    BY <1>0, <1>s, <2>1 DEF WindowInv
<1>4. CASE FindCap
  <2>1. UNCHANGED <<cap, hop, visited, caps, bar>> /\ lookup' \in {"found", "failed"}
    BY <1>4 DEF FindCap
  <2>2. WindowInside'
    BY <2>1 DEF WindowInside
  <2> QED
    BY <1>s, <2>1, <2>2
<1>5. CASE MapConfig
  <2>1. /\ bar.offset < bar.size /\ MayMap(bar.offset, Inspected) /\ MapRange(bar.offset, Inspected)
        /\ UNCHANGED <<cap, hop, visited, caps, bar>> /\ lookup' = "mapped"
    BY <1>5 DEF MapConfig, MapRange
  <2>2. /\ Inspected \in Nat /\ bar.offset + Inspected <= bar.offset + bar.length
        /\ bar.offset + Inspected <= bar.size
    BY <1>0, <2>1, BarFacts, WindowAssumption DEF Inspected, LesserOf
  <2>3. bar.offset \in Nat /\ bar.offset >= bar.offset
    BY <1>0, BarFacts
  <2>4. PICK size \in Nat : size = Inspected
    BY <2>2
  <2>5. WindowInside'
    BY <1>0, <2>1, <2>2, <2>3, <2>4, RangeInside
  <2> QED
    BY <1>s, <2>1, <2>5
<1>6. CASE MapNotify
  <2>1. /\ NotifyEnd <= bar.size /\ ~(NotifyOffset < bar.offset)
        /\ NotifyEnd <= WordSum(bar.offset, bar.length)
        /\ MayMap(NotifyOffset, 2) /\ MapRange(NotifyOffset, 2)
        /\ UNCHANGED <<cap, hop, visited, caps, bar>> /\ lookup' = "mapped"
    BY <1>6 DEF MapNotify, MapRange, InNotifyCfg, NotifyBytes
  <2>2. /\ bar.size \in Nat /\ bar.offset \in Nat /\ bar.length \in Nat /\ bar.into \in Nat
        /\ WordMax \in Nat
    BY <1>0, BarFacts, WindowAssumption
  <2>3. PICK offset \in Nat : offset = NotifyOffset
    BY <2>2, WordSumFacts DEF NotifyOffset
  <2>4. MayMap(offset, 2) /\ MapRange(offset, 2)
    BY <2>1, <2>3
  <2>5. ASSUME offset + 2 > WordMax PROVE WindowInside'
    <3>1. NotifyWraps'
      <4>1. lookup = "mapping" /\ bar.kind = "notify"
        BY <1>6 DEF MapNotify
      <4>2. NotifyOffset' = NotifyOffset
        BY <2>1 DEF NotifyOffset
      <4> QED
        BY <2>1, <2>3, <2>5, <4>1, <4>2 DEF NotifyWraps, NotifyBytes
    <3>2. window'.at % PageBytes = 0
      BY <2>4, RangeBegins
    <3> QED
      BY <3>1, <3>2 DEF WindowInside
  <2>6. ASSUME offset + 2 <= WordMax PROVE WindowInside'
    <3>1. NotifyEnd = offset + 2
      BY <2>3, <2>6, WordSumFacts DEF NotifyEnd, NotifyBytes
    <3>2. WordSum(bar.offset, bar.length) \in Nat /\ WordSum(bar.offset, bar.length) <= bar.offset + bar.length
      BY <2>2, WordSumFacts
    <3>3. /\ offset >= bar.offset /\ offset + 2 <= bar.offset + bar.length
          /\ offset + 2 <= bar.size
      BY <2>1, <2>2, <2>3, <3>1, <3>2
    <3> QED
      BY <1>0, <2>1, <2>4, <3>3, RangeInside
  <2>7. offset + 2 > WordMax \/ offset + 2 <= WordMax
    BY <2>2, <2>3
  <2>8. WindowInside'
    BY <2>5, <2>6, <2>7, Zenon
  <2> QED
    BY <1>s, <2>1, <2>8
<1>7. CASE LookupFails
  <2>1. UNCHANGED <<cap, hop, visited, caps, bar>> /\ lookup' = "failed"
    BY <1>7 DEF LookupFails
  <2>2. WindowInside'
    BY <2>1 DEF WindowInside
  <2> QED
    BY <1>s, <2>1, <2>2
<1> QED
  BY <1>2, <1>3, <1>4, <1>5, <1>6, <1>7 DEF WindowRun

\* Both as a lookup of its own and as one that stands still.
LEMMA InitWindowInv == WindowInit \/ WindowParked => WindowInv
<1> SUFFICES ASSUME WindowInit \/ WindowParked PROVE WindowInv
  OBVIOUS
<1>1. /\ hop = 0 /\ visited = {} /\ caps = << >>
      /\ cap \in PointerBytes \cup {0} /\ bar \in BarWindows \cup {NoWindow}
      /\ lookup \in {"walking", "mapping", "failed"}
  BY DEF WindowInit, WindowParked, WalkStart
<1>2. << >> \in Seq([at : Nat, len : Nat, type : Kinds]) /\ DOMAIN << >> = {}
  OBVIOUS
<1>3. WalkInv
  BY <1>1, <1>2, FS_EmptySet DEF WalkInv
<1> QED
  BY <1>1, <1>3 DEF WindowInv, WindowInside

\* Standing still changes nothing.
LEMMA StillWindowInv == ASSUME WindowInv, UNCHANGED wvars PROVE WindowInv'
<1>1. UNCHANGED <<cap, hop, visited, caps, lookup, bar, window>>
  BY DEF wvars
<1>2. WalkInv => WalkInv'
  BY <1>1 DEF WalkInv
<1>3. WindowInside => WindowInside'
  BY <1>1 DEF WindowInside, InRange, NotifyWraps, NotifyOffset
<1> QED
  BY <1>1, <1>2, <1>3 DEF WindowInv

\* A walk that has been to every slot once has not used up its hops.
LEMMA WindowReached == WindowInv => RegistersReached
<1> SUFFICES ASSUME WindowInv PROVE RegistersReached
  OBVIOUS
<1>1. /\ visited \subseteq Slots /\ hop = Cardinality(visited) /\ WindowInside
      /\ \A k \in DOMAIN caps : caps[k].at + caps[k].len <= ConfigSize
      /\ \A j, k \in DOMAIN caps : caps[j].at = caps[k].at => j = k
  BY DEF WindowInv, WalkInv
<1>2. IsFiniteSet(visited) /\ hop <= Cardinality(Slots) /\ hop \in Nat /\ Cardinality(Slots) \in Nat
  BY <1>1, SlotCount, FS_Subset, FS_CardinalityType
<1>3. hop < 64 /\ hop \in 0 .. 64
  BY <1>2, SlotCount
<1>4. visited \subseteq 64 .. 255
  BY <1>1 DEF Slots
<1> QED
  BY <1>1, <1>3, <1>4 DEF RegistersReached, WindowTypeOK, CapsOnce, WindowInv

\* However a device links its capabilities and wherever in its BARs it puts their
\* registers, the walk ends by itself with capabilities that do not begin twice,
\* and every access that is let through is to bytes of the capability, of its BAR
\* and of an area that may be mapped, for every word and page size.  The exception
\* is NotifyWraps: the code lets through two notify bytes that begin at one of the
\* last two offsets of a word, because their end has wrapped.
THEOREM RegistersAlwaysReached == WindowSpec => []RegistersReached
<1>1. WindowInit => WindowInv
  BY InitWindowInv
<1>2. WindowInv /\ [WindowRun]_wvars => WindowInv'
  BY NextWindowInv, StillWindowInv
<1> QED
  BY <1>1, <1>2, WindowReached, PTL DEF WindowSpec

----
\* The file copies.  A copy is good as long as nothing has happened that it does not look at.
GoodCopy == ~short_write /\ ~(short_read /\ copier \in Pipelined)
\* The first n bytes have been copied, and nothing else.
CopiedTo(n) == GoodCopy => dst = SourceBytes(0, n)
\* Buffer b begins with the n bytes of the source after off.
Holds(b, off, n) == \A k \in 1 .. n : bufs[b][k] = off + k
\* The kernel has nothing to do and nothing to tell.
Quiet == transfers = {} /\ completed = << >>
Results == -1 .. BlockSize
ReadCqe(res) == [op |-> "read", res |-> res]
WriteCqe(res) == [op |-> "write", res |-> res]

\* What a read of len bytes at off into buffer b has done when it gives res: nothing is
\* given only at the end of the file, and less than there is counts as short.
HasRead(b, len, off, res) ==
  res # -1 => /\ res \in 0 .. len /\ off + res <= file_size /\ Holds(b, off, res)
              /\ res = 0 => off = file_size
              /\ res < len /\ off + res < file_size => short_read
\* What a write that gives res, after which n bytes should be there, has done.
HasWritten(n, res) == res # -1 => CopiedTo(n)

\* 03, between the read of a block and the write of it.
BlockRead ==
  /\ turn = "got" /\ copier = "file_copy" /\ CopiedTo(read_off)
  /\ \/ transfers = {ReadOp(0, BlockSize, read_off)} /\ completed = << >>
     \/ \E res \in Results : /\ HasRead(0, BlockSize, read_off, res)
                             /\ transfers = {} /\ completed = <<ReadCqe(res)>>
\* 03 and 04: a write of the n bytes at read_off is under way, or has come back after the
\* completions before.
WriteAfter(n, base) ==
  \/ /\ transfers = {WriteOp(0, n, read_off)} /\ completed = base
     /\ CopiedTo(read_off) /\ Holds(0, read_off, n)
  \/ \E res \in Results : /\ HasWritten(read_off + n, res)
                          /\ transfers = {} /\ completed = base \o <<WriteCqe(res)>>
BlockWrite ==
  /\ turn = "put" /\ copier = "file_copy"
  /\ bytes_read \in 1 .. BlockSize /\ read_off + bytes_read <= file_size
  /\ WriteAfter(bytes_read, << >>)
\* 04: the pair waits for its read, has been cut, or the write is on its own.
PairInv ==
  /\ turn = "pair" /\ copier = "linked_copy" /\ read_off < file_size
  /\ \/ /\ to_reap = 2 /\ completed = << >> /\ CopiedTo(read_off)
        /\ transfers = {ReadOp(0, Chunk(read_off), read_off),
                        [WriteOp(0, Chunk(read_off), read_off) EXCEPT !.linked = TRUE]}
     \/ /\ to_reap = 2 /\ transfers = {}
        /\ \E res \in Results : completed = <<ReadCqe(res), WriteCqe(-1)>>
     \/ to_reap = 2 /\ WriteAfter(Chunk(read_off), <<ReadCqe(Chunk(read_off))>>)
     \/ to_reap = 1 /\ WriteAfter(Chunk(read_off), << >>)

\* 05 and 06.  A transfer of a round is under way, has completed, or there is none (any
\* more); completions come in any order.
Stages == {"under", "done", "none"}
Flow(rs, ws, rd, wr, r, w) ==
  /\ transfers = (IF rs = "under" THEN {rd} ELSE {}) \cup (IF ws = "under" THEN {wr} ELSE {})
  /\ completed \in IF rs = "done" /\ ws = "done" THEN {<<r, w>>, <<w, r>>}
                   ELSE IF rs = "done" THEN {<<r>>} ELSE IF ws = "done" THEN {<<w>>} ELSE {<< >>}
  /\ to_reap = (IF rs = "none" THEN 0 ELSE 1) + (IF ws = "none" THEN 0 ELSE 1)
\* The write of the wl bytes before write_off, from the buffer that is not read into.
RoundWrite(ws, wl, wres) ==
  /\ ws = "under" => /\ wl > 0 /\ wl <= write_off /\ CopiedTo(write_off - wl)
                     /\ GoodCopy => Holds(1 - cur, write_off - wl, wl)
  /\ ws # "under" => HasWritten(write_off, wres)
  /\ ws = "none" => wres # -1
\* The read at ro.
RoundRead(rs, ro, rres) ==
  /\ ro < file_size \/ file_size = 0
  /\ read_off = ro + Chunk(ro) /\ write_off <= ro /\ (GoodCopy => write_off = ro)
  /\ rs # "under" => HasRead(cur, Chunk(ro), ro, rres)
  /\ rs = "none" => rres # -1
  /\ bytes_read = IF rs = "none" THEN rres ELSE 0
RoundInv ==
  /\ turn = "reap" /\ copier \in Pipelined
  /\ \E rs \in Stages, ws \in Stages, ro \in 0 .. file_size, wl \in 0 .. BlockSize,
        rres \in Results, wres \in Results :
       /\ RoundRead(rs, ro, rres) /\ RoundWrite(ws, wl, wres)
       /\ Flow(rs, ws, ReadOp(cur, Chunk(ro), ro), WriteOp(1 - cur, wl, write_off - wl),
               ReadCqe(rres), WriteCqe(wres))
DrainInv ==
  /\ turn = "drain" /\ copier \in Pipelined /\ (GoodCopy => write_off = file_size)
  /\ \E ws \in {"under", "done"}, wl \in 0 .. BlockSize, wres \in Results :
       /\ RoundWrite(ws, wl, wres)
       /\ Flow("none", ws, 0, WriteOp(1 - cur, wl, write_off - wl), 0, WriteCqe(wres))

BeforeFirst ==
  /\ turn = "open" \/ (turn = "first" /\ copier \in Pipelined)
  /\ Quiet /\ dst = << >> /\ read_off = 0 /\ write_off = 0 /\ cur = 0 /\ bytes_read = 0
BetweenBlocks == turn = "read" /\ copier \notin Pipelined /\ Quiet /\ CopiedTo(read_off)

CopyTypes ==
  /\ CopyTypeOK /\ read_off <= file_size /\ write_off <= file_size
  /\ bufs \in [0 .. 1 -> [1 .. BlockSize -> 0 .. MaxFileSize]]
  /\ {short_read, short_write} \subseteq BOOLEAN
CopyInv ==
  /\ CopyTypes
  /\ copy_exit = "0" => Quiet /\ CopiedTo(file_size)
  /\ copy_exit = "none" => \/ BeforeFirst \/ BetweenBlocks \/ BlockRead \/ BlockWrite \/ PairInv
                           \/ RoundInv \/ DrainInv

LEMMA ShortLists ==
  ASSUME NEW r, NEW w
  PROVE  /\ <<r>> # << >> /\ Head(<<r>>) = r /\ Tail(<<r>>) = << >>
         /\ <<r, w>> # << >> /\ Head(<<r, w>>) = r /\ Tail(<<r, w>>) = <<w>>
         /\ Append(<< >>, r) = <<r>> /\ Append(<<r>>, w) = <<r, w>>
         /\ << >> \o <<r>> = <<r>> /\ <<r>> \o <<w>> = <<r, w>>
<1>1. <<r>> # << >> /\ Head(<<r>>) = r /\ Tail(<<r>>) = << >>
  OBVIOUS
<1>2. <<r, w>> # << >> /\ Head(<<r, w>>) = r
  OBVIOUS
<1>3. Tail(<<r, w>>) = <<w>>
  OBVIOUS
<1>4. Append(<< >>, r) = <<r>>
  OBVIOUS
<1>5. Append(<<r>>, w) = <<r, w>>
  <2>1. PICK S, s, t : S = {r, w} /\ s = Append(<<r>>, w) /\ t = <<r, w>>
    OBVIOUS
  <2>2. s \in Seq(S) /\ Len(s) = 2 /\ s[1] = r /\ s[2] = w
    BY <2>1
  <2>3. t \in Seq(S) /\ Len(t) = 2 /\ t[1] = r /\ t[2] = w
    BY <2>1
  <2>4. \A k \in 1 .. 2 : s[k] = t[k]
    BY <2>2, <2>3
  <2>5. s = t
    BY <2>2, <2>3, <2>4
  <2> QED
    BY <2>1, <2>5
<1>6. << >> \o <<r>> = <<r>>
  OBVIOUS
<1>7. <<r>> \o <<w>> = <<r, w>>
  <2>1. PICK S, s, t : S = {r, w} /\ s = <<r>> \o <<w>> /\ t = <<r, w>>
    OBVIOUS
  <2>2. s \in Seq(S) /\ Len(s) = 2 /\ s[1] = r /\ s[2] = w
    BY <2>1
  <2>3. t \in Seq(S) /\ Len(t) = 2 /\ t[1] = r /\ t[2] = w
    BY <2>1
  <2>4. \A k \in 1 .. 2 : s[k] = t[k]
    BY <2>2, <2>3
  <2>5. s = t
    BY <2>2, <2>3, <2>4
  <2> QED
    BY <2>1, <2>5
<1> QED
  BY <1>1, <1>2, <1>3, <1>4, <1>5, <1>6, <1>7

\* The types of a step that leaves the program running.
LEMMA ChunkFacts ==
  ASSUME CopyTypes, NEW off \in 0 .. file_size
  PROVE  /\ Chunk(off) \in 0 .. BlockSize /\ off + Chunk(off) <= file_size
         /\ off + Chunk(off) \in 0 .. file_size
         /\ off < file_size => Chunk(off) > 0
         /\ Chunk(off) < BlockSize => off + Chunk(off) = file_size
<1>1. file_size \in Nat /\ BlockSize \in Nat \ {0}
  BY CopyAssumption DEF CopyTypes, CopyTypeOK
<1> QED
  BY <1>1 DEF Chunk, Min2

\* The bytes of the source are a sequence.
LEMMA SourceFacts ==
  ASSUME NEW off \in Nat, NEW n \in Nat
  PROVE  /\ SourceBytes(off, n) \in [1 .. n -> Nat] /\ Len(SourceBytes(off, n)) = n
         /\ \A k \in 1 .. n : SourceBytes(off, n)[k] = off + k
BY DEF SourceBytes

\* What a read does to its buffer.
LEMMA ReadInto ==
  ASSUME CopyTypes, NEW f \in [1 .. BlockSize -> 0 .. MaxFileSize], NEW off \in Nat,
         NEW res \in 1 .. BlockSize, off + res <= file_size
  PROVE  /\ Overwrite(f, 0, SourceBytes(off, res)) \in [1 .. BlockSize -> 0 .. MaxFileSize]
         /\ \A k \in 1 .. res : Overwrite(f, 0, SourceBytes(off, res))[k] = off + k
<1>0. BlockSize \in Nat /\ MaxFileSize \in Nat /\ file_size \in Nat /\ file_size <= MaxFileSize /\ res \in Nat
  BY CopyAssumption DEF CopyTypes, CopyTypeOK
<1>1. PICK s : s = SourceBytes(off, res)
  OBVIOUS
<1>2. Len(s) = res /\ \A k \in 1 .. res : s[k] = off + k
  BY <1>0, <1>1, SourceFacts
<1>3. Len(f) = BlockSize
  BY <1>0
<1>4. Overwrite(f, 0, s) = [k \in 1 .. BlockSize |-> IF k <= res THEN s[k] ELSE f[k]]
  BY <1>0, <1>2, <1>3 DEF Overwrite
<1>5. \A k \in 1 .. BlockSize : (IF k <= res THEN s[k] ELSE f[k]) \in 0 .. MaxFileSize
  BY <1>0, <1>2
<1>6. PICK g : g = Overwrite(f, 0, s)
  OBVIOUS
<1>7. g \in [1 .. BlockSize -> 0 .. MaxFileSize]
  BY <1>4, <1>5, <1>6
<1>8. \A k \in 1 .. res : g[k] = off + k
  BY <1>0, <1>2, <1>4, <1>6
<1> QED
  BY <1>1, <1>6, <1>7, <1>8

\* What a write of a buffer does to a file that holds what is before it.
LEMMA WriteBehind ==
  ASSUME NEW a \in Nat, NEW n \in Nat, NEW f, n <= BlockSize,
         f \in [1 .. BlockSize -> 0 .. MaxFileSize], \A k \in 1 .. n : f[k] = a + k
  PROVE  Overwrite(SourceBytes(0, a), a, SubSeq(f, 1, n)) = SourceBytes(0, a + n)
<1>0. BlockSize \in Nat /\ MaxFileSize \in Nat
  BY CopyAssumption
<1>1. PICK s : s = SubSeq(f, 1, n)
  OBVIOUS
<1>2. Len(s) = n /\ \A k \in 1 .. n : s[k] = a + k
  <2>1. f \in Seq(Nat) /\ Len(f) = BlockSize
    BY <1>0
  <2> QED
    BY <1>0, <1>1, <2>1
<1>3. PICK d : d = SourceBytes(0, a)
  OBVIOUS
<1>4. Len(d) = a /\ \A k \in 1 .. a : d[k] = k
  BY <1>3 DEF SourceBytes
<1>5. Overwrite(d, a, s) = [k \in 1 .. a + n |-> IF k > a /\ k <= a + n THEN s[k - a]
                                              ELSE IF k <= a THEN d[k] ELSE 0]
  BY <1>2, <1>4 DEF Overwrite
<1>6. \A k \in 1 .. a + n : (IF k > a /\ k <= a + n THEN s[k - a] ELSE IF k <= a THEN d[k] ELSE 0) = 0 + k
  BY <1>2, <1>4
<1>7. Overwrite(d, a, s) = [k \in 1 .. a + n |-> 0 + k]
  BY <1>5, <1>6
<1> QED
  BY <1>1, <1>3, <1>7 DEF SourceBytes

\* What the completion of a read leaves.
AfterRead(o, len, res) ==
  \/ /\ res = len /\ completed' = Append(completed, ReadCqe(res))
     /\ transfers' = (transfers \ ({o} \cup Linked))
                     \cup {[x EXCEPT !.linked = FALSE] : x \in Linked}
  \/ /\ res # len /\ transfers' = transfers \ ({o} \cup Linked)
     /\ completed' = Append(completed, ReadCqe(res))
                     \o (IF Linked = {} THEN << >> ELSE <<WriteCqe(-1)>>)

\* A read completes: what it has read is in its buffer, and the other buffer and the file
\* are as they were.
LEMMA ReadCompletes ==
  ASSUME CopyTypes, NEW b \in 0 .. 1, NEW len \in 0 .. BlockSize, NEW off \in 0 .. file_size,
         NEW o, o = ReadOp(b, len, off), CompleteRead(o),
         file_size' = file_size, file_size = 0 \/ len > 0
  PROVE  \E res \in Results :
           /\ HasRead(b, len, off, res)'
           /\ bufs' \in [0 .. 1 -> [1 .. BlockSize -> 0 .. MaxFileSize]] /\ bufs'[1 - b] = bufs[1 - b]
           /\ short_read' \in BOOLEAN /\ (short_read => short_read') /\ UNCHANGED <<dst, short_write>>
           /\ AfterRead(o, len, res)
<1>0. /\ BlockSize \in Nat /\ MaxFileSize \in Nat /\ file_size \in Nat /\ file_size <= MaxFileSize
      /\ len \in Nat /\ off \in Nat /\ off <= file_size /\ len <= BlockSize
      /\ bufs \in [0 .. 1 -> [1 .. BlockSize -> 0 .. MaxFileSize]] /\ short_read \in BOOLEAN
  BY CopyAssumption DEF CopyTypes, CopyTypeOK
<1>l. PICK left : left = IF file_size > off THEN Min2(len, file_size - off) ELSE 0
  OBVIOUS
<1>1. /\ left \in Nat /\ left <= len /\ off + left <= file_size
      /\ left = 0 => off = file_size
      /\ \A r \in Nat : r < len /\ off + r < file_size => r < left
  <2>1. CASE file_size > off /\ len < file_size - off
    <3>1. left = len
      BY <1>l, <2>1 DEF Min2
    <3> QED
      BY <1>0, <2>1, <3>1
  <2>2. CASE file_size > off /\ ~(len < file_size - off)
    <3>1. left = file_size - off
      BY <1>l, <2>2 DEF Min2
    <3> QED
      BY <1>0, <2>2, <3>1
  <2>3. CASE ~(file_size > off)
    <3>1. left = 0
      BY <1>l, <2>3
    <3> QED
      BY <1>0, <2>3, <3>1
  <2> QED
    BY <2>1, <2>2, <2>3
<1>2. o.buf = b /\ o.len = len /\ o.off = off
  BY DEF ReadOp
<1>3. PICK res \in {-1} \cup (IF left = 0 THEN {0} ELSE 1 .. left) :
        /\ bufs' = [bufs EXCEPT ![b] = IF res > 0 THEN Overwrite(@, 0, SourceBytes(off, res)) ELSE @]
        /\ short_read' = (short_read \/ (res >= 0 /\ res < left))
        /\ IF res = len
           THEN /\ transfers' = (transfers \ ({o} \cup Linked))
                                \cup {[x EXCEPT !.linked = FALSE] : x \in Linked}
                /\ completed' = Append(completed, ReadCqe(res))
           ELSE /\ transfers' = transfers \ ({o} \cup Linked)
                /\ completed' = Append(completed, ReadCqe(res))
                                \o (IF Linked = {} THEN << >> ELSE <<WriteCqe(-1)>>)
        /\ UNCHANGED <<dst, short_write>>
  BY <1>l, <1>2, ZenonT(60) DEF CompleteRead, ReadCqe, WriteCqe
<1>4. /\ res \in Results /\ (res # -1 => res \in 0 .. len /\ off + res <= file_size)
      /\ res = 0 => off = file_size
  BY <1>0, <1>1, <1>3, SMTT(40) DEF Results
<1>5. bufs' \in [0 .. 1 -> [1 .. BlockSize -> 0 .. MaxFileSize]] /\ bufs'[1 - b] = bufs[1 - b]
      /\ (res > 0 => \A k \in 1 .. res : bufs'[b][k] = off + k)
  <2>1. 1 - b # b /\ 1 - b \in 0 .. 1
    OBVIOUS
  <2>2. CASE res > 0
    <3>1. res \in 1 .. BlockSize /\ off + res <= file_size
      BY <1>0, <1>4, <2>2
    <3>2. PICK g : g = Overwrite(bufs[b], 0, SourceBytes(off, res))
      OBVIOUS
    <3>3. g \in [1 .. BlockSize -> 0 .. MaxFileSize] /\ \A k \in 1 .. res : g[k] = off + k
      BY <1>0, <3>1, <3>2, ReadInto
    <3>4. bufs' = [bufs EXCEPT ![b] = g]
      BY <1>3, <2>2, <3>2
    <3> QED
      BY <1>0, <2>1, <3>3, <3>4
  <2>3. CASE ~(res > 0)
    BY <1>0, <1>3, <2>3
  <2> QED
    BY <2>2, <2>3
<1>6. short_read' \in BOOLEAN /\ (short_read => short_read')
  BY <1>0, <1>3
<1>7. HasRead(b, len, off, res)'
  <2>1. ASSUME res # -1 PROVE \A k \in 1 .. res : bufs'[b][k] = off + k
    <3>1. CASE res > 0
      BY <1>5, <3>1
    <3>2. CASE res = 0
      BY <3>2
    <3> QED
      BY <1>4, <2>1, <3>1, <3>2
  <2>2. ASSUME res # -1, res < len, off + res < file_size PROVE short_read'
    <3>1. res \in Nat /\ res >= 0
      BY <1>0, <1>4, <2>2
    <3>2. res < left
      BY <1>1, <2>2, <3>1
    <3> QED
      BY <1>3, <3>1, <3>2, Zenon
  <2> QED
    BY <1>4, <2>1, <2>2 DEF HasRead, Holds
<1>8. AfterRead(o, len, res)
  BY <1>3 DEF AfterRead
<1> QED
  BY <1>3, <1>4, <1>5, <1>6, <1>7, <1>8

\* A write completes: the buffers are as they were, and if it was not short and the file
\* held what is before it the file holds what was in the buffer as well.
LEMMA WriteCompletes ==
  ASSUME CopyTypes, NEW b \in 0 .. 1, NEW len \in 1 .. BlockSize, NEW off \in Nat,
         NEW o, o = WriteOp(b, len, off), CompleteWrite(o),
         CopiedTo(off), GoodCopy => Holds(b, off, len), copier' = copier
  PROVE  \E res \in Results :
           /\ HasWritten(off + len, res)'
           /\ short_write' \in BOOLEAN /\ (short_write => short_write') /\ UNCHANGED <<bufs, short_read>>
           /\ transfers' = transfers \ {o} /\ completed' = Append(completed, WriteCqe(res))
<1>0. /\ BlockSize \in Nat /\ MaxFileSize \in Nat /\ len \in Nat /\ len <= BlockSize
      /\ bufs[b] \in [1 .. BlockSize -> 0 .. MaxFileSize] /\ short_write \in BOOLEAN
  BY CopyAssumption, SMTT(30) DEF CopyTypes, CopyTypeOK
<1>1. o.buf = b /\ o.len = len /\ o.off = off
  BY DEF WriteOp
<1>2. PICK res \in {-1} \cup 1 .. len :
        /\ dst' = IF res > 0 THEN Overwrite(dst, off, SubSeq(bufs[b], 1, res)) ELSE dst
        /\ short_write' = (short_write \/ (res >= 0 /\ res < len))
        /\ completed' = Append(completed, WriteCqe(res))
        /\ transfers' = transfers \ {o} /\ UNCHANGED <<bufs, short_read>>
  BY <1>1 DEF CompleteWrite, WriteCqe
<1>3. res \in Results /\ short_write' \in BOOLEAN /\ (short_write => short_write')
  BY <1>0, <1>2 DEF Results
<1>4. HasWritten(off + len, res)'
  <2>1. SUFFICES ASSUME res # -1, GoodCopy' PROVE dst' = SourceBytes(0, off + len)
    BY DEF HasWritten, CopiedTo, SourceBytes
  <2>2. GoodCopy /\ res = len
    <3>1. GoodCopy /\ ~(res >= 0 /\ res < len)
      BY <1>2, <2>1, Zenon DEF GoodCopy
    <3> QED
      BY <1>0, <2>1, <3>1
  <2>3. dst = SourceBytes(0, off) /\ \A k \in 1 .. len : bufs[b][k] = off + k
    BY <2>2 DEF CopiedTo, Holds
  <2>4. dst' = Overwrite(SourceBytes(0, off), off, SubSeq(bufs[b], 1, len))
    BY <1>0, <1>2, <2>2, <2>3
  <2> QED
    BY <1>0, <2>3, <2>4, WriteBehind
<1> QED
  BY <1>2, <1>3, <1>4

\* Where the program is, by its turn; the kinds of transfers.
LEMMA CopyPlaces ==
  ASSUME CopyInv, copy_exit = "none"
  PROVE  /\ turn \in {"open", "first"} => BeforeFirst
         /\ turn = "read" => BetweenBlocks
         /\ turn = "got" => BlockRead
         /\ turn = "put" => BlockWrite
         /\ turn = "pair" => PairInv
         /\ turn = "reap" => RoundInv
         /\ turn = "drain" => DrainInv
BY DEF CopyInv, BeforeFirst, BetweenBlocks, BlockRead, BlockWrite, PairInv, RoundInv, DrainInv

\* The completion that is taken.
LEMMA ArrivedFacts ==
  ASSUME NEW c \in Arrived
  PROVE  completed # << >> /\ c = Head(completed)
BY DEF Arrived

\* What the constants and the types say of the numbers.
LEMMA CopyNumbers ==
  ASSUME CopyTypes
  PROVE  /\ BlockSize \in Nat /\ BlockSize > 0 /\ MaxFileSize \in Nat
         /\ file_size \in Nat /\ file_size <= MaxFileSize
         /\ read_off \in 0 .. file_size /\ write_off \in 0 .. file_size
         /\ cur \in 0 .. 1 /\ 1 - cur \in 0 .. 1 /\ 1 - (1 - cur) = cur /\ 1 - cur # cur
         /\ bytes_read \in 0 .. BlockSize /\ to_reap \in 0 .. 2
<1>1. /\ BlockSize \in Nat \ {0} /\ MaxFileSize \in Nat /\ file_size \in 0 .. MaxFileSize
      /\ read_off \in 0 .. MaxFileSize /\ write_off \in 0 .. MaxFileSize
      /\ read_off <= file_size /\ write_off <= file_size
      /\ cur \in 0 .. 1 /\ bytes_read \in 0 .. BlockSize /\ to_reap \in 0 .. 2
  BY CopyAssumption DEF CopyTypes, CopyTypeOK
<1> QED
  BY <1>1

\* The types after a step of the program, which leaves the buffers alone.
LEMMA StepTypes ==
  ASSUME CopyTypes, UNCHANGED <<copier, file_size, bufs, short_read, short_write>>,
         turn' \in {"open", "read", "got", "put", "pair", "first", "reap", "drain"},
         read_off' \in 0 .. file_size, write_off' \in 0 .. file_size,
         cur' \in 0 .. 1, bytes_read' \in 0 .. BlockSize, to_reap' \in 0 .. 2,
         copy_exit' \in {"none", "0", "1"}
  PROVE  CopyTypes'
<1>1. /\ file_size \in Nat /\ file_size <= MaxFileSize /\ MaxFileSize \in Nat
  BY CopyNumbers
<1>2. {read_off', write_off'} \subseteq 0 .. MaxFileSize /\ read_off' <= file_size /\ write_off' <= file_size
  BY <1>1
<1>3. /\ copier \in {"file_copy", "linked_copy"} \cup Pipelined /\ file_size \in 0 .. MaxFileSize
      /\ \A b \in 0 .. 1 : bufs[b] \in [1 .. BlockSize -> 0 .. MaxFileSize]
      /\ bufs \in [0 .. 1 -> [1 .. BlockSize -> 0 .. MaxFileSize]]
      /\ {short_read, short_write} \subseteq BOOLEAN
  BY DEF CopyTypes, CopyTypeOK
<1>4. CopyTypeOK'
  BY <1>2, <1>3 DEF CopyTypeOK
<1> QED
  BY <1>2, <1>3, <1>4 DEF CopyTypes

\* The steps of 03.
LEMMA NextBlocks ==
  ASSUME CopyInv, ReadBlock \/ WriteBlock \/ BlockWritten
  PROVE  CopyInv'
<1>0. CopyTypes
  BY DEF CopyInv
<1>n. /\ BlockSize \in Nat /\ BlockSize > 0 /\ file_size \in Nat
      /\ read_off \in 0 .. file_size /\ write_off \in 0 .. file_size
      /\ cur \in 0 .. 1 /\ bytes_read \in 0 .. BlockSize /\ to_reap \in 0 .. 2
  BY <1>0, CopyNumbers
<1>1. CASE ReadBlock
  <2>1. /\ turn = "read" /\ copier = "file_copy" /\ copy_exit = "none" /\ turn' = "got"
        /\ transfers' = transfers \cup {ReadOp(0, BlockSize, read_off)}
        /\ UNCHANGED <<copier, file_size, copy_exit, position, bufs, dst, completed, short_read, short_write>>
    BY <1>1 DEF ReadBlock, CopyAt, Submit, Proceed
  <2>2. BetweenBlocks
    BY <2>1, CopyPlaces
  <2>3. BlockRead'
    BY <2>1, <2>2 DEF BlockRead, BetweenBlocks, Quiet, CopiedTo, GoodCopy, position, ReadOp
  <2>4. CopyTypes'
    BY <1>0, <1>n, <2>1, StepTypes DEF position
  <2> QED
    BY <2>1, <2>3, <2>4 DEF CopyInv
<1>2. CASE WriteBlock
  <2>1. /\ turn = "got" /\ copier = "file_copy" /\ copy_exit = "none"
        /\ UNCHANGED <<copier, file_size, read_off, write_off, cur, to_reap, bufs, dst, short_read, short_write>>
    BY <1>2 DEF WriteBlock, CopyAt, Proceed, CopyEnds
  <2>2. PICK c \in Arrived :
          /\ c.res >= 0 /\ completed' = Tail(completed) /\ bytes_read' = c.res
          /\ IF c.res = 0 THEN CopyEnds("0") /\ transfers' = transfers
             ELSE transfers' = transfers \cup {WriteOp(0, c.res, read_off)} /\ Proceed("put")
    BY <1>2 DEF WriteBlock
  <2>3. BlockRead
    BY <2>1, CopyPlaces
  <2>4. completed # << >> /\ c = Head(completed)
    BY <2>2, ArrivedFacts
  <2>5. PICK res \in Results : /\ HasRead(0, BlockSize, read_off, res)
                               /\ transfers = {} /\ completed = <<ReadCqe(res)>>
    BY <2>3, <2>4 DEF BlockRead
  <2>6. c = ReadCqe(res) /\ completed' = << >>
    BY <2>2, <2>4, <2>5, ShortLists
  <2>7. c.res = res /\ res # -1 /\ res \in Int
    BY <2>2, <2>6, <1>n DEF ReadCqe, Results
  <2>8. /\ res \in 0 .. BlockSize /\ read_off + res <= file_size /\ Holds(0, read_off, res)
        /\ res = 0 => read_off = file_size
    BY <2>5, <2>7 DEF HasRead
  <2>9. CASE res = 0
    <3>1. copy_exit' = "0" /\ turn' = turn /\ transfers' = {} /\ bytes_read' = 0
      BY <2>2, <2>5, <2>7, <2>9 DEF CopyEnds
    <3>2. CopyTypes'
      BY <1>0, <1>n, <2>1, <3>1, StepTypes
    <3>3. Quiet' /\ CopiedTo(file_size)'
      BY <2>1, <2>3, <2>6, <2>8, <2>9, <3>1 DEF Quiet, BlockRead, CopiedTo, GoodCopy
    <3> QED
      BY <3>1, <3>2, <3>3 DEF CopyInv
  <2>10. CASE res # 0
    <3>1. /\ copy_exit' = "none" /\ turn' = "put" /\ bytes_read' = res
          /\ transfers' = {WriteOp(0, res, read_off)}
      BY <2>1, <2>2, <2>5, <2>7, <2>10 DEF Proceed
    <3>2. res \in 1 .. BlockSize
      BY <1>n, <2>8, <2>10
    <3>3. CopyTypes'
      BY <1>0, <1>n, <2>1, <2>8, <3>1, StepTypes
    <3>4. CopiedTo(read_off)' /\ Holds(0, read_off, res)'
      BY <2>1, <2>3, <2>8 DEF BlockRead, CopiedTo, GoodCopy, Holds
    <3>5. WriteAfter(bytes_read, << >>)'
      BY <2>1, <2>6, <3>1, <3>4 DEF WriteAfter, Holds, WriteOp
    <3>6. BlockWrite'
      BY <2>1, <2>8, <3>1, <3>2, <3>5 DEF BlockWrite
    <3> QED
      BY <3>1, <3>3, <3>6 DEF CopyInv
  <2> QED
    BY <2>9, <2>10
<1>3. CASE BlockWritten
  <2>1. /\ turn = "put" /\ copier = "file_copy" /\ copy_exit = "none" /\ turn' = "read"
        /\ read_off' = read_off + bytes_read
        /\ UNCHANGED <<copier, file_size, copy_exit, write_off, cur, bytes_read, to_reap,
                       bufs, dst, transfers, short_read, short_write>>
    BY <1>3 DEF BlockWritten, CopyAt, Proceed, Reap
  <2>2. PICK c \in Arrived : c.res >= 0 /\ completed' = Tail(completed)
    BY <1>3 DEF BlockWritten, Reap
  <2>3. BlockWrite
    BY <2>1, CopyPlaces
  <2>4. completed # << >> /\ c = Head(completed)
    BY <2>2, ArrivedFacts
  <2>5. PICK res \in Results : /\ HasWritten(read_off + bytes_read, res) /\ transfers = {}
                               /\ completed = << >> \o <<WriteCqe(res)>>
    BY <2>3, <2>4 DEF BlockWrite, WriteAfter
  <2>6. c = WriteCqe(res) /\ completed' = << >>
    BY <2>2, <2>4, <2>5, ShortLists
  <2>7. res # -1
    BY <2>2, <2>6, <1>n DEF WriteCqe, Results
  <2>8. bytes_read \in 1 .. BlockSize /\ read_off + bytes_read <= file_size
    BY <2>3 DEF BlockWrite
  <2>9. CopyTypes'
    BY <1>0, <1>n, <2>1, <2>8, StepTypes
  <2>10. BetweenBlocks'
    BY <2>1, <2>5, <2>6, <2>7 DEF BetweenBlocks, Quiet, HasWritten, CopiedTo, GoodCopy, Pipelined
  <2> QED
    BY <2>1, <2>9, <2>10 DEF CopyInv
<1> QED
  BY <1>1, <1>2, <1>3

\* The steps of 04.
LEMMA NextPair ==
  ASSUME CopyInv, SubmitPair \/ ReapPair
  PROVE  CopyInv'
<1>0. CopyTypes
  BY DEF CopyInv
<1>n. /\ BlockSize \in Nat /\ BlockSize > 0 /\ file_size \in Nat
      /\ read_off \in 0 .. file_size /\ write_off \in 0 .. file_size
      /\ cur \in 0 .. 1 /\ bytes_read \in 0 .. BlockSize /\ to_reap \in 0 .. 2
  BY <1>0, CopyNumbers
<1>1. CASE SubmitPair
  <2>1. /\ turn = "read" /\ copier = "linked_copy" /\ copy_exit = "none"
        /\ UNCHANGED <<copier, file_size, read_off, write_off, cur, bytes_read,
                       bufs, dst, completed, short_read, short_write>>
    BY <1>1 DEF SubmitPair, CopyAt, CopyEnds, Submit, Proceed, kernel
  <2>2. BetweenBlocks
    BY <2>1, CopyPlaces
  <2>3. CASE ReadDone
    <3>1. copy_exit' = "0" /\ UNCHANGED <<turn, transfers, to_reap>>
      BY <1>1, <2>3 DEF SubmitPair, CopyEnds, kernel
    <3>2. read_off = file_size
      BY <1>n, <2>3 DEF ReadDone
    <3>3. CopyTypes'
      BY <1>0, <1>n, <2>1, <3>1, StepTypes
    <3>4. Quiet' /\ CopiedTo(file_size)'
      BY <2>1, <2>2, <3>1, <3>2 DEF Quiet, BetweenBlocks, CopiedTo, GoodCopy
    <3> QED
      BY <3>1, <3>3, <3>4 DEF CopyInv
  <2>4. CASE ~ReadDone
    <3>1. /\ copy_exit' = "none" /\ turn' = "pair" /\ to_reap' = 2
          /\ transfers' = transfers \cup {ReadOp(0, Chunk(read_off), read_off),
                            [WriteOp(0, Chunk(read_off), read_off) EXCEPT !.linked = TRUE]}
      BY <1>1, <2>1, <2>4 DEF SubmitPair, Proceed, Submit
    <3>2. read_off < file_size
      BY <1>n, <2>4 DEF ReadDone
    <3>3. CopyTypes'
      BY <1>0, <1>n, <2>1, <3>1, StepTypes
    <3>4. CopiedTo(read_off)' /\ completed' = << >> /\ transfers = {}
      BY <2>1, <2>2 DEF Quiet, BetweenBlocks, CopiedTo, GoodCopy
    <3>5. Chunk(read_off)' = Chunk(read_off)
      BY <2>1 DEF Chunk
    <3>6. PairInv'
      BY <2>1, <3>1, <3>2, <3>4, <3>5 DEF PairInv, ReadOp, WriteOp
    <3> QED
      BY <3>1, <3>3, <3>6 DEF CopyInv
  <2> QED
    BY <2>3, <2>4
<1>2. CASE ReapPair
  <2>1. /\ turn = "pair" /\ copy_exit = "none" /\ to_reap' = to_reap - 1
        /\ UNCHANGED <<copier, file_size, copy_exit, write_off, cur, bytes_read,
                       bufs, dst, transfers, short_read, short_write>>
        /\ IF to_reap = 1 THEN read_off' = read_off + Chunk(read_off) /\ turn' = "read"
           ELSE read_off' = read_off /\ turn' = "pair"
    BY <1>2 DEF ReapPair, CopyAt, Proceed, Reap
  <2>2. PICK c \in Arrived : c.res >= 0 /\ completed' = Tail(completed)
    BY <1>2 DEF ReapPair, Reap
  <2>3. PairInv
    BY <2>1, CopyPlaces
  <2>4. completed # << >> /\ c = Head(completed)
    BY <2>2, ArrivedFacts
  <2>5. /\ Chunk(read_off) \in 0 .. BlockSize /\ read_off + Chunk(read_off) \in 0 .. file_size
        /\ Chunk(read_off)' = Chunk(read_off) \/ to_reap = 1
    BY <1>0, <1>n, <2>1, ChunkFacts DEF Chunk
  <2>6. copier = "linked_copy" /\ read_off < file_size /\ to_reap \in {1, 2}
    BY <2>3 DEF PairInv
  <2>7. CopyTypes'
    <3>1. to_reap' \in 0 .. 2 /\ read_off' \in 0 .. file_size /\ turn' \in {"read", "pair"}
      BY <1>n, <2>1, <2>5, <2>6
    <3> QED
      BY <1>0, <1>n, <2>1, <3>1, StepTypes
  <2>8. PICK n : n = Chunk(read_off)
    OBVIOUS
  <2>9. CASE to_reap = 1
    <3>1. PICK res \in Results : /\ HasWritten(read_off + n, res) /\ transfers = {}
                                 /\ completed = << >> \o <<WriteCqe(res)>>
      BY <2>3, <2>4, <2>8, <2>9 DEF PairInv, WriteAfter
    <3>2. c = WriteCqe(res) /\ completed' = << >>
      BY <2>2, <2>4, <3>1, ShortLists
    <3>3. res # -1
      BY <2>2, <3>2, <1>n DEF WriteCqe, Results
    <3>4. BetweenBlocks'
      BY <2>1, <2>6, <2>8, <2>9, <3>1, <3>2, <3>3
         DEF BetweenBlocks, Quiet, HasWritten, CopiedTo, GoodCopy, Pipelined
    <3> QED
      BY <2>1, <2>7, <3>4 DEF CopyInv
  <2>10. CASE to_reap = 2
    <3>0. to_reap' = 1 /\ read_off' = read_off /\ turn' = "pair" /\ Chunk(read_off)' = n
      BY <2>1, <2>5, <2>8, <2>10
    <3>1. ASSUME WriteAfter(n, << >>)' PROVE CopyInv'
      <4>1. PairInv'
        BY <2>1, <2>6, <3>0, <3>1 DEF PairInv
      <4> QED
        BY <2>1, <2>7, <4>1 DEF CopyInv
    <3>2. \/ \E res \in Results : transfers = {} /\ completed = <<ReadCqe(res), WriteCqe(-1)>>
          \/ WriteAfter(n, <<ReadCqe(n)>>)
      BY <2>3, <2>4, <2>8, <2>10 DEF PairInv
    <3>3. ASSUME NEW res, transfers = {}, completed = <<ReadCqe(n), WriteCqe(res)>>,
                 res \in Results, HasWritten(read_off + n, res)
          PROVE  CopyInv'
      <4>1. completed' = <<WriteCqe(res)>> /\ completed' = << >> \o <<WriteCqe(res)>>
        BY <2>2, <3>3, ShortLists
      <4>2. HasWritten(read_off + n, res)'
        BY <2>1, <3>0, <3>3 DEF HasWritten, CopiedTo, GoodCopy
      <4>3. WriteAfter(n, << >>)'
        BY <2>1, <3>0, <3>3, <4>1, <4>2 DEF WriteAfter, Results, HasWritten, CopiedTo
      <4> QED
        BY <3>1, <4>3
    <3>4. ASSUME NEW res \in Results, transfers = {}, completed = <<ReadCqe(res), WriteCqe(-1)>>
          PROVE  CopyInv'
      <4>1. completed' = <<WriteCqe(-1)>> /\ completed' = << >> \o <<WriteCqe(-1)>>
        BY <2>2, <3>4, ShortLists
      <4>2. -1 \in Results
        BY <1>n DEF Results
      <4>3. WriteAfter(n, << >>)'
        BY <2>1, <3>0, <3>4, <4>1, <4>2 DEF WriteAfter, Results, HasWritten
      <4> QED
        BY <3>1, <4>3
    <3>5. ASSUME transfers = {WriteOp(0, n, read_off)}, completed = <<ReadCqe(n)>>,
                 CopiedTo(read_off), Holds(0, read_off, n)
          PROVE  CopyInv'
      <4>1. completed' = << >>
        BY <2>2, <3>5, ShortLists
      <4>2. CopiedTo(read_off)' /\ Holds(0, read_off, n)'
        BY <2>1, <3>0, <3>5 DEF CopiedTo, GoodCopy, Holds
      <4>3. WriteAfter(n, << >>)'
        BY <2>1, <3>0, <3>5, <4>1, <4>2 DEF WriteAfter, WriteOp
      <4> QED
        BY <3>1, <4>3
    <3>6. ASSUME WriteAfter(n, <<ReadCqe(n)>>) PROVE CopyInv'
      <4>1. ASSUME NEW res \in Results, HasWritten(read_off + n, res), transfers = {},
                   completed = <<ReadCqe(n)>> \o <<WriteCqe(res)>>
            PROVE  CopyInv'
        BY <3>3, <4>1, ShortLists
      <4> QED
        BY <3>5, <3>6, <4>1 DEF WriteAfter
    <3> QED
      BY <3>2, <3>4, <3>6
  <2> QED
    BY <2>6, <2>9, <2>10
<1> QED
  BY <1>1, <1>2

\* The first completion of a round: whose it is, and what is left without it.
LEMMA FlowReap ==
  ASSUME NEW rs \in Stages, NEW ws \in Stages, NEW rd, NEW wr, NEW rres, NEW wres,
         Flow(rs, ws, rd, wr, ReadCqe(rres), WriteCqe(wres)), completed # << >>,
         transfers' = transfers, completed' = Tail(completed), to_reap' = to_reap - 1
  PROVE  \/ /\ rs = "done" /\ Head(completed) = ReadCqe(rres)
            /\ Flow("none", ws, rd, wr, ReadCqe(rres), WriteCqe(wres))'
         \/ /\ ws = "done" /\ Head(completed) = WriteCqe(wres)
            /\ Flow(rs, "none", rd, wr, ReadCqe(rres), WriteCqe(wres))'
<1>1. PICK r, w : r = ReadCqe(rres) /\ w = WriteCqe(wres)
  OBVIOUS
<1>0. 0 + 1 = 1 /\ 1 + 0 = 1
  OBVIOUS
<1>2. CASE rs = "done" /\ ws = "done"
  <2>1. completed = <<r, w>> \/ completed = <<w, r>>
    BY <1>1, <1>2 DEF Flow
  <2>2. transfers' = {} /\ to_reap' = 1
    <3>1. transfers = {} /\ to_reap = 2
      BY <1>2 DEF Flow
    <3> QED
      BY <3>1
  <2>3. CASE completed = <<r, w>>
    <3>1. Head(completed) = r /\ completed' = <<w>>
      BY <2>3, ShortLists
    <3>2. completed' \in {<<w>>} /\ to_reap' = 0 + 1 /\ transfers' = {} \cup {}
      <4>1. completed' \in {<<w>>}
        BY <3>1, Zenon
      <4>2. to_reap' = 0 + 1
        BY <1>0, <2>2, Zenon
      <4>3. transfers' = {} \cup {}
        BY <2>2, Zenon
      <4> QED
        BY <4>1, <4>2, <4>3, Zenon
    <3>3. Flow("none", ws, rd, wr, r, w)'
      BY <1>2, <3>2, Zenon DEF Flow
    <3> QED
      BY <1>1, <1>2, <3>1, <3>3
  <2>4. CASE completed = <<w, r>>
    <3>1. Head(completed) = w /\ completed' = <<r>>
      BY <2>4, ShortLists
    <3>2. completed' \in {<<r>>} /\ to_reap' = 1 + 0 /\ transfers' = {} \cup {}
      <4>1. completed' \in {<<r>>}
        BY <3>1, Zenon
      <4>2. to_reap' = 1 + 0
        BY <1>0, <2>2, Zenon
      <4>3. transfers' = {} \cup {}
        BY <2>2, Zenon
      <4> QED
        BY <4>1, <4>2, <4>3, Zenon
    <3>3. Flow(rs, "none", rd, wr, r, w)'
      BY <1>2, <3>2, Zenon DEF Flow
    <3> QED
      BY <1>1, <1>2, <3>1, <3>3
  <2> QED
    BY <2>1, <2>3, <2>4
<1>3. CASE rs = "done" /\ ws # "done"
  <2>1. completed = <<r>>
    BY <1>1, <1>3 DEF Flow
  <2>2. Head(completed) = r /\ completed' = << >>
    BY <2>1, ShortLists
  <2>3. to_reap = 1 + (IF ws = "none" THEN 0 ELSE 1) /\ transfers = (IF ws = "under" THEN {wr} ELSE {})
    BY <1>3 DEF Flow
  <2>4. Flow("none", ws, rd, wr, r, w)'
    BY <1>3, <2>2, <2>3 DEF Flow
  <2> QED
    BY <1>1, <1>3, <2>2, <2>4
<1>4. CASE rs # "done" /\ ws = "done"
  <2>1. completed = <<w>>
    BY <1>1, <1>4 DEF Flow
  <2>2. Head(completed) = w /\ completed' = << >>
    BY <2>1, ShortLists
  <2>3. to_reap = 1 + (IF rs = "none" THEN 0 ELSE 1) /\ transfers = (IF rs = "under" THEN {rd} ELSE {})
    BY <1>4 DEF Flow
  <2>4. Flow(rs, "none", rd, wr, r, w)'
    BY <1>4, <2>2, <2>3 DEF Flow
  <2> QED
    BY <1>1, <1>4, <2>2, <2>4
<1> QED
  BY <1>2, <1>3, <1>4 DEF Flow

\* A transfer of a round completes.
LEMMA FlowCompletes ==
  ASSUME NEW rs \in Stages, NEW ws \in Stages, NEW rd, NEW wr, NEW r, NEW w, rd # wr,
         Flow(rs, ws, rd, wr, r, w), to_reap' = to_reap
  PROVE  \A q : /\ rs = "under" /\ transfers' = transfers \ {rd} /\ completed' = Append(completed, q)
                   => Flow("done", ws, rd, wr, q, w)'
                /\ ws = "under" /\ transfers' = transfers \ {wr} /\ completed' = Append(completed, q)
                   => Flow(rs, "done", rd, wr, r, q)'
<1>1. ASSUME rs = "under", NEW q, transfers' = transfers \ {rd}, completed' = Append(completed, q)
      PROVE  Flow("done", ws, rd, wr, q, w)'
  <2>1. transfers' = (IF ws = "under" THEN {wr} ELSE {}) /\ to_reap = 1 + (IF ws = "none" THEN 0 ELSE 1)
    BY <1>1 DEF Flow
  <2>2. CASE ws = "done"
    <3>1. completed' = <<w, q>>
      BY <1>1, <2>2, ShortLists, ZenonT(40) DEF Flow
    <3> QED
      BY <2>1, <2>2, <3>1 DEF Flow
  <2>3. CASE ws # "done"
    <3>1. completed' = <<q>>
      BY <1>1, <2>3, ShortLists DEF Flow
    <3> QED
      BY <2>1, <2>3, <3>1 DEF Flow
  <2> QED
    BY <2>2, <2>3
<1>2. ASSUME ws = "under", NEW q, transfers' = transfers \ {wr}, completed' = Append(completed, q)
      PROVE  Flow(rs, "done", rd, wr, r, q)'
  <2>1. transfers' = (IF rs = "under" THEN {rd} ELSE {}) /\ to_reap = 1 + (IF rs = "none" THEN 0 ELSE 1)
    BY <1>2 DEF Flow
  <2>2. CASE rs = "done"
    <3>1. completed' = <<r, q>>
      BY <1>2, <2>2, ShortLists, ZenonT(40) DEF Flow
    <3> QED
      BY <2>1, <2>2, <3>1 DEF Flow
  <2>3. CASE rs # "done"
    <3>1. completed' = <<q>>
      BY <1>2, <2>3, ShortLists DEF Flow
    <3> QED
      BY <2>1, <2>3, <3>1 DEF Flow
  <2> QED
    BY <2>2, <2>3
<1> QED
  BY <1>1, <1>2

\* The steps of 05 and 06.
LEMMA NextRounds ==
  ASSUME CopyInv, FirstRead \/ ReapRound \/ NextRound \/ DrainLast
  PROVE  CopyInv'
<1>0. CopyTypes
  BY DEF CopyInv
<1>n. /\ BlockSize \in Nat /\ BlockSize > 0 /\ file_size \in Nat
      /\ read_off \in 0 .. file_size /\ write_off \in 0 .. file_size
      /\ cur \in 0 .. 1 /\ 1 - cur \in 0 .. 1 /\ 1 - (1 - cur) = cur
      /\ bytes_read \in 0 .. BlockSize /\ to_reap \in 0 .. 2
  BY <1>0, CopyNumbers
<1>m. 0 \in Results /\ 0 \in 0 .. file_size /\ 0 \in 0 .. BlockSize
  BY <1>n DEF Results
<1>1. CASE FirstRead
  <2>1. /\ turn = "first" /\ copy_exit = "none" /\ turn' = "reap"
        /\ transfers' = transfers \cup {ReadOp(cur, Chunk(0), 0)}
        /\ read_off' = Chunk(0) /\ to_reap' = 1
        /\ UNCHANGED <<copier, file_size, copy_exit, write_off, cur, bytes_read,
                       bufs, dst, completed, short_read, short_write>>
    BY <1>1 DEF FirstRead, CopyAt, Submit, Proceed
  <2>2. BeforeFirst /\ copier \in Pipelined
    BY <2>1, CopyPlaces DEF BeforeFirst
  <2>3. /\ transfers = {} /\ completed = << >> /\ dst = << >> /\ read_off = 0 /\ write_off = 0
        /\ cur = 0 /\ bytes_read = 0
    BY <2>2 DEF BeforeFirst, Quiet
  <2>4. Chunk(0) \in 0 .. file_size /\ Chunk(0)' = Chunk(0)
    BY <1>0, <1>m, <2>1, ChunkFacts DEF Chunk
  <2>5. CopyTypes'
    BY <1>0, <1>n, <2>1, <2>4, StepTypes
  <2>6. RoundRead("under", 0, 0)'
    BY <1>n, <2>1, <2>3, <2>4 DEF RoundRead
  <2>7. RoundWrite("none", 0, 0)'
    <3>1. << >> = SourceBytes(0, 0)
      BY DEF SourceBytes
    <3> QED
      BY <2>1, <2>3, <3>1 DEF RoundWrite, HasWritten, CopiedTo
  <2>8. Flow("under", "none", ReadOp(cur, Chunk(0), 0), WriteOp(1 - cur, 0, write_off - 0),
             ReadCqe(0), WriteCqe(0))'
    BY <2>1, <2>3, <2>4 DEF Flow, ReadOp
  <2>9. RoundInv'
    <3>1. "under" \in Stages /\ "none" \in Stages /\ 0 \in 0 .. file_size'
      BY <1>m, <2>1 DEF Stages
    <3> QED
      BY <1>m, <2>1, <2>2, <2>6, <2>7, <2>8, <3>1 DEF RoundInv, Results
  <2> QED
    BY <2>1, <2>5, <2>9 DEF CopyInv
<1>2. CASE ReapRound
  <2>1. /\ turn = "reap" /\ copy_exit = "none" /\ turn' = "reap" /\ to_reap > 0
        /\ to_reap' = to_reap - 1
        /\ UNCHANGED <<copier, file_size, copy_exit, read_off, write_off, cur,
                       bufs, dst, transfers, short_read, short_write>>
    BY <1>2 DEF ReapRound, CopyAt, Reap, Proceed
  <2>2. PICK c \in Arrived : /\ c.res >= 0 /\ completed' = Tail(completed)
                             /\ bytes_read' = IF c.op = "read" THEN c.res ELSE bytes_read
    BY <1>2 DEF ReapRound, Reap
  <2>3. RoundInv
    BY <2>1, CopyPlaces
  <2>4. completed # << >> /\ c = Head(completed)
    BY <2>2, ArrivedFacts
  <2>5. PICK rs \in Stages, ws \in Stages, ro \in 0 .. file_size, wl \in 0 .. BlockSize,
             rres \in Results, wres \in Results :
          /\ RoundRead(rs, ro, rres) /\ RoundWrite(ws, wl, wres)
          /\ Flow(rs, ws, ReadOp(cur, Chunk(ro), ro), WriteOp(1 - cur, wl, write_off - wl),
                  ReadCqe(rres), WriteCqe(wres))
    BY <2>3 DEF RoundInv
  <2>6. PICK rd, wr : /\ rd = ReadOp(cur, Chunk(ro), ro)
                      /\ wr = WriteOp(1 - cur, wl, write_off - wl)
    OBVIOUS
  <2>7. ReadOp(cur, Chunk(ro), ro)' = rd /\ WriteOp(1 - cur, wl, write_off - wl)' = wr
    BY <2>1, <2>6 DEF ReadOp, WriteOp, Chunk
  <2>8. ASSUME NEW r \in Stages, NEW w \in Stages, RoundRead(r, ro, rres)', RoundWrite(w, wl, wres)',
               Flow(r, w, rd, wr, ReadCqe(rres), WriteCqe(wres))', bytes_read' \in 0 .. BlockSize
        PROVE  CopyInv'
    <3>1. RoundInv'
      BY <2>1, <2>3, <2>7, <2>8 DEF RoundInv, Results, ReadCqe, WriteCqe
    <3>2. to_reap' \in 0 .. 2
      BY <1>n, <2>1
    <3>3. CopyTypes'
      BY <1>0, <1>n, <2>1, <2>8, <3>2, StepTypes
    <3> QED
      BY <2>1, <3>1, <3>3 DEF CopyInv
  <2>9. CASE /\ rs = "done" /\ c = ReadCqe(rres)
             /\ Flow("none", ws, rd, wr, ReadCqe(rres), WriteCqe(wres))'
    <3>1. c.op = "read" /\ c.res = rres
      BY <2>9 DEF ReadCqe
    <3>2. bytes_read' = rres /\ rres # -1
      BY <2>2, <3>1
    <3>3. HasRead(cur, Chunk(ro), ro, rres)
      BY <2>5, <2>9 DEF RoundRead
    <3>4. Chunk(ro) \in 0 .. BlockSize
      BY <1>0, ChunkFacts
    <3>5. rres \in 0 .. BlockSize
      BY <1>n, <3>2, <3>3, <3>4 DEF HasRead
    <3>6. RoundRead("none", ro, rres)'
      BY <2>1, <2>5, <3>2, <3>3 DEF RoundRead, HasRead, Holds, Chunk, GoodCopy
    <3>7. RoundWrite(ws, wl, wres)'
      BY <2>1, <2>5 DEF RoundWrite, HasWritten, CopiedTo, GoodCopy, Holds
    <3>8. "none" \in Stages
      BY DEF Stages
    <3> QED
      BY <2>8, <2>9, <3>2, <3>5, <3>6, <3>7, <3>8
  <2>10. CASE /\ ws = "done" /\ c = WriteCqe(wres)
              /\ Flow(rs, "none", rd, wr, ReadCqe(rres), WriteCqe(wres))'
    <3>1. c.op = "write" /\ c.res = wres
      BY <2>10 DEF WriteCqe
    <3>2. bytes_read' = bytes_read /\ wres # -1
      BY <2>2, <3>1
    <3>3. RoundRead(rs, ro, rres)'
      BY <2>1, <2>5, <3>2 DEF RoundRead, HasRead, Holds, Chunk, GoodCopy
    <3>4. RoundWrite("none", wl, wres)'
      BY <2>1, <2>5, <2>10, <3>2 DEF RoundWrite, HasWritten, CopiedTo, GoodCopy
    <3>5. "none" \in Stages
      BY DEF Stages
    <3> QED
      BY <1>n, <2>8, <2>10, <3>2, <3>3, <3>4, <3>5
  <2> QED
    <3>1. Flow(rs, ws, rd, wr, ReadCqe(rres), WriteCqe(wres))
      BY <2>5, <2>6
    <3> QED
      BY <2>1, <2>2, <2>4, <2>9, <2>10, <3>1, FlowReap
<1>3. CASE NextRound
  <2>1. /\ turn = "reap" /\ copy_exit = "none" /\ to_reap = 0
        /\ UNCHANGED <<copier, file_size, bufs, dst, completed, short_read, short_write>>
    BY <1>3 DEF NextRound, CopyAt, CopyEnds, Proceed, Submit, kernel
  <2>2. RoundInv
    BY <2>1, CopyPlaces
  <2>3. PICK rs \in Stages, ws \in Stages, ro \in 0 .. file_size, wl \in 0 .. BlockSize,
             rres \in Results, wres \in Results :
          /\ RoundRead(rs, ro, rres) /\ RoundWrite(ws, wl, wres)
          /\ Flow(rs, ws, ReadOp(cur, Chunk(ro), ro), WriteOp(1 - cur, wl, write_off - wl),
                  ReadCqe(rres), WriteCqe(wres))
    BY <2>2 DEF RoundInv
  <2>4. rs = "none" /\ ws = "none"
    BY <2>1, <2>3 DEF Flow
  <2>5. transfers = {} /\ completed = << >>
    BY <2>3, <2>4 DEF Flow
  <2>6. PICK n : n = Chunk(ro)
    OBVIOUS
  <2>7. /\ ro < file_size \/ file_size = 0
        /\ read_off = ro + n /\ write_off <= ro /\ (GoodCopy => write_off = ro)
        /\ HasRead(cur, n, ro, rres) /\ rres # -1 /\ bytes_read = rres
        /\ CopiedTo(write_off)
    BY <2>3, <2>4, <2>6 DEF RoundRead, RoundWrite, HasWritten
  <2>8. /\ n \in 0 .. BlockSize /\ ro + n <= file_size /\ ro \in Nat /\ ro <= file_size
        /\ ro < file_size => n > 0
    BY <1>0, <2>6, ChunkFacts, <1>n
  <2>9. /\ bytes_read \in 0 .. n /\ Holds(cur, ro, bytes_read)
        /\ bytes_read = 0 => ro = file_size
        /\ bytes_read < n /\ ro + bytes_read < file_size => short_read
    BY <2>7 DEF HasRead
  <2>10. copier \in Pipelined
    BY <2>2 DEF RoundInv
  <2>11. CASE bytes_read = 0
    <3>1. copy_exit' = "0" /\ turn' = turn /\ UNCHANGED <<position, transfers>>
      BY <1>3, <2>11 DEF NextRound, CopyEnds, kernel
    <3>2. write_off = file_size
      BY <1>n, <2>7, <2>8, <2>9, <2>11
    <3>3. CopyTypes'
      BY <1>0, <1>n, <2>1, <3>1, StepTypes DEF position
    <3>4. Quiet' /\ CopiedTo(file_size)'
      BY <2>1, <2>5, <2>7, <3>1, <3>2 DEF Quiet, CopiedTo, GoodCopy
    <3> QED
      BY <3>1, <3>3, <3>4 DEF CopyInv
  <2>12. CASE bytes_read # 0
    <3>1. /\ cur' = 1 - cur /\ write_off' = write_off + bytes_read /\ bytes_read' = 0
          /\ read_off' = IF ReadDone THEN read_off ELSE read_off + Chunk(read_off)
          /\ to_reap' = IF ReadDone THEN 1 ELSE 2
          /\ turn' = (IF ReadDone THEN "drain" ELSE "reap") /\ copy_exit' = "none"
          /\ transfers' = {WriteOp(cur, bytes_read, write_off)}
               \cup {ReadOp(1 - cur, Chunk(off), off) : off \in {read_off} \cap 0 .. file_size - 1}
      BY <1>3, <2>1, <2>5, <2>12 DEF NextRound, OtherBuffer, Submit, Proceed
    <3>2. /\ bytes_read \in 1 .. BlockSize /\ write_off + bytes_read \in 0 .. read_off
          /\ write_off + bytes_read - bytes_read = write_off
      BY <1>n, <2>7, <2>8, <2>9, <2>12
    <3>3. GoodCopy => bytes_read = n
      <4>1. GoodCopy => ~short_read
        BY <2>10 DEF GoodCopy
      <4>2. bytes_read < n => ro + bytes_read < file_size
        BY <1>n, <2>8, <2>9
      <4>3. GoodCopy => ~(bytes_read < n)
        BY <2>9, <4>1, <4>2, Zenon
      <4> QED
        BY <1>n, <2>8, <2>9, <4>3
    <3>4. GoodCopy => write_off + bytes_read = read_off
      BY <2>7, <3>3
    <3>5. GoodCopy' = GoodCopy
      BY <2>1 DEF GoodCopy
    <3>7. Chunk(read_off) \in 0 .. BlockSize /\ read_off + Chunk(read_off) \in 0 .. file_size
      BY <1>0, <1>n, ChunkFacts
    <3>8. /\ read_off' \in 0 .. file_size /\ write_off' \in 0 .. file_size /\ to_reap' \in 0 .. 2
          /\ turn' \in {"drain", "reap"} /\ cur' \in 0 .. 1 /\ bytes_read' \in 0 .. BlockSize
      BY <1>n, <3>1, <3>2, <3>7
    <3>9. CopyTypes'
      BY <1>0, <1>n, <2>1, <3>1, <3>8, StepTypes
    <3>10. PICK m : m = bytes_read
      OBVIOUS
    <3>11. RoundWrite("under", m, 0)'
      <4>1. write_off' = write_off + m /\ write_off' - m = write_off
        BY <1>n, <3>1, <3>2, <3>10
      <4>2. m > 0 /\ m <= write_off'
        BY <1>n, <3>2, <3>10, <4>1
      <4>3. CopiedTo(write_off - m)'
        BY <2>1, <2>7, <4>1 DEF CopiedTo, GoodCopy
      <4>4. 1 - cur' = cur
        BY <1>n, <3>1
      <4>5. GoodCopy' => Holds(1 - cur, write_off - m, m)'
        BY <2>1, <2>7, <2>9, <3>5, <3>10, <4>1, <4>4 DEF Holds
      <4> QED
        BY <4>2, <4>3, <4>5 DEF RoundWrite
    <3>12. /\ WriteOp(1 - cur, m, write_off - m)' = WriteOp(cur, bytes_read, write_off)
           /\ completed' = << >> /\ m \in 0 .. BlockSize /\ 0 \in Results
      BY <1>n, <1>m, <2>1, <2>5, <3>1, <3>2, <3>10 DEF WriteOp
    <3>13. CASE ReadDone
      <4>1. transfers' = {WriteOp(cur, bytes_read, write_off)} /\ to_reap' = 1 /\ turn' = "drain"
        BY <1>n, <3>1, <3>13 DEF ReadDone
      <4>2. read_off = file_size
        BY <1>n, <3>13 DEF ReadDone
      <4>3. GoodCopy' => write_off' = file_size'
        BY <2>1, <3>1, <3>4, <3>5, <4>2
      <4>4. Flow("none", "under", 0, WriteOp(1 - cur, m, write_off - m), 0, WriteCqe(0))'
        BY <3>12, <4>1 DEF Flow
      <4>5. DrainInv'
        BY <2>1, <2>10, <3>11, <3>12, <4>1, <4>3, <4>4 DEF DrainInv, Results
      <4> QED
        BY <3>1, <3>9, <4>5 DEF CopyInv
    <3>14. CASE ~ReadDone
      <4>1. read_off < file_size /\ read_off \in 0 .. file_size - 1
        BY <1>n, <3>14 DEF ReadDone
      <4>2. /\ to_reap' = 2 /\ turn' = "reap" /\ read_off' = read_off + Chunk(read_off)
            /\ transfers' = {WriteOp(cur, bytes_read, write_off), ReadOp(1 - cur, Chunk(read_off), read_off)}
        BY <3>1, <3>14, <4>1
      <4>3. PICK o : o = read_off
        OBVIOUS
      <4>4. Chunk(o)' = Chunk(o) /\ ReadOp(cur, Chunk(o), o)' = ReadOp(1 - cur, Chunk(read_off), read_off)
        BY <2>1, <3>1, <4>3 DEF Chunk, ReadOp
      <4>5. RoundRead("under", o, 0)'
        BY <1>n, <2>1, <3>1, <3>2, <3>4, <3>5, <4>1, <4>2, <4>3, <4>4 DEF RoundRead
      <4>6. Flow("under", "under", ReadOp(cur, Chunk(o), o), WriteOp(1 - cur, m, write_off - m),
                 ReadCqe(0), WriteCqe(0))'
        BY <3>12, <4>2, <4>4 DEF Flow
      <4>7. "under" \in Stages /\ o \in 0 .. file_size'
        BY <1>n, <2>1, <4>3 DEF Stages
      <4>8. RoundInv'
        BY <2>10, <2>1, <3>11, <3>12, <4>2, <4>5, <4>6, <4>7 DEF RoundInv, Results
      <4> QED
        BY <3>1, <3>9, <4>8 DEF CopyInv
    <3> QED
      BY <3>13, <3>14
  <2> QED
    BY <2>11, <2>12
<1>4. CASE DrainLast
  <2>1. /\ turn = "drain" /\ copy_exit = "none" /\ copy_exit' = "0"
        /\ UNCHANGED <<copier, file_size, turn, position, bufs, dst, transfers, short_read, short_write>>
    BY <1>4 DEF DrainLast, CopyAt, CopyEnds, Reap
  <2>2. PICK c \in Arrived : c.res >= 0 /\ completed' = Tail(completed)
    BY <1>4 DEF DrainLast, Reap
  <2>3. DrainInv
    BY <2>1, CopyPlaces
  <2>4. completed # << >> /\ c = Head(completed)
    BY <2>2, ArrivedFacts
  <2>5. PICK ws \in {"under", "done"}, wl \in 0 .. BlockSize, wres \in Results :
          /\ RoundWrite(ws, wl, wres)
          /\ Flow("none", ws, 0, WriteOp(1 - cur, wl, write_off - wl), 0, WriteCqe(wres))
    BY <2>3 DEF DrainInv
  <2>6. ws = "done" /\ completed = <<WriteCqe(wres)>> /\ transfers = {}
    BY <2>4, <2>5 DEF Flow
  <2>7. c = WriteCqe(wres) /\ completed' = << >>
    BY <2>2, <2>4, <2>6, ShortLists
  <2>8. wres # -1
    BY <2>2, <2>7, <1>n DEF WriteCqe, Results
  <2>9. CopiedTo(write_off) /\ (GoodCopy => write_off = file_size)
    BY <2>3, <2>5, <2>6, <2>8 DEF RoundWrite, HasWritten, DrainInv
  <2>10. Quiet' /\ CopiedTo(file_size)'
    BY <2>1, <2>6, <2>7, <2>9 DEF Quiet, CopiedTo, GoodCopy
  <2>11. CopyTypes'
    BY <1>0, <1>n, <2>1, StepTypes DEF position
  <2> QED
    BY <2>1, <2>10, <2>11 DEF CopyInv
<1> QED
  BY <1>1, <1>2, <1>3, <1>4

\* The types after a step of the kernel.
LEMMA TransferTypes ==
  ASSUME CopyTypes, UNCHANGED <<copier, file_size, turn, position, copy_exit>>,
         bufs' \in [0 .. 1 -> [1 .. BlockSize -> 0 .. MaxFileSize]],
         short_read' \in BOOLEAN, short_write' \in BOOLEAN
  PROVE  CopyTypes'
BY DEF CopyTypes, CopyTypeOK, position

\* The flag of a write that another starts.
LEMMA LinkField ==
  ASSUME NEW b, NEW n, NEW off, NEW s, NEW t, NEW x,
         x = [op |-> "write", buf |-> b, len |-> n, off |-> off, linked |-> s]
  PROVE  [x EXCEPT !.linked = t] = [op |-> "write", buf |-> b, len |-> n, off |-> off, linked |-> t]
OBVIOUS

\* A read or a write of 03, or one of the pair of 04.
LEMMA TransferOfBlock ==
  ASSUME CopyInv, CompleteTransfer, BlockRead \/ BlockWrite \/ PairInv
  PROVE  CopyInv'
<1>0. CopyTypes
  BY DEF CopyInv
<1>n. /\ BlockSize \in Nat /\ BlockSize > 0 /\ file_size \in Nat /\ read_off \in 0 .. file_size
      /\ 0 \in 0 .. 1 /\ read_off \in Nat
  BY <1>0, CopyNumbers
<1>1. /\ copy_exit = "none" /\ UNCHANGED <<copier, file_size, turn, position, copy_exit>>
      /\ read_off' = read_off /\ bytes_read' = bytes_read /\ to_reap' = to_reap
  BY DEF CompleteTransfer, position
<1>2. PICK o \in transfers : IF o.op = "read" THEN CompleteRead(o) ELSE CompleteWrite(o)
  BY DEF CompleteTransfer
<1>c. Chunk(read_off)' = Chunk(read_off)
  BY <1>1 DEF Chunk
<1>g. copier \notin Pipelined => (GoodCopy <=> ~short_write)
  BY DEF GoodCopy
\* A write of n bytes, after the completions there are.
<1>w. ASSUME NEW n \in 1 .. BlockSize, NEW base, WriteAfter(n, base),
             base = << >> \/ \E x : base = <<x>>
      PROVE  WriteAfter(n, base)' /\ CopyTypes'
  <2>1. /\ transfers = {WriteOp(0, n, read_off)} /\ completed = base
        /\ CopiedTo(read_off) /\ Holds(0, read_off, n)
    BY <1>2, <1>w DEF WriteAfter
  <2>2. o = WriteOp(0, n, read_off) /\ o.op = "write"
    BY <1>2, <2>1 DEF WriteOp
  <2>3. CompleteWrite(o)
    BY <1>2, <2>2
  <2>4. PICK res \in Results :
           /\ HasWritten(read_off + n, res)'
           /\ short_write' \in BOOLEAN /\ (short_write => short_write') /\ UNCHANGED <<bufs, short_read>>
           /\ transfers' = transfers \ {o} /\ completed' = Append(completed, WriteCqe(res))
    BY <1>0, <1>1, <1>n, <2>1, <2>2, <2>3, WriteCompletes
  <2>5. transfers' = {} /\ completed' = base \o <<WriteCqe(res)>>
    <3>1. transfers' = {}
      BY <2>1, <2>2, <2>4
    <3>2. completed' = Append(base, WriteCqe(res))
      BY <2>1, <2>4
    <3> QED
      BY <1>w, <3>1, <3>2, ShortLists
  <2>6. WriteAfter(n, base)'
    BY <1>1, <2>4, <2>5 DEF WriteAfter, Results, WriteCqe
  <2>7. CopyTypes'
    BY <1>0, <1>1, <2>4, TransferTypes DEF CopyTypes
  <2> QED
    BY <2>6, <2>7
<1>3. CASE BlockWrite
  <2>1. WriteAfter(bytes_read, << >>) /\ bytes_read \in 1 .. BlockSize
    BY <1>3 DEF BlockWrite
  <2>2. PICK n : n = bytes_read
    OBVIOUS
  <2>3. WriteAfter(n, << >>)' /\ CopyTypes'
    BY <1>w, <2>1, <2>2
  <2>4. BlockWrite'
    BY <1>1, <1>3, <2>2, <2>3 DEF BlockWrite
  <2> QED
    BY <1>1, <2>3, <2>4 DEF CopyInv
<1>4. CASE BlockRead
  <2>1. /\ transfers = {ReadOp(0, BlockSize, read_off)} /\ completed = << >>
        /\ CopiedTo(read_off) /\ turn = "got" /\ copier = "file_copy"
    BY <1>2, <1>4 DEF BlockRead
  <2>2. o = ReadOp(0, BlockSize, read_off) /\ o.op = "read" /\ o.linked = FALSE
    BY <1>2, <2>1 DEF ReadOp
  <2>3. CompleteRead(o) /\ Linked = {}
    BY <1>2, <2>1, <2>2 DEF Linked
  <2>4. PICK res \in Results :
           /\ HasRead(0, BlockSize, read_off, res)'
           /\ bufs' \in [0 .. 1 -> [1 .. BlockSize -> 0 .. MaxFileSize]] /\ bufs'[1 - 0] = bufs[1 - 0]
           /\ short_read' \in BOOLEAN /\ (short_read => short_read') /\ UNCHANGED <<dst, short_write>>
           /\ AfterRead(o, BlockSize, res)
    <3>1. BlockSize \in 0 .. BlockSize
      BY <1>n
    <3> QED
      BY <1>0, <1>1, <1>n, <2>2, <2>3, <3>1, ReadCompletes
  <2>5. transfers' = {}
    BY <2>1, <2>2, <2>3, <2>4 DEF AfterRead
  <2>6. completed' = <<ReadCqe(res)>>
    <3>1. Append(completed, ReadCqe(res)) = <<ReadCqe(res)>>
      BY <2>1, ShortLists
    <3>2. <<ReadCqe(res)>> \o << >> = <<ReadCqe(res)>>
      OBVIOUS
    <3> QED
      BY <2>3, <2>4, <3>1, <3>2 DEF AfterRead
  <2>7. CopiedTo(read_off)'
    BY <1>1, <2>1, <2>4 DEF CopiedTo, GoodCopy, Pipelined
  <2>8. BlockRead'
    BY <1>1, <2>1, <2>4, <2>5, <2>6, <2>7 DEF BlockRead, Results, ReadCqe
  <2>9. CopyTypes'
    BY <1>0, <1>1, <2>4, TransferTypes DEF CopyTypes
  <2> QED
    BY <1>1, <2>8, <2>9 DEF CopyInv
<1>5. CASE PairInv
  <2>1. PICK n : n = Chunk(read_off)
    OBVIOUS
  <2>2. n \in 1 .. BlockSize /\ copier = "linked_copy" /\ turn = "pair" /\ read_off < file_size
    <3>1. read_off < file_size /\ copier = "linked_copy" /\ turn = "pair"
      BY <1>5 DEF PairInv
    <3>2. Chunk(read_off) \in 0 .. BlockSize /\ Chunk(read_off) > 0
      BY <1>0, <1>n, <3>1, ChunkFacts
    <3> QED
      BY <1>n, <2>1, <3>1, <3>2
  <2>3. ASSUME NEW base, WriteAfter(n, base),
               \/ base = << >> /\ to_reap = 1
               \/ base = <<ReadCqe(n)>> /\ to_reap = 2
        PROVE  CopyInv'
    <3>1. WriteAfter(n, base)' /\ CopyTypes'
      BY <1>w, <2>2, <2>3
    <3>2. PairInv'
      BY <1>1, <1>c, <2>1, <2>2, <2>3, <3>1 DEF PairInv
    <3> QED
      BY <1>1, <3>1, <3>2 DEF CopyInv
  <2>4. \/ to_reap = 2 /\ WriteAfter(n, <<ReadCqe(n)>>)
        \/ to_reap = 1 /\ WriteAfter(n, << >>)
        \/ /\ to_reap = 2 /\ completed = << >> /\ CopiedTo(read_off)
           /\ transfers = {ReadOp(0, n, read_off), [WriteOp(0, n, read_off) EXCEPT !.linked = TRUE]}
    BY <1>2, <1>5, <2>1 DEF PairInv
  <2>5. CASE /\ to_reap = 2 /\ completed = << >> /\ CopiedTo(read_off)
             /\ transfers = {ReadOp(0, n, read_off), [WriteOp(0, n, read_off) EXCEPT !.linked = TRUE]}
    <3>1. PICK r, lw : /\ r = ReadOp(0, n, read_off)
                      /\ lw = [WriteOp(0, n, read_off) EXCEPT !.linked = TRUE]
      OBVIOUS
    <3>2. /\ r.op = "read" /\ r.linked = FALSE /\ lw.op = "write" /\ lw.linked = TRUE
          /\ [lw EXCEPT !.linked = FALSE] = WriteOp(0, n, read_off)
      <4>1. r.op = "read" /\ r.linked = FALSE
        BY <3>1 DEF ReadOp
      <4>2. lw = [op |-> "write", buf |-> 0, len |-> n, off |-> read_off, linked |-> TRUE]
        BY <3>1 DEF WriteOp
      <4>3. [lw EXCEPT !.linked = FALSE]
              = [op |-> "write", buf |-> 0, len |-> n, off |-> read_off, linked |-> FALSE]
        <5>1. PICK s, t : s = TRUE /\ t = FALSE
          OBVIOUS
        <5>2. lw = [op |-> "write", buf |-> 0, len |-> n, off |-> read_off, linked |-> s]
          BY <4>2, <5>1, Zenon
        <5>3. [lw EXCEPT !.linked = t] = [op |-> "write", buf |-> 0, len |-> n, off |-> read_off, linked |-> t]
          BY <5>2, LinkField
        <5> QED
          BY <5>1, <5>3, Zenon
      <4> QED
        BY <4>1, <4>2, <4>3 DEF WriteOp
    <3>e. r # lw
      BY <3>2, Zenon
    <3>3. transfers = {r, lw}
      BY <2>5, <3>1
    <3>4. Linked = {lw}
      BY <3>2, <3>3 DEF Linked
    <3>5. o = r
      BY <1>2, <3>2, <3>3 DEF CompleteWrite
    <3>6. CompleteRead(o)
      BY <1>2, <3>2, <3>5
    <3>7. PICK res \in Results :
           /\ HasRead(0, n, read_off, res)'
           /\ bufs' \in [0 .. 1 -> [1 .. BlockSize -> 0 .. MaxFileSize]] /\ bufs'[1 - 0] = bufs[1 - 0]
           /\ short_read' \in BOOLEAN /\ (short_read => short_read') /\ UNCHANGED <<dst, short_write>>
           /\ AfterRead(o, n, res)
      <4>1. PICK a : a = read_off
        OBVIOUS
      <4>2. /\ o = ReadOp(0, n, a) /\ file_size' = file_size /\ a \in 0 .. file_size
            /\ n \in 0 .. BlockSize /\ n > 0
        BY <1>1, <1>n, <2>2, <3>1, <3>5, <4>1
      <4>3. \E res \in Results :
              /\ HasRead(0, n, a, res)'
              /\ bufs' \in [0 .. 1 -> [1 .. BlockSize -> 0 .. MaxFileSize]] /\ bufs'[1 - 0] = bufs[1 - 0]
              /\ short_read' \in BOOLEAN /\ (short_read => short_read') /\ UNCHANGED <<dst, short_write>>
              /\ AfterRead(o, n, res)
        BY <1>0, <1>n, <3>6, <4>2, ReadCompletes
      <4> QED
        BY <1>1, <4>1, <4>3 DEF Results
    <3>8. CopyTypes'
      BY <1>0, <1>1, <3>7, TransferTypes DEF CopyTypes
    <3>9. Append(completed, ReadCqe(res)) = <<ReadCqe(res)>>
      BY <2>5, ShortLists
    <3>10. CASE res = n
      <4>1. transfers' = {WriteOp(0, n, read_off)}
        <5>1. transfers' = (transfers \ ({o} \cup Linked)) \cup {[x EXCEPT !.linked = FALSE] : x \in Linked}
          BY <3>7, <3>10 DEF AfterRead
        <5> QED
          BY <3>e, <3>2, <3>3, <3>4, <3>5, <5>1
      <4>2. completed' = <<ReadCqe(n)>>
        BY <3>7, <3>9, <3>10 DEF AfterRead
      <4>3. CopiedTo(read_off)'
        BY <1>1, <2>2, <2>5, <3>7 DEF CopiedTo, GoodCopy, Pipelined
      <4>4. Holds(0, read_off, n)'
        BY <2>2, <3>7, <3>10 DEF HasRead
      <4>5. WriteAfter(n, <<ReadCqe(n)>>)'
        BY <1>1, <4>1, <4>2, <4>3, <4>4 DEF WriteAfter, WriteOp, ReadCqe
      <4>6. PairInv'
        BY <1>1, <1>c, <2>1, <2>2, <2>5, <4>5 DEF PairInv, ReadCqe
      <4> QED
        BY <1>1, <3>8, <4>6 DEF CopyInv
    <3>11. CASE res # n
      <4>1. transfers' = {}
        BY <3>3, <3>4, <3>5, <3>7, <3>11 DEF AfterRead
      <4>2. completed' = <<ReadCqe(res), WriteCqe(-1)>>
        BY <3>4, <3>7, <3>9, <3>11, ShortLists DEF AfterRead
      <4>3. PairInv'
        BY <1>1, <2>2, <2>5, <4>1, <4>2 DEF PairInv, ReadCqe, WriteCqe, Results
      <4> QED
        BY <1>1, <3>8, <4>3 DEF CopyInv
    <3> QED
      BY <3>10, <3>11
  <2> QED
    BY <2>3, <2>4, <2>5
<1> QED
  BY <1>3, <1>4, <1>5

\* A read on its own completes.
LEMMA AloneRead ==
  ASSUME NEW o, NEW n, NEW res, Linked = {}, AfterRead(o, n, res)
  PROVE  transfers' = transfers \ {o} /\ completed' = Append(completed, ReadCqe(res))
<1>1. transfers' = transfers \ {o}
  BY DEF AfterRead
<1>2. CASE res = n
  BY <1>1, <1>2 DEF AfterRead
<1>3. CASE res # n
  <2>1. completed' = Append(completed, ReadCqe(res)) \o << >>
    BY <1>3 DEF AfterRead
  <2>2. \A s, x : Append(s, x) \o << >> = Append(s, x)
    OBVIOUS
  <2> QED
    BY <1>1, <2>1, <2>2
<1> QED
  BY <1>2, <1>3

\* A transfer of 05 or 06: the read changes the buffer the write is not from.
LEMMA TransferOfRound ==
  ASSUME CopyInv, CompleteTransfer, RoundInv \/ DrainInv
  PROVE  CopyInv'
<1>0. CopyTypes
  BY DEF CopyInv
<1>n. /\ BlockSize \in Nat /\ BlockSize > 0 /\ file_size \in Nat
      /\ write_off \in 0 .. file_size /\ cur \in 0 .. 1 /\ 1 - cur \in 0 .. 1 /\ 1 - cur # cur
  BY <1>0, CopyNumbers
<1>1. /\ copy_exit = "none" /\ UNCHANGED <<copier, file_size, turn, position, copy_exit>>
      /\ UNCHANGED <<read_off, write_off, cur, bytes_read, to_reap>>
  BY DEF CompleteTransfer, position
<1>2. PICK o \in transfers : IF o.op = "read" THEN CompleteRead(o) ELSE CompleteWrite(o)
  BY DEF CompleteTransfer
<1>p. copier \in Pipelined
  BY DEF RoundInv, DrainInv
<1>w. ASSUME NEW wl \in 0 .. BlockSize, NEW wres, RoundWrite("under", wl, wres),
             o = WriteOp(1 - cur, wl, write_off - wl)
      PROVE  \E res \in Results :
               /\ RoundWrite("done", wl, res)' /\ CopyTypes' /\ (GoodCopy' => GoodCopy)
               /\ UNCHANGED <<bufs, short_read>>
               /\ transfers' = transfers \ {o} /\ completed' = Append(completed, WriteCqe(res))
  <2>1. /\ wl > 0 /\ wl <= write_off /\ CopiedTo(write_off - wl)
        /\ GoodCopy => Holds(1 - cur, write_off - wl, wl)
    BY <1>w DEF RoundWrite
  <2>2. PICK a, b : a = write_off - wl /\ b = 1 - cur
    OBVIOUS
  <2>3. a \in Nat /\ b \in 0 .. 1 /\ wl \in 1 .. BlockSize /\ a + wl = write_off
    BY <1>n, <2>1, <2>2
  <2>4. CompleteWrite(o) /\ o = WriteOp(b, wl, a)
    BY <1>2, <1>w, <2>2 DEF WriteOp
  <2>5. PICK res \in Results :
           /\ HasWritten(a + wl, res)'
           /\ short_write' \in BOOLEAN /\ (short_write => short_write') /\ UNCHANGED <<bufs, short_read>>
           /\ transfers' = transfers \ {o} /\ completed' = Append(completed, WriteCqe(res))
    BY <1>0, <1>1, <2>1, <2>2, <2>3, <2>4, WriteCompletes
  <2>6. HasWritten(write_off, res)'
    BY <1>1, <2>3, <2>5
  <2>7. RoundWrite("done", wl, res)'
    BY <2>6 DEF RoundWrite
  <2>8. GoodCopy' => GoodCopy
    BY <1>1, <2>5 DEF GoodCopy
  <2>9. CopyTypes'
    BY <1>0, <1>1, <2>5, TransferTypes DEF CopyTypes
  <2> QED
    BY <2>5, <2>7, <2>8, <2>9
<1>3. CASE DrainInv
  <2>1. PICK ws \in {"under", "done"}, wl \in 0 .. BlockSize, wres \in Results :
          /\ RoundWrite(ws, wl, wres)
          /\ Flow("none", ws, 0, WriteOp(1 - cur, wl, write_off - wl), 0, WriteCqe(wres))
    BY <1>3 DEF DrainInv
  <2>2. ws = "under" /\ o = WriteOp(1 - cur, wl, write_off - wl)
    BY <1>2, <2>1 DEF Flow
  <2>3. PICK res \in Results :
          /\ RoundWrite("done", wl, res)' /\ CopyTypes' /\ (GoodCopy' => GoodCopy)
          /\ UNCHANGED <<bufs, short_read>>
          /\ transfers' = transfers \ {o} /\ completed' = Append(completed, WriteCqe(res))
    BY <1>w, <2>1, <2>2
  <2>4. transfers' = {} /\ completed' = <<WriteCqe(res)>> /\ to_reap' = 1
    <3>1. transfers = {o} /\ completed = << >> /\ to_reap = 1
      BY <2>1, <2>2 DEF Flow
    <3> QED
      BY <1>1, <2>3, <3>1, ShortLists
  <2>5. PICK wr : wr = WriteOp(1 - cur, wl, write_off - wl)'
    OBVIOUS
  <2>6. Flow("none", "done", 0, wr, 0, WriteCqe(res))'
    BY <2>4 DEF Flow, WriteCqe
  <2>7. DrainInv'
    BY <1>1, <1>3, <2>3, <2>5, <2>6 DEF DrainInv, Results, WriteCqe
  <2> QED
    BY <1>1, <2>3, <2>7 DEF CopyInv
<1>4. CASE RoundInv
  <2>1. PICK rs \in Stages, ws \in Stages, ro \in 0 .. file_size, wl \in 0 .. BlockSize,
             rres \in Results, wres \in Results :
          /\ RoundRead(rs, ro, rres) /\ RoundWrite(ws, wl, wres)
          /\ Flow(rs, ws, ReadOp(cur, Chunk(ro), ro), WriteOp(1 - cur, wl, write_off - wl),
                  ReadCqe(rres), WriteCqe(wres))
    BY <1>4 DEF RoundInv
  <2>2. PICK n, rd, wr : /\ n = Chunk(ro) /\ rd = ReadOp(cur, n, ro)
                         /\ wr = WriteOp(1 - cur, wl, write_off - wl)
    OBVIOUS
  <2>3. /\ Chunk(ro)' = n /\ ReadOp(cur, Chunk(ro), ro)' = rd
        /\ WriteOp(1 - cur, wl, write_off - wl)' = wr
    BY <1>1, <2>2 DEF ReadOp, WriteOp, Chunk
  <2>4. rd # wr /\ rd.op = "read" /\ wr.op = "write" /\ ~rd.linked /\ ~wr.linked
    BY <2>2 DEF ReadOp, WriteOp
  <2>5. Flow(rs, ws, rd, wr, ReadCqe(rres), WriteCqe(wres)) /\ RoundRead(rs, ro, rres)
    BY <2>1, <2>2
  <2>6. transfers \subseteq {rd, wr} /\ Linked = {}
    BY <2>4, <2>5 DEF Flow, Linked
  <2>7. ASSUME NEW r \in Stages, NEW w \in Stages, NEW x \in Results, NEW y \in Results,
               RoundRead(r, ro, x)', RoundWrite(w, wl, y)', CopyTypes',
               Flow(r, w, rd, wr, ReadCqe(x), WriteCqe(y))'
        PROVE  CopyInv'
    <3>1. RoundInv'
      BY <1>1, <1>4, <2>3, <2>7 DEF RoundInv, Results, ReadCqe, WriteCqe
    <3> QED
      BY <1>1, <2>7, <3>1 DEF CopyInv
  <2>d. "done" \in Stages
    BY DEF Stages
  <2>8. CASE o = wr
    <3>1. ws = "under"
      BY <1>2, <2>4, <2>5, <2>8 DEF Flow
    <3>2. PICK res \in Results :
            /\ RoundWrite("done", wl, res)' /\ CopyTypes' /\ (GoodCopy' => GoodCopy)
            /\ UNCHANGED <<bufs, short_read>>
            /\ transfers' = transfers \ {o} /\ completed' = Append(completed, WriteCqe(res))
      BY <1>w, <2>1, <2>2, <2>8, <3>1
    <3>3. Flow(rs, "done", rd, wr, ReadCqe(rres), WriteCqe(res))'
      BY <1>1, <2>4, <2>5, <2>8, <3>1, <3>2, FlowCompletes DEF ReadCqe, WriteCqe
    <3>4. RoundRead(rs, ro, rres)'
      BY <1>1, <2>5, <3>2 DEF RoundRead, HasRead, Holds, Chunk
    <3> QED
      BY <2>7, <2>d, <3>2, <3>3, <3>4
  <2>9. CASE o = rd
    <3>1. rs = "under"
      BY <1>2, <2>4, <2>5, <2>9 DEF Flow
    <3>2. CompleteRead(o)
      BY <1>2, <2>4, <2>9
    <3>3. PICK b : b = cur
      OBVIOUS
    <3>4. /\ n \in 0 .. BlockSize /\ b \in 0 .. 1 /\ o = ReadOp(b, n, ro)
          /\ file_size = 0 \/ n > 0
      <4>1. /\ Chunk(ro) \in 0 .. BlockSize /\ (ro < file_size => Chunk(ro) > 0)
        BY <1>0, ChunkFacts
      <4>2. ro < file_size \/ file_size = 0
        BY <2>5 DEF RoundRead
      <4> QED
        BY <1>n, <2>2, <2>9, <3>3, <4>1, <4>2
    <3>5. PICK res \in Results :
           /\ HasRead(b, n, ro, res)'
           /\ bufs' \in [0 .. 1 -> [1 .. BlockSize -> 0 .. MaxFileSize]] /\ bufs'[1 - b] = bufs[1 - b]
           /\ short_read' \in BOOLEAN /\ (short_read => short_read') /\ UNCHANGED <<dst, short_write>>
           /\ AfterRead(o, n, res)
      BY <1>0, <1>1, <3>2, <3>4, ReadCompletes
    <3>6. transfers' = transfers \ {rd} /\ completed' = Append(completed, ReadCqe(res))
      BY <2>6, <2>9, <3>5, AloneRead
    <3>7. Flow("done", ws, rd, wr, ReadCqe(res), WriteCqe(wres))'
      BY <1>1, <2>4, <2>5, <3>1, <3>6, FlowCompletes DEF ReadCqe, WriteCqe
    <3>8. GoodCopy' => GoodCopy
      BY <1>1, <3>5 DEF GoodCopy
    <3>9. RoundRead("done", ro, res)'
      <4>1. HasRead(cur, Chunk(ro), ro, res)'
        BY <1>1, <2>3, <3>3, <3>5 DEF HasRead, Holds
      <4>2. /\ (ro < file_size \/ file_size = 0) /\ read_off = ro + Chunk(ro) /\ write_off <= ro
            /\ GoodCopy => write_off = ro
            /\ bytes_read = 0
        BY <2>5, <3>1 DEF RoundRead
      <4> QED
        BY <1>1, <2>2, <2>3, <3>8, <4>1, <4>2 DEF RoundRead
    <3>10. RoundWrite(ws, wl, wres)'
      <4>1. bufs'[1 - cur] = bufs[1 - cur]
        BY <3>3, <3>5
      <4> QED
        BY <1>1, <2>1, <3>5, <3>8, <4>1 DEF RoundWrite, HasWritten, CopiedTo, Holds
    <3>11. CopyTypes'
      BY <1>0, <1>1, <3>5, TransferTypes DEF CopyTypes
    <3> QED
      BY <2>7, <2>d, <3>7, <3>9, <3>10, <3>11
  <2> QED
    BY <1>2, <2>6, <2>8, <2>9
<1> QED
  BY <1>3, <1>4

\* Opening the files, and the end with an error.
LEMMA NextEnds ==
  ASSUME CopyInv, OpenFiles \/ ReapFails
  PROVE  CopyInv'
<1>0. CopyTypes
  BY DEF CopyInv
<1>n. /\ read_off \in 0 .. file_size /\ write_off \in 0 .. file_size /\ cur \in 0 .. 1
      /\ bytes_read \in 0 .. BlockSize /\ to_reap \in 0 .. 2 /\ file_size \in Nat
      /\ turn \in {"open", "read", "got", "put", "pair", "first", "reap", "drain"}
  BY <1>0, CopyNumbers DEF CopyTypes, CopyTypeOK
<1>1. CASE ReapFails
  <2>1. /\ copy_exit' = "1"
        /\ UNCHANGED <<copier, file_size, turn, position, bufs, short_read, short_write>>
    BY <1>1 DEF ReapFails, Reap, CopyEnds
  <2>2. CopyTypes'
    BY <1>0, <1>n, <2>1, StepTypes DEF position
  <2> QED
    BY <2>1, <2>2 DEF CopyInv
<1>2. CASE OpenFiles
  <2>1. /\ turn = "open" /\ copy_exit = "none"
        /\ UNCHANGED <<copier, file_size, position, bufs, dst, transfers, completed, short_read, short_write>>
        /\ \/ copy_exit' = "1" /\ turn' = turn
           \/ /\ copy_exit' = "none"
              /\ turn' = IF copier \in Pipelined THEN "first" ELSE "read"
    BY <1>2 DEF OpenFiles, CopyAt, CopyEnds, Proceed, kernel
  <2>2. BeforeFirst
    BY <2>1, CopyPlaces
  <2>3. CopyTypes'
    BY <1>0, <1>n, <2>1, StepTypes DEF position
  <2>4. CASE copy_exit' = "1"
    BY <2>3, <2>4 DEF CopyInv
  <2>5. CASE copy_exit' = "none" /\ copier \in Pipelined
    <3>1. turn' = "first"
      BY <2>1, <2>5
    <3>2. BeforeFirst'
      BY <2>1, <2>2, <2>5, <3>1 DEF BeforeFirst, Quiet, position
    <3> QED
      BY <2>3, <2>5, <3>2 DEF CopyInv
  <2>6. CASE copy_exit' = "none" /\ copier \notin Pipelined
    <3>1. turn' = "read"
      BY <2>1, <2>6
    <3>2. << >> = SourceBytes(0, 0)
      BY DEF SourceBytes
    <3>3. BetweenBlocks'
      BY <2>1, <2>2, <2>6, <3>1, <3>2 DEF BetweenBlocks, BeforeFirst, Quiet, CopiedTo, position
    <3> QED
      BY <2>3, <2>6, <3>3 DEF CopyInv
  <2> QED
    BY <2>1, <2>4, <2>5, <2>6
<1> QED
  BY <1>1, <1>2

\* A step of the program or of the kernel.
LEMMA NextCopyInv == ASSUME CopyInv, CopyNext PROVE CopyInv'
<1>1. CASE CopyRun
  BY <1>1, NextEnds, NextBlocks, NextPair, NextRounds DEF CopyRun
<1>2. CASE CompleteTransfer
  <2>1. copy_exit = "none" /\ transfers # {}
    BY <1>2 DEF CompleteTransfer
  <2>2. BlockRead \/ BlockWrite \/ PairInv \/ RoundInv \/ DrainInv
    BY <2>1 DEF CopyInv, BeforeFirst, BetweenBlocks, Quiet
  <2> QED
    BY <1>2, <2>2, TransferOfBlock, TransferOfRound
<1> QED
  BY <1>1, <1>2 DEF CopyNext

LEMMA StillCopyInv == ASSUME CopyInv, UNCHANGED cvars PROVE CopyInv'
<1>1. UNCHANGED <<copier, file_size, turn, read_off, write_off, cur, bytes_read, to_reap, bufs, dst,
                  transfers, completed, short_read, short_write, copy_exit>>
  BY DEF cvars, position, kernel
<1>2. GoodCopy' = GoodCopy /\ \A n : CopiedTo(n)' <=> CopiedTo(n)
  BY <1>1 DEF GoodCopy, CopiedTo
<1>3. CopyTypes'
  BY <1>1 DEF CopyInv, CopyTypes, CopyTypeOK
<1>4. Quiet <=> Quiet'
  BY <1>1 DEF Quiet
<1>5. copy_exit = "0" => CopiedTo(file_size)'
  BY <1>1 DEF CopyInv, CopiedTo, GoodCopy
<1>6. /\ BeforeFirst => BeforeFirst'
      /\ BetweenBlocks => BetweenBlocks'
  BY <1>1, <1>4 DEF BeforeFirst, BetweenBlocks, CopiedTo, GoodCopy
<1>7. BlockRead => BlockRead'
  BY <1>1 DEF BlockRead, CopiedTo, GoodCopy, HasRead, Holds
<1>8. \A n, base : WriteAfter(n, base) => WriteAfter(n, base)'
  BY <1>1 DEF WriteAfter, CopiedTo, GoodCopy, Holds, HasWritten
<1>9. BlockWrite => BlockWrite'
  BY <1>1, <1>8 DEF BlockWrite
<1>10. PairInv => PairInv'
  BY <1>1, <1>8 DEF PairInv, Chunk, CopiedTo, GoodCopy
<1>11. \A ws, wl, wres : RoundWrite(ws, wl, wres) => RoundWrite(ws, wl, wres)'
  BY <1>1 DEF RoundWrite, CopiedTo, GoodCopy, Holds, HasWritten
<1>12. \A rs, ro, rres : RoundRead(rs, ro, rres) => RoundRead(rs, ro, rres)'
  BY <1>1 DEF RoundRead, GoodCopy, Holds, HasRead, Chunk
<1>13. \A rs, ws, rd, wr, r, w : Flow(rs, ws, rd, wr, r, w) => Flow(rs, ws, rd, wr, r, w)'
  BY <1>1 DEF Flow
<1>14. DrainInv => DrainInv'
  BY <1>1, <1>11, <1>13, ZenonT(40) DEF DrainInv, GoodCopy, WriteOp, WriteCqe, Results
<1>15. RoundInv => RoundInv'
  <2>1. SUFFICES ASSUME RoundInv PROVE RoundInv'
    OBVIOUS
  <2>2. PICK rs \in Stages, ws \in Stages, ro \in 0 .. file_size, wl \in 0 .. BlockSize,
             rres \in Results, wres \in Results :
          /\ RoundRead(rs, ro, rres) /\ RoundWrite(ws, wl, wres)
          /\ Flow(rs, ws, ReadOp(cur, Chunk(ro), ro), WriteOp(1 - cur, wl, write_off - wl),
                  ReadCqe(rres), WriteCqe(wres))
    BY <2>1 DEF RoundInv
  <2> DEFINE rd == ReadOp(cur, Chunk(ro), ro)
             wr == WriteOp(1 - cur, wl, write_off - wl)
  <2>3. rd' = rd /\ wr' = wr
    BY <1>1 DEF ReadOp, WriteOp, Chunk
  <2>4. ReadCqe(rres)' = ReadCqe(rres) /\ WriteCqe(wres)' = WriteCqe(wres)
    BY DEF ReadCqe, WriteCqe
  <2>5. RoundRead(rs, ro, rres)' /\ RoundWrite(ws, wl, wres)'
    BY <2>2, <1>11, <1>12
  <2>6. Flow(rs, ws, rd, wr, ReadCqe(rres), WriteCqe(wres))'
    <3> HIDE DEF rd, wr
    <3>1. Flow(rs, ws, rd, wr, ReadCqe(rres), WriteCqe(wres))
      BY <2>2 DEF rd, wr
    <3> QED
      BY <3>1, <2>3, <2>4, <1>1 DEF Flow
  <2>7. ro \in 0 .. file_size' /\ turn' = "reap" /\ copier' \in Pipelined
    BY <1>1, <2>1 DEF RoundInv
  <2> QED
    BY <2>2, <2>5, <2>6, <2>7 DEF RoundInv
<1> QED
  BY <1>1, <1>3, <1>4, <1>5, <1>6, <1>7, <1>9, <1>10, <1>14, <1>15 DEF CopyInv

\* The start, and a copy that stands still.
LEMMA InitCopyInv ==
  ASSUME CopyStart, turn = "open", copy_exit \in {"none", "1"}, file_size \in 0 .. MaxFileSize,
         copier \in {"file_copy", "linked_copy"} \cup Pipelined
  PROVE  CopyInv
<1>1. BlockSize \in Nat /\ MaxFileSize \in Nat /\ file_size \in Nat
  BY CopyAssumption
<1>2. /\ read_off = 0 /\ write_off = 0 /\ cur = 0 /\ bytes_read = 0 /\ to_reap = 0
      /\ bufs = [b \in 0 .. 1 |-> [k \in 1 .. BlockSize |-> 0]] /\ dst = << >>
      /\ transfers = {} /\ completed = << >> /\ short_read = FALSE /\ short_write = FALSE
  BY DEF CopyStart
<1>3. CopyTypes
  <2>1. bufs \in [0 .. 1 -> [1 .. BlockSize -> 0 .. MaxFileSize]]
    BY <1>1, <1>2
  <2> QED
    BY <1>1, <1>2, <2>1 DEF CopyTypes, CopyTypeOK
<1>4. BeforeFirst
  BY <1>2 DEF BeforeFirst, Quiet
<1> QED
  BY <1>3, <1>4 DEF CopyInv

\* With exit code 0 the destination is the source.
LEMMA CopyTold == ASSUME CopyInv PROVE CopiedOrTold
<1>1. short_write \in BOOLEAN /\ short_read \in BOOLEAN
  BY DEF CopyInv, CopyTypes
<1> QED
  BY <1>1 DEF CopyInv, CopyTypes, CopiedOrTold, Quiet, CopiedTo, GoodCopy

\* A copy that reports success is one, for every size of a block and of a file: no block
\* is left out, doubled or overwritten by the read into its buffer, and nothing is
\* under way on the buffers when they go; but for the short transfers the programs do
\* not look at.
THEOREM CopiesTell == CopySpec => []CopiedOrTold
<1>1. CopyInit => CopyInv
  BY InitCopyInv, CopyAssumption DEF CopyInit
<1>2. CopyInv /\ [CopyNext]_cvars => CopyInv'
  BY NextCopyInv, StillCopyInv
<1> QED
  BY <1>1, <1>2, CopyTold, PTL DEF CopySpec

----
\* The memory of a virtio sample.  One argument: of every area the code computes the size and
\* the start that exact numbers have, or throws, and it throws exactly when they do not fit;
\* a page and an alignment that divide the values of size_t leave the sums added without a
\* check no room to wrap.

\* Dividing by a, and what is a multiple of a with a rest.
LEMMA Division ==
  ASSUME NEW n \in Nat, NEW a \in Nat \ {0}
  PROVE  n = a * (n \div a) + (n % a) /\ n % a \in 0 .. a - 1 /\ n \div a \in Nat
OBVIOUS

\* See Division.
LEMMA DivisionOnly ==
  ASSUME NEW q \in Nat, NEW r \in Nat, NEW a \in Nat \ {0}, r < a
  PROVE  (a * q + r) \div a = q /\ (a * q + r) % a = r
OBVIOUS

\* See Division.
LEMMA MultipleOf ==
  ASSUME NEW n \in Nat, NEW a \in Nat \ {0}, n % a = 0
  PROVE  \E q \in Nat : n = a * q
<1>1. n = a * (n \div a) + 0 /\ n \div a \in Nat
  BY Division
<1>2. PICK q \in Nat : q = n \div a
  BY <1>1
<1>3. n = a * q + 0
  BY <1>1, <1>2
<1> QED
  BY <1>3

\* Up(n, a) is the first multiple of a from n on, and what the code computes for it.
LEMMA UpFacts ==
  ASSUME NEW n \in Nat, NEW a \in Nat \ {0}
  PROVE  /\ Up(n, a) \in Nat /\ n <= Up(n, a) /\ Up(n, a) < n + a /\ Up(n, a) % a = 0
         /\ ((n + a - 1) \div a) * a = Up(n, a)
<1>1. PICK q \in Nat, r \in 0 .. a - 1 : n = a * q + r /\ n % a = r
  BY Division
<1>2. CASE r = 0
  <2>1. n + a - 1 = a * q + (a - 1) /\ a - 1 \in Nat /\ a - 1 < a
    BY <1>1, <1>2
  <2>2. (n + a - 1) \div a = q
    BY <2>1, DivisionOnly
  <2>3. Up(n, a) = n /\ n = a * q + 0 /\ a * q = q * a
    BY <1>1, <1>2 DEF Up
  <2> QED
    BY <1>1, <1>2, <2>2, <2>3
<1>3. CASE r # 0
  <2>1. n + a - 1 = a * (q + 1) + (r - 1) /\ r - 1 \in Nat /\ r - 1 < a /\ q + 1 \in Nat
    BY <1>1, <1>3
  <2>2. (n + a - 1) \div a = q + 1
    BY <2>1, DivisionOnly
  <2>3. Up(n, a) = a * (q + 1) + 0 /\ Up(n, a) = n - r + a /\ a * (q + 1) = (q + 1) * a
    BY <1>1, <1>3 DEF Up
  <2>4. Up(n, a) % a = 0
    BY <2>1, <2>3, DivisionOnly, SMTT(30)
  <2> QED
    BY <1>1, <1>3, <2>2, <2>3, <2>4
<1> QED
  BY <1>2, <1>3

\* Rounding up what begins at a multiple rounds the part after it.
LEMMA UpAfter ==
  ASSUME NEW n \in Nat, NEW m \in Nat, NEW a \in Nat \ {0}, m % a = 0
  PROVE  Up(m + n, a) = m + Up(n, a) /\ Up(m + n, a) % a = 0
<1>1. PICK p \in Nat : m = a * p
  BY MultipleOf
<1>2. PICK q \in Nat, r \in 0 .. a - 1 : n = a * q + r /\ n % a = r
  BY Division
<1>3. PICK s \in Nat : s = p + q
  OBVIOUS
<1>4. m + n = a * s + r
  BY <1>1, <1>2, <1>3
<1>5. r \in Nat /\ r < a
  BY <1>2
<1>6. (m + n) % a = r
  <2>1. (a * s + r) % a = r
    BY <1>5, DivisionOnly
  <2> QED
    BY <1>4, <2>1
<1>7. Up(m + n, a) = m + Up(n, a)
  BY <1>2, <1>6 DEF Up
<1>8. m + n \in Nat
  OBVIOUS
<1> QED
  BY <1>7, <1>8, UpFacts

\* A number that divides the values of size_t leaves room after each of its multiples; but
\* for itself, at least two of it fit.
LEMMA MultipleFits ==
  ASSUME NEW a \in 1 .. SizeMax, (SizeMax + 1) % a = 0, NEW m \in 0 .. SizeMax, m % a = 0
  PROVE  m + a <= SizeMax + 1 /\ 2 * a <= SizeMax + 1
<1>0. SizeMax \in Nat
  BY SizeAssumption
<1>1. PICK p \in Nat, q \in Nat : SizeMax + 1 = a * p /\ m = a * q
  <2> DEFINE values == SizeMax + 1
  <2>1. values \in Nat /\ m \in Nat /\ a \in Nat \ {0} /\ values % a = 0
    BY <1>0
  <2> HIDE DEF values
  <2>2. PICK p \in Nat : values = a * p
    BY <2>1, MultipleOf
  <2>3. PICK q \in Nat : m = a * q
    BY <2>1, MultipleOf
  <2>4. SizeMax + 1 = a * p
    BY <2>2 DEF values
  <2> QED
    BY <2>3, <2>4
<1>2. q + 1 <= p
  <2>1. ASSUME p <= q PROVE FALSE
    <3>1. a * p <= a * q
      BY <2>1, <1>1
    <3> QED
      BY <1>0, <1>1, <3>1
  <2> QED
    BY <2>1
<1>3. 2 <= p
  <2>1. ASSUME p <= 1 PROVE FALSE
    <3>1. a * p <= a
      BY <2>1, <1>1
    <3> QED
      BY <1>0, <1>1, <3>1
  <2> QED
    BY <2>1
<1>4. a * (q + 1) <= a * p /\ a * 2 <= a * p
  BY <1>0, <1>1, <1>2, <1>3
<1> QED
  BY <1>0, <1>1, <1>4

\* align_up throws exactly when the aligned value does not fit.
LEMMA AlignUpExact ==
  ASSUME NEW n \in 0 .. SizeMax, NEW a \in 1 .. SizeMax, (SizeMax + 1) % a = 0
  PROVE  AlignUp(n, a) = IF Up(n, a) <= SizeMax THEN Up(n, a) ELSE Thrown
<1>0. SizeMax \in Nat /\ n # Thrown
  BY SizeAssumption DEF Thrown
<1>1. /\ Up(n, a) \in Nat /\ n <= Up(n, a) /\ Up(n, a) < n + a /\ Up(n, a) % a = 0
      /\ ((n + a - 1) \div a) * a = Up(n, a)
  BY <1>0, UpFacts
<1>2. Up(n, a) <= SizeMax => Up(n, a) + a <= SizeMax + 1
  BY <1>0, <1>1, MultipleFits
<1>3. Up(n, a) <= SizeMax <=> ~(n > SizeMax - (a - 1))
  BY <1>0, <1>1, <1>2
<1> QED
  BY <1>0, <1>1, <1>3 DEF AlignUp

\* A virtqueue always fits: neither its aligned used ring nor its size is too large.
LEMMA VringExact ==
  ASSUME NEW q \in Nat, 26 * q + 12 <= SizeMax \div 2, NEW a \in Alignments
  PROVE  VringSize(q, a) = ExactQueue(q, a) /\ ExactQueue(q, a) \in 0 .. SizeMax
<1>0. /\ SizeMax \in Nat /\ a \in 4 .. SizeMax /\ (SizeMax + 1) % a = 0
      /\ SizeMax \div 2 \in Nat /\ 2 * (SizeMax \div 2) <= SizeMax
  BY SizeAssumption, AlignAssumption
<1>1. 2 * a <= SizeMax + 1
  BY <1>0, MultipleFits
<1>2. PICK n \in Nat : n = 18 * q + 6
  OBVIOUS
<1>3. /\ Up(n, a) \in Nat /\ n <= Up(n, a) /\ Up(n, a) < n + a
      /\ AlignUp(n, a) = IF Up(n, a) <= SizeMax THEN Up(n, a) ELSE Thrown
  <2>1. n \in 0 .. SizeMax /\ a \in 1 .. SizeMax
    BY <1>0, <1>2
  <2> QED
    <3>1. n \in Nat /\ a \in Nat \ {0}
      BY <1>0, <1>2
    <3> QED
      BY <1>0, <2>1, <3>1, UpFacts, AlignUpExact
<1>4. Up(n, a) + 8 * q + 6 \in 0 .. SizeMax
  BY <1>0, <1>1, <1>2, <1>3
<1>5. UsedOffset(q, a) = Up(n, a) /\ Up(n, a) # Thrown
  <2>1. 16 * q + 2 * (3 + q) = n
    BY <1>2
  <2>2. Up(n, a) <= SizeMax
    BY <1>0, <1>3, <1>4
  <2>3. Up(n, a) # Thrown
    BY <1>0, <1>3, <2>2 DEF Thrown
  <2> QED
    BY <1>3, <2>1, <2>2, <2>3 DEF UsedOffset
<1>6. VringSize(q, a) = (Up(n, a) + 2 * 3 + 8 * q) % (SizeMax + 1)
  BY <1>5 DEF VringSize, Wrapped
<1>7. \A x \in 0 .. SizeMax : x % (SizeMax + 1) = x
  BY <1>0
<1>8. Up(n, a) + 2 * 3 + 8 * q = Up(n, a) + 8 * q + 6
  BY <1>3
<1>9. ExactQueue(q, a) = Up(n, a) + 8 * q + 6
  BY <1>2 DEF ExactQueue
<1> QED
  BY <1>4, <1>6, <1>7, <1>8, <1>9

\* checked_mul throws exactly when the product does not fit.
LEMMA ProductExact ==
  ASSUME NEW a \in 0 .. SizeMax, NEW b \in 0 .. SizeMax
  PROVE  a * b \in Nat /\ CheckedMul(a, b) = IF a * b <= SizeMax THEN a * b ELSE Thrown
<1>0. SizeMax \in Nat
  BY SizeAssumption
<1>1. CASE a = 0
  <2>1. PICK z \in Nat : z = a * b /\ z = 0 /\ z <= SizeMax
    BY <1>0, <1>1
  <2>2. CheckedMul(a, b) = z
    BY <1>1, <2>1 DEF CheckedMul
  <2> QED
    BY <2>1, <2>2
<1>2. CASE a # 0
  <2>1. PICK q \in Nat, r \in 0 .. a - 1 : SizeMax = a * q + r /\ SizeMax \div a = q
    <3>1. a \in Nat \ {0}
      BY <1>2
    <3> QED
      BY <1>0, <3>1, Division
  <2>2. ASSUME b <= q PROVE a * b <= SizeMax
    <3>1. a * b <= a * q
      BY <2>1, <2>2
    <3> QED
      BY <1>0, <2>1, <3>1
  <2>3. ASSUME q < b PROVE a * b > SizeMax
    <3>1. a * (q + 1) <= a * b
      BY <2>1, <2>3
    <3>2. a * (q + 1) = a * q + a
      BY <2>1
    <3> QED
      BY <1>0, <2>1, <3>1, <3>2
  <2>4. q < b <=> ~(a * b <= SizeMax)
    BY <1>0, <2>1, <2>2, <2>3
  <2>5. a * b \in Nat
    BY <1>0
  <2> QED
    BY <1>2, <2>1, <2>4, <2>5 DEF CheckedMul
<1> QED
  BY <1>1, <1>2

\* A value that may have been thrown, of an exact number.
Fits(v, n) == n \in Nat /\ v = IF n <= SizeMax THEN n ELSE Thrown

\* What is asked for is in size_t.
LEMMA RequestFacts ==
  ASSUME NEW r \in Requests
  PROVE  /\ r.kind \in {"vring", "rx", "packet", "control", "tx_buffers"} /\ r.align \in Alignments
         /\ \A q \in {r.rx, r.tx, CtrlQueueSize} : q \in Nat /\ 26 * q + 12 <= SizeMax \div 2
         /\ {r.buffers, r.buffer_size, r.tx_buffers, r.extra_size} \subseteq 0 .. SizeMax
         /\ r.kind = "control" => r.extra_size + 3 <= PageSize
<1>0. /\ SizeMax \in Nat /\ 255 <= SizeMax /\ 0 \in 0 .. SizeMax
      /\ BufferCounts \subseteq 0 .. SizeMax /\ BufferSizes \subseteq 0 .. SizeMax
      /\ ExtraSizes \subseteq 0 .. SizeMax /\ CommandSizes \subseteq ExtraSizes
      /\ \A n \in CommandSizes : n + 3 <= PageSize
  BY SizeAssumption, BufferAssumption DEF CommandSizes
<1>1. \A q \in QueueSizes \cup {2, 4} : q \in Nat /\ 26 * q + 12 <= SizeMax \div 2
  BY <1>0, SizeAssumption
<1>2. /\ r.kind \in {"vring", "rx", "packet", "control", "tx_buffers"} /\ r.align \in Alignments
      /\ r.rx \in QueueSizes \cup {2} /\ r.tx \in QueueSizes \cup {2}
      /\ r.buffers \in BufferCounts /\ r.buffer_size \in BufferSizes
      /\ r.tx_buffers \in BufferCounts \cup {0} /\ r.extra_size \in ExtraSizes \cup CommandSizes \cup {0}
      /\ r.kind = "control" => r.extra_size \in CommandSizes
  BY DEF Requests
<1> QED
  BY <1>0, <1>1, <1>2 DEF CtrlQueueSize

\* The areas of each kind of sample: as many as there should be, each of the size it should
\* have, or thrown when that does not fit.
SizesFit(r) ==
  LET n == Len(ExactSizes(r))
  IN  /\ n \in 1 .. 5 /\ AreaSizes(r) \in Seq(Int) /\ ExactSizes(r) \in Seq(Int)
      /\ Len(AreaSizes(r)) = n
      /\ \A k \in 1 .. n : Fits(AreaSizes(r)[k], ExactSizes(r)[k])
      /\ r.kind = "control" => n = 5 /\ ExactSizes(r)[5] = r.extra_size + 3

\* See SizesFit.
LEMMA AreasFit == ASSUME NEW r \in Requests PROVE SizesFit(r)
<1>0. SizeMax \in Nat
  BY SizeAssumption
<1>1. /\ r.kind \in {"vring", "rx", "packet", "control", "tx_buffers"} /\ r.align \in Alignments
      /\ \A q \in {r.rx, r.tx, CtrlQueueSize} : q \in Nat /\ 26 * q + 12 <= SizeMax \div 2
      /\ {r.buffers, r.buffer_size, r.tx_buffers, r.extra_size} \subseteq 0 .. SizeMax
      /\ r.kind = "control" => r.extra_size + 3 <= PageSize
  BY RequestFacts
<1>2. PICK a \in Nat : a = ExactQueue(r.rx, r.align) /\ VringSize(r.rx, r.align) = a /\ a <= SizeMax
  BY <1>0, <1>1, VringExact
<1>3. PICK b \in Nat : b = ExactQueue(r.tx, r.align) /\ VringSize(r.tx, r.align) = b /\ b <= SizeMax
  BY <1>0, <1>1, VringExact
<1>4. PICK c \in Nat : c = ExactQueue(CtrlQueueSize, r.align) /\ VringSize(CtrlQueueSize, r.align) = c
                       /\ c <= SizeMax
  BY <1>0, <1>1, VringExact
<1>5. \A n, k \in 0 .. SizeMax : n * k \in Nat /\ CheckedMul(n, k) \in Int /\ Fits(CheckedMul(n, k), n * k)
  BY <1>0, ProductExact DEF Fits, Thrown
<1>6. PICK m \in Nat, u \in Int : /\ m = r.buffers * r.buffer_size /\ u = CheckedMul(r.buffers, r.buffer_size)
                                  /\ Fits(u, m)
  BY <1>1, <1>5
<1>7. PICK t \in Nat, v \in Int : /\ t = r.tx_buffers * r.buffer_size
                                  /\ v = CheckedMul(r.tx_buffers, r.buffer_size) /\ Fits(v, t)
  BY <1>1, <1>5
<1>8. PICK x \in 0 .. SizeMax : x = r.extra_size
  BY <1>1
<1>9. Fits(a, a) /\ Fits(b, b) /\ Fits(c, c) /\ Fits(x, x) /\ x \in Int
  BY <1>0, <1>2, <1>3, <1>4 DEF Fits
<1>10. CASE r.kind = "vring"
  <2>1. AreaSizes(r) = <<a>> /\ ExactSizes(r) = <<a>>
    BY <1>2, <1>10 DEF AreaSizes, ExactSizes
  <2> QED
    BY <1>9, <1>10, <2>1 DEF SizesFit
<1>11. CASE r.kind = "rx"
  <2>1. PICK y, z : /\ y = AreaSizes(r) /\ z = ExactSizes(r)
                    /\ y = <<a, b>> \o <<u>> /\ z = <<a, b, m>>
    BY <1>2, <1>3, <1>6, <1>11 DEF AreaSizes, ExactSizes
  <2>2. y \in Seq(Int) /\ Len(y) = 3 /\ y[1] = a /\ y[2] = b /\ y[3] = u
    BY <2>1
  <2>3. z \in Seq(Int) /\ Len(z) = 3 /\ z[1] = a /\ z[2] = b /\ z[3] = m
    BY <2>1
  <2>4. \A k \in 1 .. 3 : Fits(y[k], z[k])
    BY <1>6, <1>9, <2>2, <2>3
  <2> QED
    BY <1>11, <2>1, <2>2, <2>3, <2>4 DEF SizesFit
<1>12. CASE r.kind = "packet"
  <2>1. PICK y, z : /\ y = AreaSizes(r) /\ z = ExactSizes(r)
                    /\ y = <<a, b>> \o <<u, x>> /\ z = Append(<<a, b, m>>, x)
    BY <1>2, <1>3, <1>6, <1>8, <1>12 DEF AreaSizes, ExactSizes
  <2>2. y \in Seq(Int) /\ Len(y) = 4 /\ y[1] = a /\ y[2] = b /\ y[3] = u /\ y[4] = x
    BY <1>9, <2>1
  <2>3. z \in Seq(Int) /\ Len(z) = 4 /\ z[1] = a /\ z[2] = b /\ z[3] = m /\ z[4] = x
    BY <1>9, <2>1
  <2>4. \A k \in 1 .. 4 : Fits(y[k], z[k])
    BY <1>6, <1>9, <2>2, <2>3
  <2> QED
    BY <1>12, <2>1, <2>2, <2>3, <2>4 DEF SizesFit
<1>13. CASE r.kind = "tx_buffers"
  <2>1. PICK y, z : /\ y = AreaSizes(r) /\ z = ExactSizes(r)
                    /\ y = <<a, b>> \o <<u, v>> /\ z = Append(<<a, b, m>>, t)
    BY <1>2, <1>3, <1>6, <1>7, <1>13 DEF AreaSizes, ExactSizes
  <2>2. y \in Seq(Int) /\ Len(y) = 4 /\ y[1] = a /\ y[2] = b /\ y[3] = u /\ y[4] = v
    BY <2>1
  <2>3. z \in Seq(Int) /\ Len(z) = 4 /\ z[1] = a /\ z[2] = b /\ z[3] = m /\ z[4] = t
    BY <2>1
  <2>4. \A k \in 1 .. 4 : Fits(y[k], z[k])
    BY <1>6, <1>7, <1>9, <2>2, <2>3, SMTT(30)
  <2> QED
    BY <1>13, <2>1, <2>2, <2>3, <2>4 DEF SizesFit
<1>14. CASE r.kind = "control"
  <2>1. PICK w \in Int : w = CtrlHdr + x + CtrlAck /\ w = x + 3 /\ Fits(w, w)
    <3>1. x + 3 <= SizeMax
      BY <1>0, <1>1, <1>8, <1>14, SizeAssumption
    <3> QED
      BY <1>0, <3>1 DEF CtrlHdr, CtrlAck, Fits
  <2>2. PICK y, z : /\ y = AreaSizes(r) /\ z = ExactSizes(r)
                    /\ y = <<a, b>> \o <<c, u, w>> /\ z = <<a, b, c, m, w>>
    BY <1>2, <1>3, <1>4, <1>6, <1>8, <1>14, <2>1 DEF AreaSizes, ExactSizes
  <2>3. y \in Seq(Int) /\ Len(y) = 5 /\ y[1] = a /\ y[2] = b /\ y[3] = c /\ y[4] = u /\ y[5] = w
    BY <2>2
  <2>4. z \in Seq(Int) /\ Len(z) = 5 /\ z[1] = a /\ z[2] = b /\ z[3] = c /\ z[4] = m /\ z[5] = w
    BY <2>2
  <2>5. \A k \in 1 .. 5 : Fits(y[k], z[k])
    BY <1>6, <1>9, <2>1, <2>3, <2>4
  <2> QED
    BY <1>8, <1>14, <2>1, <2>2, <2>3, <2>4, <2>5 DEF SizesFit
<1> QED
  BY <1>1, <1>10, <1>11, <1>12, <1>13, <1>14

\* What Starts(r) is, as long as the recursion has a value.
IsStart(r, f) ==
  f = [k \in 1 .. Len(AreaSizes(r)) + 1 |-> IF k = 1 THEN 0 ELSE RoundUpToPage(AreaEnd(r, k - 1, f[k - 1]))]

\* The recursion has one: a layout has at most five areas.
LEMMA StartsUnfold == ASSUME NEW r, Len(AreaSizes(r)) \in 0 .. 5 PROVE IsStart(r, Starts(r))
<1> DEFINE g(k, v) == RoundUpToPage(AreaEnd(r, k, v))
<1>1. PICK v2, v3, v4, v5, v6 : v2 = g(1, 0) /\ v3 = g(2, v2) /\ v4 = g(3, v3) /\ v5 = g(4, v4) /\ v6 = g(5, v5)
  OBVIOUS
<1>2. PICK f : f = [k \in 1 .. Len(AreaSizes(r)) + 1 |->
                      IF k = 1 THEN 0 ELSE IF k = 2 THEN v2 ELSE IF k = 3 THEN v3
                      ELSE IF k = 4 THEN v4 ELSE IF k = 5 THEN v5 ELSE v6]
  OBVIOUS
<1> HIDE DEF g
<1>3. ASSUME NEW k \in 1 .. Len(AreaSizes(r)) + 1 PROVE f[k] = IF k = 1 THEN 0 ELSE g(k - 1, f[k - 1])
  <2>1. k \in 1 .. 6 /\ (k # 1 => k - 1 \in 1 .. Len(AreaSizes(r)) + 1)
    <3>1. PICK n \in 0 .. 5 : n = Len(AreaSizes(r))
      OBVIOUS
    <3>2. k \in 1 .. n + 1
      BY <3>1
    <3>3. k \in 1 .. 6 /\ (k # 1 => k - 1 \in 1 .. n + 1)
      BY <3>2
    <3> QED
      BY <3>1, <3>3
  <2>2. k = 1 \/ k = 2 \/ k = 3 \/ k = 4 \/ k = 5 \/ k = 6
    BY <2>1
  <2>3. CASE k = 1
    BY <1>2, <2>3
  <2>4. CASE k = 2
    BY <1>1, <1>2, <2>1, <2>4
  <2>5. CASE k = 3
    BY <1>1, <1>2, <2>1, <2>5
  <2>6. CASE k = 4
    BY <1>1, <1>2, <2>1, <2>6
  <2>7. CASE k = 5
    BY <1>1, <1>2, <2>1, <2>7
  <2>8. CASE k = 6
    BY <1>1, <1>2, <2>1, <2>8
  <2> QED
    BY <2>2, <2>3, <2>4, <2>5, <2>6, <2>7, <2>8
<1>4. f = [k \in 1 .. Len(AreaSizes(r)) + 1 |-> IF k = 1 THEN 0 ELSE g(k - 1, f[k - 1])]
  BY <1>2, <1>3
<1>5. IsStart(r, f)
  BY <1>4 DEF IsStart, g
<1>6. Starts(r) = CHOOSE h : IsStart(r, h)
  BY Zenon DEF Starts, IsStart
<1> QED
  BY <1>5, <1>6

\* What ExactTotal(r) adds up.
IsSum(r, f) ==
  f = [k \in 0 .. Len(ExactSizes(r)) |-> IF k = 0 THEN 0 ELSE f[k - 1] + Up(ExactSizes(r)[k], PageSize)]

\* See StartsUnfold.
LEMMA SumUnfold ==
  ASSUME NEW r, Len(ExactSizes(r)) \in 1 .. 5
  PROVE  \E f : IsSum(r, f) /\ ExactTotal(r) = f[Len(ExactSizes(r))]
<1> DEFINE g(k, v) == v + Up(ExactSizes(r)[k], PageSize)
<1>1. PICK v1, v2, v3, v4, v5 : v1 = g(1, 0) /\ v2 = g(2, v1) /\ v3 = g(3, v2) /\ v4 = g(4, v3) /\ v5 = g(5, v4)
  OBVIOUS
<1>2. PICK f : f = [k \in 0 .. Len(ExactSizes(r)) |->
                      IF k = 0 THEN 0 ELSE IF k = 1 THEN v1 ELSE IF k = 2 THEN v2 ELSE IF k = 3 THEN v3
                      ELSE IF k = 4 THEN v4 ELSE v5]
  OBVIOUS
<1> HIDE DEF g
<1>3. ASSUME NEW k \in 0 .. Len(ExactSizes(r)) PROVE f[k] = IF k = 0 THEN 0 ELSE g(k, f[k - 1])
  <2>1. k \in 0 .. 5 /\ (k # 0 => k - 1 \in 0 .. Len(ExactSizes(r)))
    <3>1. PICK n \in 1 .. 5 : n = Len(ExactSizes(r))
      OBVIOUS
    <3>2. k \in 0 .. n
      BY <3>1
    <3>3. k \in 0 .. 5 /\ (k # 0 => k - 1 \in 0 .. n)
      BY <3>2
    <3> QED
      BY <3>1, <3>3
  <2>2. k = 0 \/ k = 1 \/ k = 2 \/ k = 3 \/ k = 4 \/ k = 5
    BY <2>1
  <2>3. CASE k = 0
    BY <1>2, <2>3
  <2>4. CASE k = 1
    BY <1>1, <1>2, <2>1, <2>4
  <2>5. CASE k = 2
    BY <1>1, <1>2, <2>1, <2>5
  <2>6. CASE k = 3
    BY <1>1, <1>2, <2>1, <2>6
  <2>7. CASE k = 4
    BY <1>1, <1>2, <2>1, <2>7
  <2>8. CASE k = 5
    BY <1>1, <1>2, <2>1, <2>8
  <2> QED
    BY <2>2, <2>3, <2>4, <2>5, <2>6, <2>7, <2>8
<1>4. f = [k \in 0 .. Len(ExactSizes(r)) |-> IF k = 0 THEN 0 ELSE g(k, f[k - 1])]
  BY <1>2, <1>3
<1>5. IsSum(r, f)
  BY <1>4 DEF IsSum, g
<1>6. ExactTotal(r) = (CHOOSE h : IsSum(r, h))[Len(ExactSizes(r))]
  BY Zenon DEF ExactTotal, IsSum
<1> QED
  BY <1>5, <1>6

\* An area more: where it starts, or thrown, gives where the next one starts, or thrown.
LEMMA NextStart ==
  ASSUME NEW r \in Requests, NEW k \in 1 .. Len(ExactSizes(r)),
         NEW s \in Nat, s % PageSize = 0, NEW st, st = IF s <= SizeMax THEN s ELSE Thrown,
         NEW e, e = ExactSizes(r)[k]
  PROVE  LET t == s + Up(e, PageSize)
         IN  /\ t \in Nat /\ t % PageSize = 0 /\ e \in Nat /\ s + e <= t
             /\ RoundUpToPage(AreaEnd(r, k, st)) = IF t <= SizeMax THEN t ELSE Thrown
<1> DEFINE t == s + Up(e, PageSize)
<1>0. /\ SizeMax \in Nat /\ PageSize \in Nat \ {0} /\ PageSize \in 1 .. SizeMax
      /\ (SizeMax + 1) % PageSize = 0 /\ Thrown = SizeMax + 1
  BY SizeAssumption DEF Thrown
<1>1. SizesFit(r) /\ (r.kind = "control" => r.extra_size + 3 <= PageSize) /\ r.extra_size \in Nat
  BY <1>0, AreasFit, RequestFacts
<1>2. PICK v : v = AreaSizes(r)[k] /\ Fits(v, e)
  BY <1>1 DEF SizesFit
<1>3. e \in Nat /\ v = IF e <= SizeMax THEN e ELSE Thrown
  BY <1>2 DEF Fits
<1>4. Up(e, PageSize) \in Nat /\ e <= Up(e, PageSize)
  BY <1>0, <1>3, UpFacts
<1>5. Up(s + e, PageSize) = t /\ t % PageSize = 0
  <2>1. Up(s + e, PageSize) = s + Up(e, PageSize) /\ Up(s + e, PageSize) % PageSize = 0
    BY <1>0, <1>3, UpAfter
  <2> QED
    BY <2>1
<1>6. t \in Nat /\ s + e <= t /\ s <= t /\ e <= t
  BY <1>3, <1>4
<1>7. AlignUp(Thrown, PageSize) = Thrown
  BY DEF AlignUp
<1>8. ASSUME NEW end, end = IF s + e <= SizeMax THEN s + e ELSE Thrown
      PROVE  AlignUp(end, PageSize) = IF t <= SizeMax THEN t ELSE Thrown
  <2>1. CASE s + e <= SizeMax
    <3>1. s + e \in 0 .. SizeMax
      BY <1>0, <1>3, <2>1
    <3>2. AlignUp(s + e, PageSize) = IF Up(s + e, PageSize) <= SizeMax THEN Up(s + e, PageSize) ELSE Thrown
      BY <1>0, <3>1, AlignUpExact
    <3>3. end = s + e
      BY <1>8, <2>1
    <3> QED
      BY <1>5, <3>2, <3>3
  <2>2. CASE ~(s + e <= SizeMax)
    BY <1>0, <1>3, <1>6, <1>7, <1>8, <2>2
  <2> QED
    BY <2>1, <2>2
<1>9. AreaEnd(r, k, st) = IF s + e <= SizeMax THEN s + e ELSE Thrown
  <2>1. CASE s > SizeMax
    <3>1. st = Thrown /\ ~(s + e <= SizeMax)
      BY <1>0, <1>3, <2>1
    <3> QED
      BY <3>1 DEF AreaEnd
  <2>2. CASE s <= SizeMax /\ r.kind = "control" /\ k = 5
    <3>1. st = s /\ st # Thrown /\ e = r.extra_size + 3 /\ e <= PageSize
      BY <1>0, <1>1, <2>2 DEF SizesFit
    <3>2. s + PageSize <= SizeMax + 1
      <4>1. s \in 0 .. SizeMax
        BY <2>2
      <4> QED
        BY <1>0, <4>1, MultipleFits
    <3>3. PICK n \in 0 .. SizeMax : n = s + CtrlHdr + r.extra_size /\ n + 1 = s + e
      <4>1. s + 2 + r.extra_size \in 0 .. SizeMax /\ s + 2 + r.extra_size + 1 = s + e
        BY <1>0, <1>1, <3>1, <3>2, SMTT(30)
      <4> QED
        BY <4>1 DEF CtrlHdr
    <3>4. Wrapped(n) = n
      BY <1>0 DEF Wrapped
    <3>5. AreaEnd(r, k, st) = CheckedAdd(Wrapped(n), 1)
      BY <2>2, <3>1, <3>3 DEF AreaEnd, CtrlAck
    <3>6. CheckedAdd(n, 1) = IF n + 1 <= SizeMax THEN n + 1 ELSE Thrown
      BY <1>0, SizeAssumption DEF CheckedAdd
    <3> QED
      BY <3>3, <3>4, <3>5, <3>6
  <2>3. CASE s <= SizeMax /\ ~(r.kind = "control" /\ k = 5)
    <3>1. st = s /\ st # Thrown
      BY <1>0, <2>3
    <3>2. AreaEnd(r, k, st) = CheckedAdd(s, v)
      BY <1>2, <2>3, <3>1 DEF AreaEnd
    <3>3. CheckedAdd(s, v) = IF s + e <= SizeMax THEN s + e ELSE Thrown
      BY <1>0, <1>3, <3>1 DEF CheckedAdd
    <3> QED
      BY <3>2, <3>3
  <2> QED
    BY <1>0, <2>1, <2>2, <2>3
<1>10. RoundUpToPage(AreaEnd(r, k, st)) = IF t <= SizeMax THEN t ELSE Thrown
  BY <1>8, <1>9 DEF RoundUpToPage
<1> QED
  BY <1>3, <1>5, <1>6, <1>10

\* Starts(r) against the sums of the exact sizes.
StartsExact(r, sum) ==
  LET n == Len(ExactSizes(r))
  IN  /\ sum[0] = 0 /\ sum[n] = ExactTotal(r)
      /\ \A k \in 0 .. n : /\ sum[k] \in Nat /\ sum[k] % PageSize = 0
                           /\ Starts(r)[k + 1] = IF sum[k] <= SizeMax THEN sum[k] ELSE Thrown
      /\ \A k \in 1 .. n : ExactSizes(r)[k] \in Nat /\ sum[k - 1] + ExactSizes(r)[k] <= sum[k]

\* See StartsExact: area by area.
LEMMA AllStarts == ASSUME NEW r \in Requests PROVE \E sum : StartsExact(r, sum)
<1>0. SizeMax \in Nat /\ PageSize \in Nat \ {0} /\ SizesFit(r)
  BY SizeAssumption, AreasFit
<1>1. PICK n \in 1 .. 5 : n = Len(ExactSizes(r)) /\ n = Len(AreaSizes(r))
  BY <1>0 DEF SizesFit
<1>2. PICK sum : IsSum(r, sum) /\ ExactTotal(r) = sum[n]
  <2>1. Len(ExactSizes(r)) \in 1 .. 5
    BY <1>1
  <2> QED
    BY <1>1, <2>1, SumUnfold
<1>3. PICK st : st = Starts(r) /\ IsStart(r, st)
  <2>1. Len(AreaSizes(r)) \in 0 .. 5
    BY <1>1
  <2> QED
    BY <2>1, StartsUnfold
<1>4. sum[0] = 0 /\ st[1] = 0
  BY <1>1, <1>2, <1>3 DEF IsSum, IsStart
<1>5. ASSUME NEW k \in 1 .. n
      PROVE  /\ sum[k] = sum[k - 1] + Up(ExactSizes(r)[k], PageSize)
             /\ st[k + 1] = RoundUpToPage(AreaEnd(r, k, st[k]))
  <2>1. k \in 0 .. n /\ k # 0 /\ k + 1 \in 1 .. n + 1 /\ k + 1 # 1 /\ (k + 1) - 1 = k
    OBVIOUS
  <2>2. sum = [j \in 0 .. n |-> IF j = 0 THEN 0 ELSE sum[j - 1] + Up(ExactSizes(r)[j], PageSize)]
    BY <1>1, <1>2 DEF IsSum
  <2>3. st = [j \in 1 .. n + 1 |-> IF j = 1 THEN 0 ELSE RoundUpToPage(AreaEnd(r, j - 1, st[j - 1]))]
    BY <1>1, <1>3 DEF IsStart
  <2>4. sum[k] = sum[k - 1] + Up(ExactSizes(r)[k], PageSize)
    BY <2>1, <2>2
  <2>5. st[k + 1] = RoundUpToPage(AreaEnd(r, (k + 1) - 1, st[(k + 1) - 1]))
    BY <2>1, <2>3
  <2> QED
    BY <2>1, <2>4, <2>5
<1> DEFINE Good(k) == /\ sum[k] \in Nat /\ sum[k] % PageSize = 0
                      /\ st[k + 1] = IF sum[k] <= SizeMax THEN sum[k] ELSE Thrown
           Area(k) == ExactSizes(r)[k] \in Nat /\ sum[k - 1] + ExactSizes(r)[k] <= sum[k]
<1>6. Good(0)
  BY <1>0, <1>4
<1>7. ASSUME NEW k \in 1 .. n, Good(k - 1) PROVE Good(k) /\ Area(k)
  <2>1. PICK s, e, t : /\ s \in Nat /\ s = sum[k - 1] /\ s % PageSize = 0 /\ e = ExactSizes(r)[k]
                       /\ t = s + Up(e, PageSize)
    BY <1>7
  <2>2. st[k] = IF s <= SizeMax THEN s ELSE Thrown
    <3>1. (k - 1) + 1 = k
      OBVIOUS
    <3> QED
      BY <1>7, <2>1, <3>1
  <2>3. k \in 1 .. Len(ExactSizes(r))
    BY <1>1
  <2>4. /\ t \in Nat /\ t % PageSize = 0 /\ e \in Nat /\ s + e <= t
        /\ RoundUpToPage(AreaEnd(r, k, st[k])) = IF t <= SizeMax THEN t ELSE Thrown
    BY <2>1, <2>2, <2>3, NextStart
  <2>5. sum[k] = t /\ st[k + 1] = RoundUpToPage(AreaEnd(r, k, st[k]))
    BY <1>5, <2>1
  <2> QED
    BY <2>1, <2>4, <2>5
<1> HIDE DEF Good, Area
<1>8. \A k \in 1 .. 5 : k <= n /\ Good(k - 1) => Good(k) /\ Area(k)
  BY <1>7
<1>9. \A k \in 1 .. n : Good(k) /\ Area(k)
  <2>1. Good(1) /\ Area(1)
    BY <1>6, <1>8
  <2>2. 2 <= n => Good(2) /\ Area(2)
    BY <1>8, <2>1
  <2>3. 3 <= n => Good(3) /\ Area(3)
    BY <1>8, <2>2
  <2>4. 4 <= n => Good(4) /\ Area(4)
    BY <1>8, <2>3
  <2>5. 5 <= n => Good(5) /\ Area(5)
    BY <1>8, <2>4
  <2> QED
    BY <2>1, <2>2, <2>3, <2>4, <2>5
<1>10. \A k \in 0 .. n : Good(k)
  BY <1>6, <1>9
<1> QED
  BY <1>1, <1>2, <1>3, <1>4, <1>9, <1>10 DEF StartsExact, Good, Area

\* Sequences of the same numbers are equal.
LEMMA SameSeq ==
  ASSUME NEW p \in Seq(Int), NEW q \in Seq(Int), Len(p) = Len(q), \A k \in 1 .. Len(p) : p[k] = q[k]
  PROVE  p = q
OBVIOUS

\* The layout of a request is the one in numbers without a largest.
LEMMA LayoutExact ==
  ASSUME NEW r \in Requests
  PROVE  LET n == Len(ExactSizes(r))
             st == Starts(r)
             sz == AreaSizes(r)
         IN  /\ DOMAIN sz = 1 .. n /\ Len(sz) = n
             /\ st[n + 1] # Thrown <=> ExactTotal(r) <= SizeMax
             /\ st[n + 1] # Thrown =>
                  /\ sz = ExactSizes(r) /\ st[n + 1] = ExactTotal(r) /\ ExactTotal(r) \in 0 .. SizeMax
                  /\ \A k \in 1 .. n :
                       /\ st[k] % PageSize = 0 /\ st[k] + sz[k] <= ExactTotal(r)
                       /\ \A j \in 1 .. n : j < k => st[j] + sz[j] <= st[k]
<1>0. SizeMax \in Nat /\ PageSize \in Nat \ {0} /\ SizesFit(r) /\ Thrown = SizeMax + 1
  BY SizeAssumption, AreasFit DEF Thrown
<1>1. PICK y, z, n : /\ y = AreaSizes(r) /\ z = ExactSizes(r)
                     /\ n \in 1 .. 5 /\ n = Len(z) /\ n = Len(y)
                     /\ y \in Seq(Int) /\ z \in Seq(Int)
                     /\ \A k \in 1 .. n : Fits(y[k], z[k])
  BY <1>0 DEF SizesFit
<1>n. n \in 1 .. 5
  BY <1>1
<1>2. PICK sum : StartsExact(r, sum)
  BY AllStarts
<1>3. PICK st : st = Starts(r)
  OBVIOUS
<1>4. /\ sum[0] = 0 /\ sum[n] = ExactTotal(r)
      /\ \A k \in 0 .. n : /\ sum[k] \in Nat /\ sum[k] % PageSize = 0
                           /\ st[k + 1] = IF sum[k] <= SizeMax THEN sum[k] ELSE Thrown
      /\ \A k \in 1 .. n : z[k] \in Nat /\ sum[k - 1] + z[k] <= sum[k]
  BY <1>1, <1>2, <1>3 DEF StartsExact
<1>5. DOMAIN y = 1 .. n
  BY <1>1
<1>6. sum[n] \in Nat /\ (st[n + 1] # Thrown <=> sum[n] <= SizeMax)
  BY <1>0, <1>1, <1>4
<1>7. ASSUME sum[n] <= SizeMax
      PROVE  /\ y = z /\ st[n + 1] = sum[n]
             /\ \A k \in 1 .. n : /\ st[k] % PageSize = 0 /\ st[k] + y[k] <= sum[n]
                                  /\ \A j \in 1 .. n : j < k => st[j] + y[j] <= st[k]
  <2>1. \A k \in 1 .. n : sum[k - 1] \in Nat /\ sum[k] \in Nat /\ sum[k - 1] <= sum[k]
    <3>1. ASSUME NEW k \in 1 .. n PROVE sum[k - 1] \in Nat /\ sum[k] \in Nat /\ sum[k - 1] <= sum[k]
      <4>1. k - 1 \in 0 .. n /\ k \in 0 .. n
        BY <1>n
      <4> QED
        BY <1>4, <4>1
    <3> QED
      BY <3>1
  <2>2. \A i, j \in 0 .. n : i <= j => sum[i] <= sum[j]
    <3>1. /\ sum[0] \in Nat /\ sum[1] \in Nat /\ sum[0] <= sum[1]
          /\ 2 <= n => sum[2] \in Nat /\ sum[1] <= sum[2]
          /\ 3 <= n => sum[3] \in Nat /\ sum[2] <= sum[3]
          /\ 4 <= n => sum[4] \in Nat /\ sum[3] <= sum[4]
          /\ 5 <= n => sum[5] \in Nat /\ sum[4] <= sum[5]
      BY <1>1, <2>1
    <3>2. \A i \in 0 .. n : i = 0 \/ i = 1 \/ (i = 2 /\ 2 <= n) \/ (i = 3 /\ 3 <= n)
                            \/ (i = 4 /\ 4 <= n) \/ (i = 5 /\ 5 <= n)
      <4>1. n \in 1 .. 5
        BY <1>n
      <4>2. \A m \in 1 .. 5, i \in Int : i \in 0 .. m =>
              i = 0 \/ i = 1 \/ (i = 2 /\ 2 <= m) \/ (i = 3 /\ 3 <= m) \/ (i = 4 /\ 4 <= m) \/ (i = 5 /\ 5 <= m)
        OBVIOUS
      <4> QED
        BY <4>1, <4>2
    <3>3. ASSUME NEW i \in 0 .. n, NEW j \in 0 .. n, i <= j PROVE sum[i] <= sum[j]
      BY <1>n, <3>1, <3>2, <3>3
    <3> QED
      BY <3>3
  <2>3. ASSUME NEW k \in 1 .. n PROVE st[k] = sum[k - 1] /\ y[k] = z[k] /\ z[k] \in Nat
                                      /\ sum[k - 1] \in Nat /\ sum[k - 1] % PageSize = 0
                                      /\ sum[k - 1] + z[k] <= sum[k] /\ sum[k] <= sum[n]
    <3>1. k - 1 \in 0 .. n /\ k \in 0 .. n /\ n \in 0 .. n /\ (k - 1) + 1 = k
      BY <1>n
    <3>2. sum[k - 1] <= sum[n] /\ sum[k] <= sum[n]
      BY <2>2, <3>1
    <3>3. sum[k - 1] \in Nat /\ sum[k] \in Nat /\ sum[k - 1] % PageSize = 0
      BY <1>4, <3>1
    <3>4. st[(k - 1) + 1] = IF sum[k - 1] <= SizeMax THEN sum[k - 1] ELSE Thrown
      BY <1>4, <3>1
    <3>5. st[k] = sum[k - 1]
      BY <1>0, <1>6, <1>7, <3>1, <3>2, <3>3, <3>4
    <3>6. z[k] \in Nat /\ sum[k - 1] + z[k] <= sum[k]
      BY <1>4
    <3>7. z[k] <= SizeMax
      BY <1>0, <1>6, <1>7, <3>2, <3>3, <3>6
    <3>8. y[k] = z[k]
      BY <1>1, <3>7 DEF Fits
    <3> QED
      BY <3>2, <3>3, <3>5, <3>6, <3>8
  <2>4. y = z
    <3>1. \A k \in 1 .. Len(y) : y[k] = z[k]
      BY <1>1, <2>3
    <3> QED
      BY <1>1, <3>1, SameSeq
  <2>5. st[n + 1] = sum[n]
    BY <1>n, <1>4, <1>7
  <2>6. ASSUME NEW k \in 1 .. n
        PROVE  /\ st[k] % PageSize = 0 /\ st[k] + y[k] <= sum[n]
               /\ \A j \in 1 .. n : j < k => st[j] + y[j] <= st[k]
    <3>1. st[k] % PageSize = 0
      BY <2>3
    <3>2. st[k] + y[k] <= sum[n]
      BY <1>6, <2>1, <2>3
    <3>3. ASSUME NEW j \in 1 .. n, j < k PROVE st[j] + y[j] <= st[k]
      <4>1. j \in 0 .. n /\ k - 1 \in 0 .. n /\ j <= k - 1
        BY <1>n, <3>3
      <4>2. sum[j] <= sum[k - 1]
        BY <2>2, <4>1
      <4>3. st[j] + y[j] = sum[j - 1] + z[j] /\ sum[j - 1] + z[j] <= sum[j] /\ st[k] = sum[k - 1]
        BY <2>3
      <4> QED
        BY <2>1, <2>3, <4>2, <4>3
    <3> QED
      BY <3>1, <3>2, <3>3
  <2> QED
    BY <2>4, <2>5, <2>6
<1>8. sum[n] <= SizeMax => sum[n] \in 0 .. SizeMax
  BY <1>0, <1>6
<1> QED
  BY <1>1, <1>3, <1>4, <1>5, <1>6, <1>7, <1>8

\* The steps: a request is laid out once, and as LayoutExact says.
LEMMA LayoutStep == ASSUME MemoryLaidOut, [ComputeLayout]_mvars PROVE MemoryLaidOut'
<1>1. CASE UNCHANGED mvars
  BY <1>1 DEF MemoryLaidOut, MemoryTypeOK, AreasApart, MemoryEnded, NoLayout, mvars
<1>2. CASE ComputeLayout
  <2>1. request \in Requests /\ request' = request /\ SizeMax \in Nat
    BY <1>2, SizeAssumption DEF MemoryLaidOut, MemoryTypeOK, ComputeLayout
  <2>2. PICK sz, st, n : /\ sz = AreaSizes(request) /\ st = Starts(request) /\ n = Len(ExactSizes(request))
    OBVIOUS
  <2>3. /\ DOMAIN sz = 1 .. n /\ Len(sz) = n
        /\ st[n + 1] # Thrown <=> ExactTotal(request) <= SizeMax
        /\ st[n + 1] # Thrown =>
             /\ sz = ExactSizes(request) /\ st[n + 1] = ExactTotal(request)
             /\ ExactTotal(request) \in 0 .. SizeMax
             /\ \A k \in 1 .. n : /\ st[k] % PageSize = 0 /\ st[k] + sz[k] <= ExactTotal(request)
                                  /\ \A j \in 1 .. n : j < k => st[j] + sz[j] <= st[k]
    BY <2>1, <2>2, LayoutExact
  <2>4. layout' = IF Acceptable(request) /\ st[n + 1] # Thrown
                  THEN [starts |-> [k \in 1 .. n |-> st[k]], sizes |-> sz, total |-> st[n + 1], result |-> "laid_out"]
                  ELSE [NoLayout EXCEPT !.result = "thrown"]
    BY <1>2, <2>2, <2>3 DEF ComputeLayout
  <2>5. CASE Acceptable(request) /\ st[n + 1] # Thrown
    <3>1. /\ layout'.result = "laid_out" /\ layout'.sizes = sz /\ layout'.total = ExactTotal(request)
          /\ \A k \in 1 .. n : layout'.starts[k] = st[k]
      BY <2>3, <2>4, <2>5
    <3>2. DOMAIN layout'.sizes = 1 .. n
      BY <2>3, <3>1
    <3> QED
      BY <2>1, <2>3, <2>5, <3>1, <3>2 DEF MemoryLaidOut, MemoryTypeOK, AreasApart
  <2>6. CASE ~(Acceptable(request) /\ st[n + 1] # Thrown)
    <3>1. layout'.result = "thrown" /\ layout'.total = 0
      BY <2>4, <2>6 DEF NoLayout
    <3>2. ~(Acceptable(request) /\ ExactTotal(request) <= SizeMax)
      BY <2>3, <2>6
    <3> QED
      BY <2>1, <3>1, <3>2 DEF MemoryLaidOut, MemoryTypeOK, AreasApart
  <2> QED
    BY <2>5, <2>6
<1> QED
  BY <1>1, <1>2

\* MemoryLaidOut, for every largest size_t, page, queue, alignment and buffer.
THEOREM MemoryAlwaysLaidOut == MemorySpec => []MemoryLaidOut
<1>1. MemoryInit => MemoryLaidOut
  BY SizeAssumption DEF MemoryInit, MemoryLaidOut, MemoryTypeOK, AreasApart, MemoryEnded, NoLayout
<1>2. MemoryLaidOut /\ [ComputeLayout]_mvars => MemoryLaidOut'
  BY LayoutStep
<1> QED
  BY <1>1, <1>2, PTL DEF MemorySpec

----
\* The benchmark and the server.  A client has at most one operation under way,
\* at one place of the ring.  What is left of the bytes of the round, in
\* recv_buf, on its way back and on its way to the server, has kept its order:
\* each part rises, and no part overlaps the next.
BenchKinds == {"connect", "send", "recv"}
BenchOps   == [op : BenchKinds, id : BenchClients]

BenchRing ==
  /\ load \in (Nat \ {0}) \X (Nat \ {0})
  /\ bench_exit \in {"none", "0", "1"}
  /\ bench_exit = "none" \/ r_at # "start" => load[1] \in Peers
  /\ r_up = TRUE /\ r_at \in {"start", "submit", "wait", "cqe"}
  /\ r_sq \in Seq(BenchOps) /\ r_flight \subseteq BenchOps
  /\ r_cq \in Seq([op : BenchOps, res : Nat \cup {-1}])
  /\ r_ready \in Nat /\ r_ready <= Len(r_cq)

BenchData ==
  /\ events \subseteq Peers \cup {LISTENER} /\ clients \subseteq Peers /\ backlog \subseteq Peers
  /\ to_server \in [Peers -> Seq(Nat)] /\ to_client \in [Peers -> Seq(Nat)]
  /\ remaining \in [Peers -> 0 .. load[2]] /\ ok \in [Peers -> BOOLEAN]
  /\ send_off \in [Peers -> 0 .. MsgLen] /\ recv_off \in [Peers -> 0 .. MsgLen]
  /\ recv_buf \in [Peers -> [1 .. MsgLen -> Nat]] /\ echoed_bytes \in [Peers -> Nat]

BenchTyped == BenchRing /\ BenchData

OnePlace ==
  /\ \A j, k \in DOMAIN r_sq : r_sq[j].id = r_sq[k].id => j = k
  /\ \A j, k \in DOMAIN r_cq : r_cq[j].op.id = r_cq[k].op.id => j = k
  /\ \A o, p \in r_flight : o.id = p.id => o = p
  /\ \A o \in r_flight : /\ \A k \in DOMAIN r_sq : r_sq[k].id # o.id
                         /\ \A k \in DOMAIN r_cq : r_cq[k].op.id # o.id
  /\ \A j \in DOMAIN r_sq, k \in DOMAIN r_cq : r_sq[j].id # r_cq[k].op.id

Busy(c) == \/ \E k \in DOMAIN r_sq : r_sq[k].id = c
           \/ \E o \in r_flight : o.id = c
           \/ \E k \in DOMAIN r_cq : r_cq[k].op.id = c
Counted == {c \in BenchClients : ~Busy(c)}

\* The first n elements of s rise by one or more, above low and up to high.
Rises(s, n, low, high) ==
  /\ low <= high
  /\ \A k \in 1 .. n : low < s[k] /\ s[k] <= high
  /\ \A j, k \in 1 .. n : j < k => k - j <= s[k] - s[j]

\* n bytes of the echo are in recv_buf, sent bytes of the message are out.
InOrder(c, n, sent) ==
  \E a, b \in 0 .. MsgLen :
    /\ Rises(recv_buf[c], n, 0, a)
    /\ Rises(to_client[c], Len(to_client[c]), a, b)
    /\ Rises(to_server[c], Len(to_server[c]), b, sent)

\* Client c in the round of an operation, n bytes of which have been done.
InRound(kind, c, n) ==
  /\ ok[c] = TRUE /\ remaining[c] >= 1
  /\ IF kind = "recv"
     THEN /\ send_off[c] = MsgLen /\ recv_off[c] + n <= MsgLen
          /\ echoed_bytes[c] = (load[2] - remaining[c]) * MsgLen + recv_off[c] + n
          /\ InOrder(c, recv_off[c] + n, MsgLen)
     ELSE /\ send_off[c] + n <= MsgLen
          /\ echoed_bytes[c] = (load[2] - remaining[c]) * MsgLen
          /\ InOrder(c, 0, send_off[c] + n)

Completed(kind, c, res) ==
  \/ res < 0 /\ c \in hurt
  \/ res >= 0 /\ (res > 0 <=> kind # "connect") /\ InRound(kind, c, res)

Passed(c) == IF ok[c] THEN echoed_bytes[c] = load[2] * MsgLen ELSE c \in hurt

\* The operations the kernel has not completed, and the completions of the others.
Awaited == {r_sq[k] : k \in DOMAIN r_sq} \cup r_flight
BenchResults == {r_cq[k] : k \in DOMAIN r_cq}

BenchRounds ==
  /\ \A o \in Awaited : InRound(o.op, o.id, 0)
  /\ \A e \in BenchResults : Completed(e.op.op, e.op.id, e.res)
  /\ r_at # "start" => \A c \in Counted : Passed(c)

BenchStarts ==
  /\ r_sq = << >> /\ r_flight = {} /\ r_cq = << >> /\ clients_done = 0
  /\ bench_exit \in {"none", "1"}
  /\ bench_exit = "none" => \A c \in BenchClients : InRound("connect", c, 0) /\ send_off[c] = 0

BenchInv ==
  /\ BenchTyped /\ OnePlace /\ BenchRounds
  /\ r_at = "start" => BenchStarts
  /\ r_at # "start" => clients_done = Cardinality(Counted)
  /\ bench_exit = "0" => r_at # "start" /\ Counted = BenchClients

\* A rising part, further bounds; none of it.
LEMMA RisesWider ==
  ASSUME NEW s, NEW n \in Nat, NEW a \in Int, NEW b \in Int, NEW d \in Int, NEW e \in Int,
         \A k \in 1 .. n : s[k] \in Int, d <= a, b <= e, Rises(s, n, a, b)
  PROVE  Rises(s, n, d, e)
BY DEF Rises

\* A rising part can be cut anywhere.
LEMMA RisesCut ==
  ASSUME NEW s \in Seq(Nat), NEW m \in 0 .. Len(s), NEW a \in Int, NEW b \in Int,
         Rises(s, Len(s), a, b)
  PROVE  /\ SubSeq(s, 1, m) \in Seq(Nat) /\ Len(SubSeq(s, 1, m)) = m
         /\ SubSeq(s, m + 1, Len(s)) \in Seq(Nat)
         /\ Len(SubSeq(s, m + 1, Len(s))) = Len(s) - m
         /\ \A k \in 1 .. m : SubSeq(s, 1, m)[k] = s[k]
         /\ \A k \in 1 .. Len(s) - m : SubSeq(s, m + 1, Len(s))[k] = s[k + m]
         /\ \E e \in a .. b : /\ Rises(SubSeq(s, 1, m), m, a, e)
                              /\ Rises(SubSeq(s, m + 1, Len(s)), Len(s) - m, e, b)
<1> DEFINE u == SubSeq(s, 1, m)
           v == SubSeq(s, m + 1, Len(s))
           e == IF m = 0 THEN a ELSE s[m]
<1>0. Len(s) \in Nat /\ m \in Nat /\ m <= Len(s) /\ \A k \in 1 .. Len(s) : s[k] \in Nat
  OBVIOUS
<1>1. u \in Seq(Nat) /\ Len(u) = m /\ \A k \in 1 .. m : u[k] = s[k]
  BY <1>0
<1>2. v \in Seq(Nat) /\ Len(v) = Len(s) - m /\ \A k \in 1 .. Len(s) - m : v[k] = s[k + m]
  BY <1>0
<1>3. e \in a .. b
  BY <1>0 DEF Rises
<1>4. \A j, k \in 1 .. Len(s) : j < k => k - j <= s[k] - s[j]
  BY DEF Rises
<1>e. /\ \A k \in 1 .. m : a < s[k] /\ s[k] <= e
      /\ \A k \in 1 .. Len(s) - m : e < s[k + m] /\ s[k + m] <= b
  <2>1. \A k \in 1 .. Len(s) : a < s[k] /\ s[k] <= b /\ s[k] \in Nat
    BY <1>0 DEF Rises
  <2>2. \A k \in 1 .. m : k \in 1 .. Len(s) /\ m \in 1 .. Len(s)
    BY <1>0
  <2>3. \A k \in 1 .. Len(s) - m : k + m \in 1 .. Len(s) /\ (m # 0 => m \in 1 .. Len(s) /\ m < k + m)
    BY <1>0
  <2>4. ASSUME NEW k \in 1 .. m PROVE s[k] <= e
    <3>1. k < m => m - k <= s[m] - s[k]
      BY <1>4, <2>2
    <3> QED
      BY <1>0, <2>1, <2>2, <3>1
  <2>5. ASSUME NEW k \in 1 .. Len(s) - m PROVE e < s[k + m]
    <3>1. m # 0 => (k + m) - m <= s[k + m] - s[m]
      BY <1>4, <2>3
    <3> QED
      BY <1>0, <2>1, <2>3, <3>1
  <2> QED
    BY <2>1, <2>2, <2>3, <2>4, <2>5
<1> HIDE DEF u, v, e
<1>5. Rises(u, m, a, e)
  <2>1. \A k \in 1 .. m : k \in 1 .. Len(s)
    BY <1>0
  <2>2. \A j, k \in 1 .. m : j < k => k - j <= u[k] - u[j]
    BY <1>1, <1>4, <2>1
  <2>3. a <= e
    BY <1>3
  <2> QED
    BY <1>1, <1>e, <2>2, <2>3 DEF Rises
<1>6. Rises(v, Len(s) - m, e, b)
  <2>1. \A k \in 1 .. Len(s) - m : k + m \in 1 .. Len(s) /\ k \in Nat
    BY <1>0
  <2>3. ASSUME NEW j \in 1 .. Len(s) - m, NEW k \in 1 .. Len(s) - m, j < k
        PROVE  k - j <= v[k] - v[j]
    <3>1. (k + m) - (j + m) <= s[k + m] - s[j + m]
      BY <1>0, <1>4, <2>1, <2>3
    <3> QED
      BY <1>0, <1>2, <2>1, <3>1
  <2>4. e <= b
    BY <1>3
  <2> QED
    BY <1>2, <1>e, <2>3, <2>4 DEF Rises
<1> QED
  BY <1>1, <1>2, <1>3, <1>5, <1>6 DEF u, v

\* Two rising parts after one another.
LEMMA RisesThen ==
  ASSUME NEW p \in Nat, NEW q \in Nat, NEW s, NEW t, NEW u,
         \A k \in 1 .. p : s[k] \in Nat /\ u[k] = s[k],
         \A k \in 1 .. q : t[k] \in Nat,
         \A k \in 1 .. p + q : k > p => u[k] = t[k - p],
         NEW a \in Int, NEW e \in Int, NEW b \in Int, Rises(s, p, a, e), Rises(t, q, e, b)
  PROVE  Rises(u, p + q, a, b)
<1>0. /\ a <= e /\ e <= b
      /\ \A k \in 1 .. p : a < s[k] /\ s[k] <= e
      /\ \A k \in 1 .. q : e < t[k] /\ t[k] <= b
      /\ \A j, k \in 1 .. p : j < k => k - j <= s[k] - s[j]
      /\ \A j, k \in 1 .. q : j < k => k - j <= t[k] - t[j]
  BY DEF Rises
<1>s. (\A k \in 1 .. p : s[k] \in Nat) /\ (\A k \in 1 .. q : t[k] \in Nat)
  OBVIOUS
<1>1. /\ \A k \in 1 .. p : u[k] = s[k]
      /\ \A k \in 1 .. p + q : k > p => k - p \in 1 .. q /\ u[k] = t[k - p]
  OBVIOUS
<1>2. ASSUME NEW k \in 1 .. p + q PROVE a < u[k] /\ u[k] <= b
  <2>1. CASE k <= p
    <3>1. k \in 1 .. p
      BY <1>1, <2>1
    <3> QED
      BY <1>0, <1>1, <1>s, <3>1
  <2>2. CASE k > p
    <3>1. k - p \in 1 .. q /\ u[k] = t[k - p]
      BY <1>1, <2>2
    <3>2. e < t[k - p] /\ t[k - p] <= b /\ t[k - p] \in Nat
      BY <1>0, <1>s, <3>1
    <3> QED
      BY <1>0, <3>1, <3>2
  <2> QED
    BY <1>1, <2>1, <2>2
<1>3. ASSUME NEW j \in 1 .. p + q, NEW k \in 1 .. p + q, j < k
      PROVE  k - j <= u[k] - u[j]
  <2>0. /\ j \in Nat /\ k \in Nat /\ p \in Nat /\ q \in Nat /\ e \in Int
        /\ j \in 1 .. p + q /\ k \in 1 .. p + q
    BY <1>1
  <2>1. CASE k <= p
    <3>1. j \in 1 .. p /\ k \in 1 .. p
      BY <1>1, <1>3, <2>0, <2>1
    <3> QED
      BY <1>0, <1>1, <1>3, <3>1
  <2>2. CASE j > p
    <3>0. k > p /\ j - p < k - p
      BY <1>3, <2>0, <2>2
    <3>1. /\ k - p \in 1 .. q /\ j - p \in 1 .. q /\ j - p < k - p
          /\ u[k] = t[k - p] /\ u[j] = t[j - p]
      BY <1>1, <2>0, <2>2, <3>0
    <3>2. (k - p) - (j - p) <= t[k - p] - t[j - p]
      BY <1>0, <3>1
    <3>3. (k - p) - (j - p) = k - j
      BY <2>0
    <3> QED
      BY <3>1, <3>2, <3>3
  <2>3. CASE j <= p /\ k > p
    <3>x. k - p \in 1 .. q /\ u[k] = t[k - p]
      BY <1>1, <2>0, <2>3
    <3>y. j \in 1 .. p /\ p \in 1 .. p /\ 1 \in 1 .. q
      BY <2>0, <2>3, <3>x
    <3>0. /\ j \in 1 .. p /\ p \in 1 .. p /\ k - p \in 1 .. q /\ 1 \in 1 .. q
          /\ u[j] = s[j] /\ u[k] = t[k - p]
      BY <1>1, <3>x, <3>y
    <3>9. s[j] \in Nat /\ s[p] \in Nat /\ t[1] \in Nat /\ t[k - p] \in Nat
      BY <1>s, <3>0
    <3>1. PICK x \in Nat, y \in Nat, w \in Nat, z \in Nat :
             x = s[j] /\ y = s[p] /\ w = t[1] /\ z = t[k - p]
      BY <3>9
    <3>2. (j < p => p - j <= y - x) /\ y <= e /\ (j = p => x = y)
      BY <1>0, <3>0, <3>1
    <3>3. (1 < k - p => (k - p) - 1 <= z - w) /\ e < w /\ (k - p = 1 => z = w)
      BY <1>0, <3>0, <3>1
    <3>4. k - j <= z - x
      BY <2>0, <2>3, <3>2, <3>3
    <3> QED
      BY <3>0, <3>1, <3>4
  <2> QED
    BY <2>0, <2>1, <2>2, <2>3
<1>4. a <= b
  BY <1>0
<1> QED
  BY <1>2, <1>3, <1>4 DEF Rises

\* The same of two sequences.
LEMMA RisesJoin ==
  ASSUME NEW s \in Seq(Nat), NEW t \in Seq(Nat), NEW a \in Int, NEW e \in Int, NEW b \in Int,
         Rises(s, Len(s), a, e), Rises(t, Len(t), e, b)
  PROVE  s \o t \in Seq(Nat) /\ Rises(s \o t, Len(s \o t), a, b)
<1> DEFINE u == s \o t
<1>1. /\ Len(s) \in Nat /\ Len(t) \in Nat /\ Len(u) = Len(s) + Len(t) /\ u \in Seq(Nat)
      /\ \A k \in 1 .. Len(s) : s[k] \in Nat /\ u[k] = s[k]
      /\ \A k \in 1 .. Len(t) : t[k] \in Nat
      /\ \A k \in 1 .. Len(s) + Len(t) : k > Len(s) => u[k] = t[k - Len(s)]
  OBVIOUS
<1> HIDE DEF u
<1>2. Rises(u, Len(s) + Len(t), a, b)
  BY <1>1, RisesThen
<1> QED
  BY <1>1, <1>2 DEF u

\* Nothing rises between any bounds in order.
LEMMA RisesNone == ASSUME NEW s, NEW a \in Int, NEW b \in Int, a <= b PROVE Rises(s, 0, a, b)
BY DEF Rises

----
\* The bytes of the parts that InOrder speaks of are numbers.
LEMMA BytesAreNumbers ==
  ASSUME BenchTyped, NEW c \in Peers, NEW n \in 0 .. MsgLen
  PROVE  /\ MsgLen \in Nat \ {0} /\ n \in Nat
         /\ to_client[c] \in Seq(Nat) /\ to_server[c] \in Seq(Nat)
         /\ \A k \in 1 .. MsgLen : recv_buf[c][k] \in Nat
         /\ \A k \in 1 .. n : recv_buf[c][k] \in Nat
<1>1. MsgLen \in Nat \ {0}
  BY BenchAssumption
<1>2. recv_buf[c] \in [1 .. MsgLen -> Nat]
  BY DEF BenchTyped, BenchRing, BenchData
<1>3. to_client[c] \in Seq(Nat) /\ to_server[c] \in Seq(Nat)
  BY DEF BenchTyped, BenchRing, BenchData
<1>4. \A k \in 1 .. n : k \in 1 .. MsgLen
  BY <1>1
<1> QED
  BY <1>1, <1>2, <1>3, <1>4

\* The server reads m bytes and writes the first k of them, or none.
LEMMA OrderEchoed ==
  ASSUME BenchTyped, NEW c \in Peers, NEW n \in 0 .. MsgLen, NEW s \in 0 .. MsgLen,
         InOrder(c, n, s), recv_buf'[c] = recv_buf[c],
         NEW m \in 0 .. Len(to_server[c]), NEW k \in 0 .. m,
         to_server'[c] = SubSeq(to_server[c], m + 1, Len(to_server[c])),
         to_client'[c] = to_client[c] \o SubSeq(to_server[c], 1, k) \/ to_client'[c] = to_client[c]
  PROVE  /\ InOrder(c, n, s)'
         /\ to_server'[c] \in Seq(Nat) /\ to_client'[c] \in Seq(Nat)
<1> DEFINE q == to_server[c]
           r == to_client[c]
           t == SubSeq(q, 1, k)
           v == SubSeq(q, m + 1, Len(q))
<1>0. /\ MsgLen \in Nat /\ q \in Seq(Nat) /\ r \in Seq(Nat) /\ Len(q) \in Nat
      /\ k \in 0 .. Len(q) /\ m \in 0 .. Len(q) /\ s \in Int /\ k \in Nat /\ m \in Nat
      /\ Len(r) \in Nat
  BY BytesAreNumbers
<1>1. PICK a \in 0 .. MsgLen, b \in 0 .. MsgLen :
        Rises(recv_buf[c], n, 0, a) /\ Rises(r, Len(r), a, b) /\ Rises(q, Len(q), b, s)
  BY DEF InOrder
<1> HIDE DEF q, r
<1>2. b <= s
  BY <1>1 DEF Rises
<1>3. a \in Int /\ b \in Int
  BY <1>0
<1>4. /\ v \in Seq(Nat) /\ Len(v) = Len(q) - m
      /\ t \in Seq(Nat) /\ Len(t) = k
  BY <1>0, <1>1, <1>3, RisesCut
<1>5. PICK e \in b .. s : Rises(t, Len(t), b, e) /\ Rises(v, Len(v), e, s)
  <2>1. \E e \in b .. s : Rises(SubSeq(q, 1, m), m, b, e) /\ Rises(v, Len(q) - m, e, s)
    BY <1>0, <1>1, <1>3, RisesCut
  <2>2. PICK e \in b .. s : Rises(SubSeq(q, 1, m), m, b, e) /\ Rises(v, Len(q) - m, e, s)
    BY <2>1
  <2>3. \A j \in 1 .. m : SubSeq(q, 1, m)[j] = q[j]
    BY <1>0, <1>1, <1>3, RisesCut
  <2>4. \A j \in 1 .. k : t[j] = q[j]
    BY <1>0, <1>1, <1>3, RisesCut
  <2>5. \A j \in 1 .. k : j \in 1 .. m
    BY <1>0
  <2>6. Rises(t, k, b, e)
    <3>1. /\ b <= e
          /\ \A j \in 1 .. m : b < q[j] /\ q[j] <= e
          /\ \A i, j \in 1 .. m : i < j => j - i <= q[j] - q[i]
      BY <2>2, <2>3 DEF Rises
    <3> HIDE DEF t
    <3> QED
      BY <2>4, <2>5, <3>1 DEF Rises
  <2> QED
    BY <1>4, <2>2, <2>6
<1>6. e \in 0 .. MsgLen /\ e \in Int /\ b <= e
  <2>1. e \in Int /\ b <= e /\ e <= s
    BY <1>0, <1>3, <1>5
  <2>2. 0 <= b /\ s <= MsgLen
    BY <1>0
  <2> QED
    BY <1>0, <1>3, <2>1, <2>2
<1>7. to_server'[c] = v /\ to_client'[c] \in {r \o t, r}
  BY DEF q, r
<1> HIDE DEF t, v
<1>8. r \o t \in Seq(Nat) /\ Rises(r \o t, Len(r \o t), a, e)
  BY <1>0, <1>1, <1>3, <1>4, <1>5, <1>6, RisesJoin
<1>9. Rises(r, Len(r), a, e)
  <2>1. \A j \in 1 .. Len(r) : r[j] \in Int
    BY <1>0
  <2> QED
    BY <1>0, <1>1, <1>3, <1>6, <2>1, RisesWider
<1>10. Rises(recv_buf'[c], n, 0, a)
  BY <1>1
<1> QED
  BY <1>0, <1>4, <1>5, <1>6, <1>7, <1>8, <1>9, <1>10 DEF InOrder

\* What a connection carries when none of its bytes move.
LEMMA OrderStays ==
  ASSUME NEW c, NEW n, NEW s, InOrder(c, n, s), recv_buf'[c] = recv_buf[c],
         to_server'[c] = to_server[c], to_client'[c] = to_client[c]
  PROVE  InOrder(c, n, s)'
BY DEF InOrder

\* The places of m elements after the first s.
LEMMA PlacesAfter ==
  ASSUME NEW s \in Nat, NEW m \in Nat, NEW l \in Nat, s + m <= l
  PROVE  \A k \in 1 .. m : s + k \in 1 .. l
OBVIOUS

\* The places of m elements written after the first n.
LEMMA PlacesWritten ==
  ASSUME NEW n \in Nat, NEW m \in Nat, NEW l \in Nat, n + m <= l
  PROVE  \A k \in 1 .. n + m : k > n => k - n \in 1 .. m /\ k \in 1 .. l /\ k <= n + m
<1>1. ASSUME NEW k \in 1 .. n + m, k > n PROVE k - n \in 1 .. m /\ k \in 1 .. l /\ k <= n + m
  BY <1>1
<1> QED
  BY <1>1

\* The client's send of m bytes.
LEMMA OrderSent ==
  ASSUME BenchTyped, NEW c \in Peers, NEW n \in 0 .. MsgLen, NEW s \in Nat, NEW m \in Nat,
         s + m <= MsgLen, InOrder(c, n, s),
         recv_buf'[c] = recv_buf[c], to_client'[c] = to_client[c],
         to_server'[c] = to_server[c] \o SubSeq(Message, s + 1, s + m)
  PROVE  InOrder(c, n, s + m)' /\ to_server'[c] \in Seq(Nat)
<1> DEFINE q == to_server[c]
           t == SubSeq(Message, s + 1, s + m)
<1>0. MsgLen \in Nat /\ q \in Seq(Nat)
  BY BytesAreNumbers
<1>1. PICK a \in 0 .. MsgLen, b \in 0 .. MsgLen :
        /\ Rises(recv_buf[c], n, 0, a) /\ Rises(to_client[c], Len(to_client[c]), a, b)
        /\ Rises(q, Len(q), b, s)
  BY DEF InOrder
<1>2. Message \in Seq(Nat) /\ Len(Message) = MsgLen /\ \A k \in 1 .. MsgLen : Message[k] = k
  BY <1>0 DEF Message
<1>3. t \in Seq(Nat) /\ Len(t) = m /\ \A k \in 1 .. m : t[k] = s + k
  <2> HIDE DEF Message
  <2>1. \A k \in 1 .. m : s + k \in 1 .. MsgLen
    BY <1>0, PlacesAfter
  <2>2. t \in Seq(Nat) /\ Len(t) = m /\ \A k \in 1 .. m : t[k] = Message[s + k]
    BY <1>0, <1>2, <2>1
  <2> QED
    BY <1>2, <2>1, <2>2
<1>4. to_server'[c] = q \o t
  OBVIOUS
<1> HIDE DEF q, t
<1>5. Rises(t, Len(t), s, s + m)
  <2>1. s <= s + m /\ \A k \in 1 .. m : s < t[k] /\ t[k] <= s + m
    <3>1. ASSUME NEW k \in 1 .. m PROVE s < s + k /\ s + k <= s + m
      OBVIOUS
    <3>2. s <= s + m
      OBVIOUS
    <3> QED
      BY <1>3, <3>1, <3>2
  <2>2. ASSUME NEW j \in 1 .. m, NEW k \in 1 .. m PROVE k - j <= t[k] - t[j]
    <3>1. t[k] = s + k /\ t[j] = s + j
      BY <1>3
    <3>2. k - j <= (s + k) - (s + j)
      OBVIOUS
    <3> QED
      BY <3>1, <3>2
  <2> QED
    BY <1>3, <2>1, <2>2 DEF Rises
<1>6. q \o t \in Seq(Nat) /\ Rises(q \o t, Len(q \o t), b, s + m)
  BY <1>0, <1>1, <1>3, <1>5, RisesJoin
<1> QED
  BY <1>1, <1>4, <1>6 DEF InOrder

\* The client's receive of m bytes, after the first n.
LEMMA OrderReceived ==
  ASSUME BenchTyped, NEW c \in Peers, NEW n \in Nat, NEW s \in 0 .. MsgLen,
         NEW m \in 0 .. Len(to_client[c]), n + m <= MsgLen, InOrder(c, n, s),
         to_server'[c] = to_server[c],
         to_client'[c] = SubSeq(to_client[c], m + 1, Len(to_client[c])),
         recv_buf'[c] = [k \in 1 .. MsgLen |-> IF k > n /\ k <= n + m
                                              THEN to_client[c][k - n] ELSE recv_buf[c][k]]
  PROVE  InOrder(c, n + m, s)' /\ to_client'[c] \in Seq(Nat) /\ recv_buf'[c] \in [1 .. MsgLen -> Nat]
<1> DEFINE r == to_client[c]
           w == recv_buf[c]
           u == recv_buf'[c]
           v == SubSeq(r, m + 1, Len(r))
           t == SubSeq(r, 1, m)
<1>0. /\ MsgLen \in Nat /\ r \in Seq(Nat) /\ Len(r) \in Nat /\ m \in 0 .. Len(r) /\ m \in Nat /\ n \in 0 .. MsgLen
      /\ \A k \in 1 .. MsgLen : w[k] \in Nat
      /\ \A k \in 1 .. Len(r) : r[k] \in Nat
  <2>1. MsgLen \in Nat
    BY BenchAssumption
  <2>2. n \in 0 .. MsgLen /\ 0 \in 0 .. MsgLen
    BY <2>1
  <2>3. r \in Seq(Nat) /\ \A k \in 1 .. MsgLen : w[k] \in Nat
    BY <2>2, BytesAreNumbers
  <2> QED
    BY <2>1, <2>2, <2>3, SMTT(30)
<1>1. PICK a \in 0 .. MsgLen, b \in 0 .. MsgLen :
        /\ Rises(w, n, 0, a) /\ Rises(r, Len(r), a, b)
        /\ Rises(to_server[c], Len(to_server[c]), b, s)
  BY DEF InOrder
<1>2. a \in Int /\ b \in Int
  BY <1>0
<1> HIDE DEF r, w
<1>3. /\ t \in Seq(Nat) /\ Len(t) = m /\ \A k \in 1 .. m : t[k] = r[k]
      /\ v \in Seq(Nat) /\ Len(v) = Len(r) - m
      /\ \E e \in a .. b : Rises(t, m, a, e) /\ Rises(v, Len(r) - m, e, b)
  BY <1>0, <1>1, <1>2, RisesCut
<1> HIDE DEF t, v
<1>4. PICK e \in a .. b : Rises(t, m, a, e) /\ Rises(v, Len(r) - m, e, b)
  BY <1>3
<1>5. e \in 0 .. MsgLen /\ e \in Int
  BY <1>0, <1>2, <1>4
<1>6. u = [k \in 1 .. MsgLen |-> IF k > n /\ k <= n + m THEN r[k - n] ELSE w[k]]
  BY DEF r, w
<1>7. \A k \in 1 .. n : w[k] \in Nat /\ u[k] = w[k]
  <2>1. \A k \in 1 .. n : k \in 1 .. MsgLen /\ ~(k > n)
    BY <1>0
  <2> QED
    BY <1>0, <1>6, <2>1
<1>8. \A k \in 1 .. n + m : k > n => k - n \in 1 .. m /\ k \in 1 .. MsgLen /\ u[k] = t[k - n]
  <2>1. \A k \in 1 .. n + m : k > n => k - n \in 1 .. m /\ k \in 1 .. MsgLen /\ k <= n + m
    BY <1>0, PlacesWritten
  <2> QED
    BY <1>3, <1>6, <2>1
<1>9. \A k \in 1 .. m : t[k] \in Nat
  BY <1>3, SMTT(30)
<1>10. u \in [1 .. MsgLen -> Nat]
  <2>1. ASSUME NEW k \in 1 .. MsgLen, k > n, k <= n + m PROVE k - n \in 1 .. Len(r)
    <3>1. k - n \in 1 .. m /\ m <= Len(r)
      BY <1>0, <2>1
    <3> QED
      BY <1>0, <3>1
  <2>2. \A k \in 1 .. MsgLen : (IF k > n /\ k <= n + m THEN r[k - n] ELSE w[k]) \in Nat
    BY <1>0, <2>1
  <2> QED
    BY <1>6, <2>2
<1> HIDE DEF u
<1>11. Rises(u, n + m, 0, e)
  <2>1. \A k \in 1 .. n + m : k > n => u[k] = t[k - n]
    BY <1>8
  <2>2. Rises(w, n, 0, a) /\ Rises(t, m, a, e)
    BY <1>1, <1>4
  <2>3. m \in Nat /\ n \in Nat /\ 0 \in Int /\ a \in Int /\ e \in Int
    BY <1>0, <1>2, <1>5
  <2>4. \A k \in 1 .. m : t[k] \in Nat
    BY <1>9
  <2> QED
    BY <1>7, <2>1, <2>2, <2>3, <2>4, RisesThen, ZenonT(60)
<1>12. to_client'[c] = v
  BY DEF r, v
<1> QED
  BY <1>1, <1>3, <1>4, <1>5, <1>10, <1>11, <1>12 DEF InOrder, u

\* With the whole echo in, it is the message, and nothing is left on the way.
LEMMA WholeEchoInOrder ==
  ASSUME BenchTyped, NEW c \in Peers, InOrder(c, MsgLen, MsgLen)
  PROVE  recv_buf[c] = Message /\ to_client[c] = << >> /\ to_server[c] = << >>
<1> DEFINE w == recv_buf[c]
<1>0. /\ MsgLen \in Nat \ {0} /\ w \in [1 .. MsgLen -> Nat]
      /\ to_client[c] \in Seq(Nat) /\ to_server[c] \in Seq(Nat)
  BY BenchAssumption DEF BenchTyped, BenchRing, BenchData
<1>1. PICK a \in 0 .. MsgLen, b \in 0 .. MsgLen :
        /\ Rises(w, MsgLen, 0, a) /\ Rises(to_client[c], Len(to_client[c]), a, b)
        /\ Rises(to_server[c], Len(to_server[c]), b, MsgLen)
  BY DEF InOrder
<1> HIDE DEF w
<1>2. /\ \A k \in 1 .. MsgLen : w[k] \in Nat
      /\ \A k \in 1 .. MsgLen : 0 < w[k] /\ w[k] <= a
      /\ \A j, k \in 1 .. MsgLen : j < k => k - j <= w[k] - w[j]
  BY <1>0, <1>1 DEF Rises
<1>3. 1 \in 1 .. MsgLen /\ MsgLen \in 1 .. MsgLen
  BY <1>0
<1>4. ASSUME NEW k \in 1 .. MsgLen PROVE w[k] = k
  <2>1. PICK x \in Nat, y \in Nat, z \in Nat : x = w[1] /\ y = w[k] /\ z = w[MsgLen]
    BY <1>2, <1>3
  <2>2. 0 < x /\ z <= MsgLen
    BY <1>0, <1>2, <1>3, <2>1
  <2>3. (1 < k => k - 1 <= y - x) /\ (k = 1 => y = x)
    BY <1>2, <1>3, <2>1
  <2>4. (k < MsgLen => MsgLen - k <= z - y) /\ (k = MsgLen => z = y)
    BY <1>2, <1>3, <2>1
  <2>5. y = k
    BY <1>0, <2>2, <2>3, <2>4
  <2> QED
    BY <2>1, <2>5
<1>5. w = Message
  BY <1>0, <1>4 DEF Message
<1>6. a = MsgLen /\ b = MsgLen
  <2>1. w[MsgLen] <= a /\ w[MsgLen] = MsgLen
    BY <1>2, <1>3, <1>4
  <2>2. a <= b
    BY <1>1 DEF Rises
  <2> QED
    BY <1>0, <2>1, <2>2
<1>7. ASSUME NEW q \in Seq(Nat), Rises(q, Len(q), MsgLen, MsgLen) PROVE q = << >>
  <2>1. \A k \in 1 .. Len(q) : MsgLen < q[k] /\ q[k] <= MsgLen /\ q[k] \in Nat
    BY <1>7 DEF Rises
  <2>2. 1 \notin 1 .. Len(q)
    BY <1>0, <2>1
  <2> QED
    BY <2>2
<1> QED
  BY <1>0, <1>1, <1>5, <1>6, <1>7 DEF w

----
\* A round, a completion and a verdict stay when nothing of the client changes.
LEMMA RoundStays ==
  ASSUME NEW kind, NEW c, NEW n, InRound(kind, c, n), load' = load, ok'[c] = ok[c],
         remaining'[c] = remaining[c], send_off'[c] = send_off[c], recv_off'[c] = recv_off[c],
         echoed_bytes'[c] = echoed_bytes[c], recv_buf'[c] = recv_buf[c],
         to_server'[c] = to_server[c], to_client'[c] = to_client[c]
  PROVE  InRound(kind, c, n)'
BY DEF InRound, InOrder

\* See RoundStays.
LEMMA CompletionStays ==
  ASSUME NEW kind, NEW c, NEW n, Completed(kind, c, n), load' = load, ok'[c] = ok[c],
         remaining'[c] = remaining[c], send_off'[c] = send_off[c], recv_off'[c] = recv_off[c],
         echoed_bytes'[c] = echoed_bytes[c], recv_buf'[c] = recv_buf[c],
         to_server'[c] = to_server[c], to_client'[c] = to_client[c], hurt \subseteq hurt'
  PROVE  Completed(kind, c, n)'
<1>1. InRound(kind, c, n) => InRound(kind, c, n)'
  BY RoundStays
<1> QED
  BY <1>1 DEF Completed

\* See RoundStays.
LEMMA VerdictStays ==
  ASSUME NEW c, Passed(c), load' = load, ok'[c] = ok[c], echoed_bytes'[c] = echoed_bytes[c],
         hurt \subseteq hurt'
  PROVE  Passed(c)'
BY DEF Passed

\* submit moves the operations that were prepared to the kernel.
LEMMA BenchSubmits ==
  ASSUME BenchTyped, OnePlace, load' = load, Ring!Submit
  PROVE  /\ OnePlace' /\ \A c : Busy(c)' <=> Busy(c)
         /\ r_sq' = << >> /\ r_flight' \subseteq BenchOps /\ r_cq' = r_cq
         /\ \A o \in r_flight' : o \in r_flight \/ \E k \in DOMAIN r_sq : r_sq[k] = o
<1>1. /\ r_flight' = r_flight \cup {r_sq[k] : k \in DOMAIN r_sq} /\ r_sq' = << >>
      /\ r_cq' = r_cq
  BY DEF Ring!Submit, Ring!ToSet
<1>2. DOMAIN r_sq' = {}
  BY <1>1
<1>3. OnePlace'
  BY <1>1, <1>2 DEF OnePlace
<1>4. \A c : Busy(c)' <=> Busy(c)
  BY <1>1, <1>2 DEF Busy
<1>5. \A k \in DOMAIN r_sq : r_sq[k] \in BenchOps
  BY DEF BenchTyped, BenchRing, BenchData
<1> QED
  BY <1>1, <1>3, <1>4, <1>5 DEF BenchTyped, BenchRing, BenchData

\* The kernel completes operation o.
LEMMA BenchCompletes ==
  ASSUME BenchTyped, OnePlace, load' = load, NEW o, NEW res \in Nat \cup {-1}, Ring!Complete(o, res)
  PROVE  /\ OnePlace' /\ \A c : Busy(c)' <=> Busy(c)
         /\ o \in r_flight /\ o \in BenchOps
         /\ r_sq' = r_sq /\ r_flight' = r_flight \ {o}
         /\ r_cq' \in Seq([op : BenchOps, res : Nat \cup {-1}])
         /\ Len(r_cq') = Len(r_cq) + 1 /\ Len(r_cq) \in Nat
         /\ \A k \in DOMAIN r_cq' : \/ r_cq'[k] = [op |-> o, res |-> res]
                                    \/ k \in DOMAIN r_cq /\ r_cq'[k] = r_cq[k]
         /\ \A k \in DOMAIN r_sq : r_sq[k].id # o.id
         /\ \A k \in DOMAIN r_cq : r_cq[k].op.id # o.id
         /\ \A p \in r_flight : p.id = o.id => p = o
<1> DEFINE e == [op |-> o, res |-> res]
<1>1. /\ o \in r_flight /\ r_flight' = r_flight \ {o} /\ r_cq' = Append(r_cq, e) /\ r_sq' = r_sq
  BY DEF Ring!Complete
<1>2. o \in BenchOps /\ e \in [op : BenchOps, res : Nat \cup {-1}]
  BY <1>1 DEF BenchTyped, BenchRing, BenchData
<1>e. e.op = o
  OBVIOUS
<1> HIDE DEF e
<1>3. r_cq \in Seq([op : BenchOps, res : Nat \cup {-1}])
  BY DEF BenchTyped, BenchRing, BenchData
<1>4. /\ r_cq' \in Seq([op : BenchOps, res : Nat \cup {-1}])
      /\ Len(r_cq') = Len(r_cq) + 1 /\ Len(r_cq) \in Nat /\ r_cq'[Len(r_cq) + 1] = e
      /\ DOMAIN r_cq' = DOMAIN r_cq \cup {Len(r_cq) + 1}
      /\ \A k \in DOMAIN r_cq : r_cq'[k] = r_cq[k]
  BY <1>1, <1>2, <1>3
<1>5. /\ \A k \in DOMAIN r_sq : r_sq[k].id # o.id
      /\ \A k \in DOMAIN r_cq : r_cq[k].op.id # o.id
      /\ \A p \in r_flight : p.id = o.id => p = o
  BY <1>1 DEF OnePlace
<1>6. OnePlace'
  <2>1. \A j, k \in DOMAIN r_cq' : r_cq'[j].op.id = r_cq'[k].op.id => j = k
    BY <1>e, <1>4, <1>5 DEF OnePlace
  <2>2. \A p \in r_flight' : /\ \A k \in DOMAIN r_sq' : r_sq'[k].id # p.id
                             /\ \A k \in DOMAIN r_cq' : r_cq'[k].op.id # p.id
    BY <1>1, <1>e, <1>4, <1>5 DEF OnePlace
  <2>3. \A j \in DOMAIN r_sq', k \in DOMAIN r_cq' : r_sq'[j].id # r_cq'[k].op.id
    BY <1>1, <1>e, <1>4, <1>5 DEF OnePlace
  <2> QED
    BY <1>1, <2>1, <2>2, <2>3 DEF OnePlace
<1>7. \A c : Busy(c)' <=> Busy(c)
  <2>1. ASSUME NEW c, Busy(c) PROVE Busy(c)'
    <3>1. CASE \E p \in r_flight : p.id = c
      BY <1>1, <1>e, <1>4, <3>1 DEF Busy
    <3>2. CASE \E k \in DOMAIN r_cq : r_cq[k].op.id = c
      BY <1>4, <3>2 DEF Busy
    <3> QED
      BY <1>1, <2>1, <3>1, <3>2 DEF Busy
  <2>2. ASSUME NEW c, Busy(c)' PROVE Busy(c)
    BY <1>1, <1>e, <1>4, <2>2 DEF Busy
  <2> QED
    BY <2>1, <2>2
<1> QED
  BY <1>1, <1>2, <1>4, <1>5, <1>6, <1>7 DEF e

\* What a handler finds at the head of the completion queue.
LEMMA BenchPeeks ==
  ASSUME BenchTyped, OnePlace, NEW kind, Ring!Peek(kind)
  PROVE  /\ r_cq # << >> /\ 1 \in DOMAIN r_cq /\ r_cq[1] = Head(r_cq)
         /\ Ring!Op = r_cq[1].op /\ Ring!Res = r_cq[1].res /\ Id = r_cq[1].op.id
         /\ r_cq[1].op \in BenchOps /\ Id \in BenchClients /\ Ring!Op.op = kind
         /\ Ring!Res \in Nat \cup {-1} /\ Busy(Id)
         /\ r_at = "cqe" /\ load[1] \in Peers /\ Id \in Peers
         /\ r_ready \in Nat \ {0} /\ r_ready <= Len(r_cq)
<1>1. /\ r_cq \in Seq([op : BenchOps, res : Nat \cup {-1}]) /\ r_ready \in Nat
      /\ r_ready <= Len(r_cq) /\ load \in (Nat \ {0}) \X (Nat \ {0})
      /\ (r_at # "start" => load[1] \in Peers)
  BY DEF BenchTyped, BenchRing, BenchData
<1>2. r_at = "cqe" /\ r_ready > 0 /\ Head(r_cq).op.op = kind
  BY DEF Ring!Peek
<1>3. r_cq # << >> /\ 1 \in DOMAIN r_cq /\ r_cq[1] = Head(r_cq)
  BY <1>1, <1>2
<1>4. r_cq[1] \in [op : BenchOps, res : Nat \cup {-1}]
  <2> DEFINE C == [op : BenchOps, res : Nat \cup {-1}]
  <2>1. r_cq \in Seq(C) /\ 1 \in DOMAIN r_cq
    BY <1>1, <1>3
  <2> HIDE DEF C
  <2>2. r_cq[1] \in C
    BY <2>1
  <2> QED
    BY <2>2 DEF C
<1>5. Ring!Op = r_cq[1].op /\ Ring!Res = r_cq[1].res /\ Id = r_cq[1].op.id
  BY <1>3 DEF Ring!Op, Ring!Res, Id
<1>6. r_cq[1].op \in BenchOps /\ r_cq[1].op.id \in BenchClients
  BY <1>4 DEF BenchOps
<1>7. Busy(Id)
  BY <1>3, <1>5 DEF Busy
<1>8. Id \in Peers
  BY <1>1, <1>2, <1>5, <1>6, BenchAssumption, PeersAssumption, FS_CardinalityType DEF BenchClients
<1> QED
  BY <1>1, <1>2, <1>3, <1>4, <1>5, <1>6, <1>7, <1>8

\* The entries behind the one that is seen.
LEMMA BenchTail ==
  ASSUME BenchTyped, r_cq # << >>, r_cq' = Tail(r_cq)
  PROVE  /\ r_cq' \in Seq([op : BenchOps, res : Nat \cup {-1}]) /\ Len(r_cq') = Len(r_cq) - 1
         /\ Len(r_cq) \in Nat \ {0}
         /\ \A k \in DOMAIN r_cq' : k + 1 \in DOMAIN r_cq /\ k + 1 # 1 /\ r_cq'[k] = r_cq[k + 1]
         /\ \A k \in DOMAIN r_cq : k = 1 \/ (k - 1 \in DOMAIN r_cq' /\ r_cq'[k - 1] = r_cq[k])
<1>1. r_cq \in Seq([op : BenchOps, res : Nat \cup {-1}])
  BY DEF BenchTyped, BenchRing, BenchData
<1>2. /\ r_cq' \in Seq([op : BenchOps, res : Nat \cup {-1}]) /\ Len(r_cq') = Len(r_cq) - 1
      /\ Len(r_cq) \in Nat \ {0} /\ DOMAIN r_cq' = 1 .. Len(r_cq) - 1 /\ DOMAIN r_cq = 1 .. Len(r_cq)
      /\ \A k \in 1 .. Len(r_cq) - 1 : r_cq'[k] = r_cq[k + 1]
  BY <1>1
<1>3. \A k \in 1 .. Len(r_cq) - 1 : k + 1 \in 1 .. Len(r_cq) /\ k + 1 # 1
  BY <1>2
<1>4. \A k \in 1 .. Len(r_cq) : k = 1 \/ (k - 1 \in 1 .. Len(r_cq) - 1 /\ r_cq'[k - 1] = r_cq[k])
  <2>1. ASSUME NEW k \in 1 .. Len(r_cq), k # 1
        PROVE  k - 1 \in 1 .. Len(r_cq) - 1 /\ r_cq'[k - 1] = r_cq[k]
    <3>1. k - 1 \in 1 .. Len(r_cq) - 1 /\ (k - 1) + 1 = k
      BY <1>2, <2>1
    <3>2. r_cq'[k - 1] = r_cq[(k - 1) + 1]
      BY <1>2, <3>1
    <3> QED
      BY <3>1, <3>2
  <2> QED
    BY <2>1
<1> QED
  BY <1>2, <1>3, <1>4

\* No other entry of the ring is of the client whose completion is at the head.
LEMMA HeadAlone ==
  ASSUME BenchTyped, OnePlace, r_cq # << >>, r_cq' = Tail(r_cq)
  PROVE  /\ \A k \in DOMAIN r_sq : r_sq[k].id # r_cq[1].op.id
         /\ \A o \in r_flight : o.id # r_cq[1].op.id
         /\ \A k \in DOMAIN r_cq' : r_cq'[k].op.id # r_cq[1].op.id
<1>1. 1 \in DOMAIN r_cq
  BY BenchTail DEF BenchTyped, BenchRing, BenchData
<1>2. \A k \in DOMAIN r_cq' : k + 1 \in DOMAIN r_cq /\ k + 1 # 1 /\ r_cq'[k] = r_cq[k + 1]
  BY BenchTail
<1> QED
  BY <1>1, <1>2 DEF OnePlace

\* What is behind the head keeps apart.
LEMMA TailApart ==
  ASSUME BenchTyped, OnePlace, r_cq # << >>, r_cq' = Tail(r_cq)
  PROVE  /\ \A j, k \in DOMAIN r_cq' : r_cq'[j].op.id = r_cq'[k].op.id => j = k
         /\ \A o \in r_flight, k \in DOMAIN r_cq' : r_cq'[k].op.id # o.id
         /\ \A j \in DOMAIN r_sq, k \in DOMAIN r_cq' : r_sq[j].id # r_cq'[k].op.id
<1>1. \A k \in DOMAIN r_cq' : k + 1 \in DOMAIN r_cq /\ k + 1 # 1 /\ r_cq'[k] = r_cq[k + 1]
  BY BenchTail
<1>2. ASSUME NEW j \in DOMAIN r_cq', NEW k \in DOMAIN r_cq', r_cq'[j].op.id = r_cq'[k].op.id
      PROVE  j = k
  <2>1. r_cq[j + 1].op.id = r_cq[k + 1].op.id
    BY <1>1, <1>2
  <2>2. j + 1 = k + 1
    BY <1>1, <2>1 DEF OnePlace
  <2>3. j \in Nat /\ k \in Nat
    BY BenchTail
  <2> QED
    BY <2>2, <2>3
<1> QED
  BY <1>1, <1>2 DEF OnePlace

\* The handler prepares nothing: the client is done.
LEMMA BenchSeesLast ==
  ASSUME BenchTyped, OnePlace, load' = load, r_cq # << >>, r_cq' = Tail(r_cq),
         r_sq' = r_sq, r_flight' = r_flight
  PROVE  OnePlace' /\ \A c : Busy(c)' <=> (Busy(c) /\ c # r_cq[1].op.id)
<1>1. OnePlace'
  BY TailApart DEF OnePlace
<1>2. ASSUME NEW c, Busy(c)' PROVE Busy(c) /\ c # r_cq[1].op.id
  <2>1. \A k \in DOMAIN r_cq' : k + 1 \in DOMAIN r_cq /\ r_cq'[k] = r_cq[k + 1]
    BY BenchTail
  <2>2. Busy(c)
    BY <1>2, <2>1 DEF Busy
  <2>3. c # r_cq[1].op.id
    BY <1>2, HeadAlone DEF Busy
  <2> QED
    BY <2>2, <2>3
<1>3. ASSUME NEW c, Busy(c), c # r_cq[1].op.id PROVE Busy(c)'
  <2>1. \A k \in DOMAIN r_cq : k = 1 \/ (k - 1 \in DOMAIN r_cq' /\ r_cq'[k - 1] = r_cq[k])
    BY BenchTail
  <2>2. CASE \E k \in DOMAIN r_cq : r_cq[k].op.id = c
    BY <1>3, <2>1, <2>2 DEF Busy
  <2> QED
    BY <1>3, <2>2 DEF Busy
<1> QED
  BY <1>1, <1>2, <1>3

\* The handler prepares the client's next operation.
LEMMA BenchSeesNext ==
  ASSUME BenchTyped, OnePlace, load' = load, r_cq # << >>, r_cq' = Tail(r_cq),
         NEW o \in BenchOps, o.id = r_cq[1].op.id,
         r_sq' = r_sq \o <<o>>, r_flight' = r_flight
  PROVE  /\ OnePlace' /\ \A c : Busy(c)' <=> Busy(c)
         /\ r_sq' \in Seq(BenchOps)
         /\ \A k \in DOMAIN r_sq' : r_sq'[k] = o \/ (k \in DOMAIN r_sq /\ r_sq'[k] = r_sq[k])
<1>1. r_sq \in Seq(BenchOps)
  BY DEF BenchTyped, BenchRing, BenchData
<1>2. /\ r_sq' \in Seq(BenchOps) /\ Len(r_sq) \in Nat
      /\ DOMAIN r_sq' = DOMAIN r_sq \cup {Len(r_sq) + 1}
      /\ Len(r_sq) + 1 \notin DOMAIN r_sq
      /\ r_sq'[Len(r_sq) + 1] = o
      /\ \A k \in DOMAIN r_sq : r_sq'[k] = r_sq[k]
  <2> HIDE DEF BenchOps
  <2>1. <<o>> \in Seq(BenchOps) /\ Len(<<o>>) = 1 /\ <<o>>[1] = o
    OBVIOUS
  <2>2. r_sq' \in Seq(BenchOps) /\ Len(r_sq') = Len(r_sq) + 1 /\ Len(r_sq) \in Nat
    BY <1>1, <2>1
  <2>3. DOMAIN r_sq' = 1 .. Len(r_sq) + 1 /\ DOMAIN r_sq = 1 .. Len(r_sq)
    BY <1>1, <2>2
  <2>4. r_sq'[Len(r_sq) + 1] = o /\ \A k \in 1 .. Len(r_sq) : r_sq'[k] = r_sq[k]
    BY <1>1, <2>1, <2>2
  <2> QED
    BY <2>2, <2>3, <2>4
<1>3. \A k \in DOMAIN r_sq' : (k = Len(r_sq) + 1 /\ r_sq'[k] = o) \/ (k \in DOMAIN r_sq /\ r_sq'[k] = r_sq[k])
  BY <1>2
<1>4. OnePlace'
  <2>1. \A j, k \in DOMAIN r_sq' : r_sq'[j].id = r_sq'[k].id => j = k
    BY <1>3, HeadAlone DEF OnePlace
  <2>2. \A p \in r_flight' : \A k \in DOMAIN r_sq' : r_sq'[k].id # p.id
    BY <1>3, HeadAlone DEF OnePlace
  <2>3. \A j \in DOMAIN r_sq', k \in DOMAIN r_cq' : r_sq'[j].id # r_cq'[k].op.id
    BY <1>3, HeadAlone, TailApart
  <2>4. \A j, k \in DOMAIN r_cq' : r_cq'[j].op.id = r_cq'[k].op.id => j = k
    BY TailApart
  <2>5. \A p \in r_flight' : \A k \in DOMAIN r_cq' : r_cq'[k].op.id # p.id
    BY TailApart
  <2>6. \A p, q \in r_flight' : p.id = q.id => p = q
    BY DEF OnePlace
  <2> QED
    BY <2>1, <2>2, <2>3, <2>4, <2>5, <2>6 DEF OnePlace
<1>5. \A c : Busy(c)' <=> Busy(c)
  <2>1. ASSUME NEW c, Busy(c)' PROVE Busy(c)
    <3>1. \A k \in DOMAIN r_cq' : k + 1 \in DOMAIN r_cq /\ r_cq'[k] = r_cq[k + 1]
      BY BenchTail
    <3>2. 1 \in DOMAIN r_cq
      BY BenchTail DEF BenchTyped, BenchRing, BenchData
    <3>3. CASE \E k \in DOMAIN r_sq' : r_sq'[k].id = c
      BY <1>3, <3>2, <3>3 DEF Busy
    <3> QED
      BY <2>1, <3>1, <3>3 DEF Busy
  <2>2. ASSUME NEW c, Busy(c) PROVE Busy(c)'
    <3>1. \A k \in DOMAIN r_cq : k = 1 \/ (k - 1 \in DOMAIN r_cq' /\ r_cq'[k - 1] = r_cq[k])
      BY BenchTail
    <3>2. CASE \E k \in DOMAIN r_cq : r_cq[k].op.id = c
      <4>1. PICK k \in DOMAIN r_cq : r_cq[k].op.id = c
        BY <3>2
      <4>2. CASE k = 1
        BY <1>2, <4>1, <4>2 DEF Busy
      <4>3. CASE k # 1
        BY <3>1, <4>1, <4>3 DEF Busy
      <4> QED
        BY <4>2, <4>3
    <3>3. CASE \E k \in DOMAIN r_sq : r_sq[k].id = c
      BY <1>2, <3>3 DEF Busy
    <3> QED
      BY <2>2, <3>2, <3>3 DEF Busy
  <2> QED
    BY <2>1, <2>2
<1> QED
  BY <1>2, <1>3, <1>4, <1>5

\* What is prepared for the clients is no more than they are: there is room for
\* one more, and for all at the start.
LEMMA BenchFits ==
  ASSUME BenchTyped, OnePlace, load[1] \in Peers
  PROVE  /\ Cardinality(Peers) \in Nat \ {0} /\ Len(r_sq) \in Nat
         /\ BenchClients \subseteq Peers /\ load[1] \in Nat \ {0} /\ load[1] <= Cardinality(Peers)
         /\ IsFiniteSet(BenchClients) /\ Cardinality(BenchClients) = load[1]
         /\ Len(r_sq) <= load[1] /\ Len(r_sq) + 1 <= 2 * Cardinality(Peers)
<1>1. Peers = 1 .. Cardinality(Peers) /\ IsFiniteSet(Peers) /\ Cardinality(Peers) \in Nat
  BY BenchAssumption, PeersAssumption, FS_CardinalityType
<1>2. load[1] \in Nat \ {0} /\ load[1] <= Cardinality(Peers) /\ BenchClients \subseteq Peers
  BY <1>1 DEF BenchTyped, BenchRing, BenchData, BenchClients
<1>3. IsFiniteSet(BenchClients) /\ Cardinality(BenchClients) = load[1]
  BY <1>2, FS_Interval, SMTT(30) DEF BenchClients
<1>4. r_sq \in Seq(BenchOps) /\ Len(r_sq) \in Nat /\ DOMAIN r_sq = 1 .. Len(r_sq)
  BY DEF BenchTyped, BenchRing, BenchData
<1>5. \A k \in DOMAIN r_sq : r_sq[k].id \in BenchClients
  <2>1. \A k \in DOMAIN r_sq : r_sq[k] \in BenchOps
    BY <1>4
  <2> QED
    BY <2>1 DEF BenchOps
<1>6. Len(r_sq) <= load[1]
  <2> DEFINE g == [k \in 1 .. Len(r_sq) |-> r_sq[k].id]
  <2>1. g \in [1 .. Len(r_sq) -> BenchClients]
    BY <1>4, <1>5
  <2>2. \A j, k \in 1 .. Len(r_sq) : g[j] = g[k] => j = k
    BY <1>4 DEF OnePlace
  <2>3. IsFiniteSet(1 .. Len(r_sq)) /\ Cardinality(1 .. Len(r_sq)) = Len(r_sq)
    BY <1>4, FS_Interval
  <2> HIDE DEF g
  <2>4. ~(Cardinality(BenchClients) < Cardinality(1 .. Len(r_sq)))
    BY <1>3, <2>1, <2>2, <2>3, FS_PigeonHole
  <2> QED
    BY <1>2, <1>3, <1>4, <2>3, <2>4
<1> QED
  BY <1>1, <1>2, <1>3, <1>4, <1>6

----
\* Nothing changes for the clients other than i.
Elsewhere(i) ==
  \A c \in Peers : c # i =>
    /\ ok'[c] = ok[c] /\ remaining'[c] = remaining[c]
    /\ send_off'[c] = send_off[c] /\ recv_off'[c] = recv_off[c]
    /\ echoed_bytes'[c] = echoed_bytes[c] /\ recv_buf'[c] = recv_buf[c]
    /\ to_server'[c] = to_server[c] /\ to_client'[c] = to_client[c]

\* See Elsewhere.
LEMMA ElsewhereStays ==
  ASSUME NEW i, Elsewhere(i), load' = load, hurt \subseteq hurt', NEW c \in Peers, c # i
  PROVE  /\ \A kind, n : InRound(kind, c, n) => InRound(kind, c, n)'
         /\ \A kind, n : Completed(kind, c, n) => Completed(kind, c, n)'
         /\ Passed(c) => Passed(c)'
<1>1. /\ ok'[c] = ok[c] /\ remaining'[c] = remaining[c]
      /\ send_off'[c] = send_off[c] /\ recv_off'[c] = recv_off[c]
      /\ echoed_bytes'[c] = echoed_bytes[c] /\ recv_buf'[c] = recv_buf[c]
      /\ to_server'[c] = to_server[c] /\ to_client'[c] = to_client[c]
  BY DEF Elsewhere
<1>2. ASSUME NEW kind, NEW n, InRound(kind, c, n) PROVE InRound(kind, c, n)'
  BY <1>1, <1>2, RoundStays
<1>3. ASSUME NEW kind, NEW n, Completed(kind, c, n) PROVE Completed(kind, c, n)'
  BY <1>1, <1>3, CompletionStays
<1>4. ASSUME Passed(c) PROVE Passed(c)'
  BY <1>1, <1>4, VerdictStays
<1> QED
  BY <1>2, <1>3, <1>4

\* Whose the entries of the ring are.
LEMMA EntriesOfClients ==
  ASSUME BenchTyped
  PROVE  /\ \A k \in DOMAIN r_sq : r_sq[k] \in BenchOps /\ r_sq[k].id \in BenchClients
         /\ \A o \in r_flight : o \in BenchOps /\ o.id \in BenchClients
         /\ \A k \in DOMAIN r_cq : /\ r_cq[k].op \in BenchOps /\ r_cq[k].op.id \in BenchClients
                                   /\ r_cq[k].res \in Nat \cup {-1}
<1> DEFINE C == [op : BenchOps, res : Nat \cup {-1}]
<1>1. r_sq \in Seq(BenchOps) /\ r_flight \subseteq BenchOps /\ r_cq \in Seq(C)
  BY DEF BenchTyped, BenchRing
<1> HIDE DEF C
<1>2. /\ \A k \in DOMAIN r_sq : r_sq[k] \in BenchOps
      /\ \A k \in DOMAIN r_cq : r_cq[k] \in C
  BY <1>1
<1>3. \A k \in DOMAIN r_cq : r_cq[k].op \in BenchOps /\ r_cq[k].res \in Nat \cup {-1}
  BY <1>2 DEF C
<1>4. \A o \in BenchOps : o.id \in BenchClients
  BY DEF BenchOps
<1> QED
  BY <1>1, <1>2, <1>3, <1>4

\* A handler goes on with its client's next operation, for which there is room.
LEMMA HandlerPrepares ==
  ASSUME BenchInv, NEW kind, Handles(kind), Ring!Seen, NEW o \in BenchOps, o.id = Id,
         Ring!Prepare(<<o>>), load' = load, clients_done' = clients_done, hurt' = hurt,
         bench_exit' = bench_exit, Elsewhere(Id), BenchData', InRound(o.op, o.id, 0)'
  PROVE  BenchInv'
<1>0. BenchTyped /\ OnePlace /\ BenchRounds /\ bench_exit = "none"
  BY DEF BenchInv, Handles
<1>1. /\ r_cq # << >> /\ 1 \in DOMAIN r_cq /\ r_at = "cqe" /\ load[1] \in Peers
      /\ Id = r_cq[1].op.id /\ r_ready \in Nat \ {0} /\ r_ready <= Len(r_cq)
  BY <1>0, BenchPeeks DEF Handles
<1>2. r_cq' = Tail(r_cq) /\ r_ready' = r_ready - 1 /\ r_at' = r_at /\ r_flight' = r_flight
  BY DEF Ring!Seen
<1>3. r_sq' = r_sq \o <<o>> /\ r_up' = r_up
  <2>1. Len(r_sq) + 1 <= 2 * Cardinality(Peers)
    BY <1>0, <1>1, BenchFits
  <2>2. Len(<<o>>) = 1
    OBVIOUS
  <2> QED
    BY <2>1, <2>2 DEF Ring!Prepare
<1>4. /\ OnePlace' /\ \A c : Busy(c)' <=> Busy(c)
      /\ r_sq' \in Seq(BenchOps)
      /\ \A k \in DOMAIN r_sq' : r_sq'[k] = o \/ (k \in DOMAIN r_sq /\ r_sq'[k] = r_sq[k])
  BY <1>0, <1>1, <1>2, <1>3, BenchSeesNext
<1>5. /\ r_cq' \in Seq([op : BenchOps, res : Nat \cup {-1}]) /\ Len(r_cq') = Len(r_cq) - 1
      /\ Len(r_cq) \in Nat \ {0}
      /\ \A k \in DOMAIN r_cq' : k + 1 \in DOMAIN r_cq /\ r_cq'[k] = r_cq[k + 1]
  BY <1>0, <1>1, <1>2, BenchTail
<1>6. BenchClients' = BenchClients /\ BenchOps' = BenchOps /\ Counted' = Counted
  BY <1>4 DEF BenchClients, BenchOps, Counted
<1>7. BenchTyped'
  <2>1. r_ready' \in Nat /\ r_ready' <= Len(r_cq')
    BY <1>1, <1>2, <1>5
  <2>2. BenchRing'
    BY <1>0, <1>2, <1>3, <1>4, <1>5, <1>6, <2>1 DEF BenchTyped, BenchRing
  <2> QED
    BY <2>2 DEF BenchTyped
<1>8. BenchClients \subseteq Peers
  BY <1>0, <1>1, BenchFits
<1>9. /\ \A k \in DOMAIN r_sq : r_sq[k].id # Id
      /\ \A p \in r_flight : p.id # Id
      /\ \A k \in DOMAIN r_cq' : r_cq'[k].op.id # Id
  BY <1>0, <1>1, <1>2, HeadAlone
<1>10. BenchRounds'
  <2>1. \A p \in Awaited' : InRound(p.op, p.id, 0)'
    <3> SUFFICES ASSUME NEW p \in Awaited' PROVE InRound(p.op, p.id, 0)'
      OBVIOUS
    <3>1. p = o \/ (p \in Awaited /\ p.id \in Peers /\ p.id # Id)
      BY <1>0, <1>2, <1>4, <1>8, <1>9, EntriesOfClients DEF Awaited
    <3>2. CASE p \in Awaited /\ p.id \in Peers /\ p.id # Id
      <4>1. InRound(p.op, p.id, 0)
        BY <1>0, <3>2 DEF BenchRounds
      <4> QED
        BY <3>2, <4>1, ElsewhereStays
    <3> QED
      BY <3>1, <3>2
  <2>3. \A e \in BenchResults' : Completed(e.op.op, e.op.id, e.res)'
    <3> SUFFICES ASSUME NEW e \in BenchResults' PROVE Completed(e.op.op, e.op.id, e.res)'
      OBVIOUS
    <3>1. e \in BenchResults /\ e.op.id \in Peers /\ e.op.id # Id
      BY <1>0, <1>5, <1>8, <1>9, EntriesOfClients DEF BenchResults
    <3>2. Completed(e.op.op, e.op.id, e.res)
      BY <1>0, <3>1 DEF BenchRounds
    <3> QED
      BY <3>1, <3>2, ElsewhereStays
  <2>4. \A c \in Counted' : Passed(c)'
    <3> SUFFICES ASSUME NEW c \in Counted PROVE Passed(c)'
      BY <1>6
    <3>1. c # Id /\ c \in Peers /\ Passed(c)
      <4>1. Busy(Id)
        BY <1>1 DEF Busy
      <4> QED
        BY <1>0, <1>1, <1>8, <4>1 DEF BenchRounds, Counted
    <3> QED
      BY <3>1, ElsewhereStays
  <2> QED
    BY <2>1, <2>3, <2>4 DEF BenchRounds
<1> QED
  BY <1>0, <1>1, <1>2, <1>4, <1>6, <1>7, <1>10 DEF BenchInv

\* A handler that prepares nothing counts its client, once.
LEMMA HandlerCounts ==
  ASSUME BenchInv, NEW kind, Handles(kind), Ring!Seen, UNCHANGED <<r_up, r_sq>>,
         load' = load, ClientDone, hurt' = hurt, bench_exit' = bench_exit,
         Elsewhere(Id), BenchData', NEW i, i = Id, Passed(i)'
  PROVE  BenchInv'
<1>0. BenchTyped /\ OnePlace /\ BenchRounds /\ bench_exit = "none"
  BY DEF BenchInv, Handles
<1>1. /\ r_cq # << >> /\ 1 \in DOMAIN r_cq /\ r_at = "cqe" /\ load[1] \in Peers
      /\ Id = r_cq[1].op.id /\ r_ready \in Nat \ {0} /\ r_ready <= Len(r_cq)
      /\ Id \in BenchClients /\ Busy(Id)
  BY <1>0, BenchPeeks DEF Handles
<1>2. /\ r_cq' = Tail(r_cq) /\ r_ready' = r_ready - 1 /\ r_at' = r_at /\ r_flight' = r_flight
      /\ r_sq' = r_sq /\ r_up' = r_up /\ clients_done' = clients_done + 1
  BY DEF Ring!Seen, ClientDone
<1>4. OnePlace' /\ \A c : Busy(c)' <=> (Busy(c) /\ c # i)
  BY <1>0, <1>1, <1>2, BenchSeesLast
<1>5. /\ r_cq' \in Seq([op : BenchOps, res : Nat \cup {-1}]) /\ Len(r_cq') = Len(r_cq) - 1
      /\ Len(r_cq) \in Nat \ {0}
      /\ \A k \in DOMAIN r_cq' : k + 1 \in DOMAIN r_cq /\ r_cq'[k] = r_cq[k + 1]
  BY <1>0, <1>1, <1>2, BenchTail
<1>6. BenchClients' = BenchClients /\ BenchOps' = BenchOps
  BY DEF BenchClients, BenchOps
<1>a. i \in BenchClients /\ Busy(i)
  BY <1>1
<1>b. Counted' = Counted \cup {i} /\ i \notin Counted
  BY <1>4, <1>6, <1>a DEF Counted
<1>7. BenchTyped'
  <2>1. r_ready' \in Nat /\ r_ready' <= Len(r_cq')
    BY <1>1, <1>2, <1>5
  <2>2. BenchRing'
    BY <1>0, <1>2, <1>5, <1>6, <2>1 DEF BenchTyped, BenchRing
  <2> QED
    BY <2>2 DEF BenchTyped
<1>8. BenchClients \subseteq Peers /\ IsFiniteSet(BenchClients)
  BY <1>0, <1>1, BenchFits
<1>9. /\ \A k \in DOMAIN r_sq : r_sq[k].id # i
      /\ \A p \in r_flight : p.id # i
      /\ \A k \in DOMAIN r_cq' : r_cq'[k].op.id # i
  BY <1>0, <1>1, <1>2, HeadAlone
<1>10. BenchRounds'
  <2>0. Elsewhere(i)
    OBVIOUS
  <2>1. \A p \in Awaited' : InRound(p.op, p.id, 0)'
    <3> SUFFICES ASSUME NEW p \in Awaited' PROVE InRound(p.op, p.id, 0)'
      OBVIOUS
    <3>1. p \in Awaited /\ p.id \in Peers /\ p.id # i
      BY <1>0, <1>2, <1>8, <1>9, EntriesOfClients DEF Awaited
    <3>2. InRound(p.op, p.id, 0)
      BY <1>0, <3>1 DEF BenchRounds
    <3> QED
      BY <2>0, <3>1, <3>2, ElsewhereStays
  <2>3. \A e \in BenchResults' : Completed(e.op.op, e.op.id, e.res)'
    <3> SUFFICES ASSUME NEW e \in BenchResults' PROVE Completed(e.op.op, e.op.id, e.res)'
      OBVIOUS
    <3>1. e \in BenchResults /\ e.op.id \in Peers /\ e.op.id # i
      BY <1>0, <1>5, <1>8, <1>9, EntriesOfClients DEF BenchResults
    <3>2. Completed(e.op.op, e.op.id, e.res)
      BY <1>0, <3>1 DEF BenchRounds
    <3> QED
      BY <2>0, <3>1, <3>2, ElsewhereStays
  <2>4. \A c \in Counted' : Passed(c)'
    <3> SUFFICES ASSUME NEW c \in Counted, c # i PROVE Passed(c)'
      BY <1>b
    <3>1. c \in Peers /\ Passed(c)
      BY <1>0, <1>1, <1>8 DEF BenchRounds, Counted
    <3> QED
      BY <2>0, <3>1, ElsewhereStays
  <2> QED
    BY <2>1, <2>3, <2>4 DEF BenchRounds
<1>11. clients_done' = Cardinality(Counted')
  <2>1. IsFiniteSet(Counted)
    BY <1>8, FS_Subset DEF Counted
  <2>2. Cardinality(Counted') = Cardinality(Counted) + 1
    BY <1>b, <2>1, FS_AddElement
  <2> QED
    BY <1>1, <1>2, <2>2 DEF BenchInv
<1> QED
  BY <1>0, <1>1, <1>2, <1>4, <1>7, <1>10, <1>11 DEF BenchInv

\* The kernel completes operation o with result res.
LEMMA KernelCompletes ==
  ASSUME BenchInv, NEW o, NEW res \in Nat \cup {-1}, bench_exit = "none", Ring!Complete(o, res),
         UNCHANGED <<load, clients_done, bench_exit>>, hurt \subseteq hurt',
         Elsewhere(o.id), BenchData', Completed(o.op, o.id, res)'
  PROVE  BenchInv'
<1>0. BenchTyped /\ OnePlace /\ BenchRounds /\ bench_exit = "none"
  BY DEF BenchInv
<1>1. /\ OnePlace' /\ \A c : Busy(c)' <=> Busy(c)
      /\ o \in r_flight /\ o \in BenchOps
      /\ r_sq' = r_sq /\ r_flight' = r_flight \ {o}
      /\ r_cq' \in Seq([op : BenchOps, res : Nat \cup {-1}])
      /\ Len(r_cq') = Len(r_cq) + 1 /\ Len(r_cq) \in Nat
      /\ \A k \in DOMAIN r_cq' : \/ r_cq'[k] = [op |-> o, res |-> res]
                                 \/ k \in DOMAIN r_cq /\ r_cq'[k] = r_cq[k]
      /\ \A k \in DOMAIN r_sq : r_sq[k].id # o.id
      /\ \A k \in DOMAIN r_cq : r_cq[k].op.id # o.id
      /\ \A p \in r_flight : p.id = o.id => p = o
  BY <1>0, BenchCompletes
<1>2. r_up' = r_up /\ r_at' = r_at /\ r_ready' = r_ready
  BY DEF Ring!Complete
<1>3. r_at # "start"
  BY <1>1 DEF BenchInv, BenchStarts
<1>4. load[1] \in Peers
  BY <1>0 DEF BenchTyped, BenchRing
<1>6. BenchClients' = BenchClients /\ BenchOps' = BenchOps /\ Counted' = Counted
  BY <1>1 DEF BenchClients, BenchOps, Counted
<1>7. BenchTyped'
  <2>0. BenchRing
    BY <1>0 DEF BenchTyped
  <2>1. r_ready' \in Nat /\ r_ready' <= Len(r_cq')
    BY <1>1, <1>2, <2>0 DEF BenchRing
  <2>2. BenchRing'
    BY <1>0, <1>1, <1>2, <1>4, <1>6, <2>0, <2>1 DEF BenchRing
  <2> QED
    BY <2>2 DEF BenchTyped
<1>8. BenchClients \subseteq Peers
  BY <1>0, <1>4, BenchFits
<1>10. BenchRounds'
  <2>1. \A p \in Awaited' : InRound(p.op, p.id, 0)'
    <3> SUFFICES ASSUME NEW p \in Awaited' PROVE InRound(p.op, p.id, 0)'
      OBVIOUS
    <3>1. p \in Awaited /\ p.id \in Peers /\ p.id # o.id
      BY <1>0, <1>1, <1>8, EntriesOfClients DEF Awaited
    <3>2. InRound(p.op, p.id, 0)
      BY <1>0, <3>1 DEF BenchRounds
    <3> QED
      BY <3>1, <3>2, ElsewhereStays
  <2>3. \A e \in BenchResults' : Completed(e.op.op, e.op.id, e.res)'
    <3> SUFFICES ASSUME NEW e \in BenchResults' PROVE Completed(e.op.op, e.op.id, e.res)'
      OBVIOUS
    <3>1. CASE e = [op |-> o, res |-> res]
      <4>1. e.op = o /\ e.res = res
        BY <3>1
      <4> QED
        BY <4>1
    <3>2. CASE e \in BenchResults
      <4>1. e.op.id \in Peers /\ e.op.id # o.id
        BY <1>0, <1>1, <1>8, <3>2, EntriesOfClients DEF BenchResults
      <4>2. Completed(e.op.op, e.op.id, e.res)
        BY <1>0, <3>2 DEF BenchRounds
      <4> QED
        BY <4>1, <4>2, ElsewhereStays
    <3> QED
      BY <1>1, <3>1, <3>2 DEF BenchResults
  <2>4. \A c \in Counted' : Passed(c)'
    <3> SUFFICES ASSUME NEW c \in Counted PROVE Passed(c)'
      BY <1>6
    <3>0. o.id \in BenchClients /\ Busy(o.id)
      BY <1>0, <1>1, EntriesOfClients DEF Busy
    <3>1. c # o.id /\ c \in Peers /\ Passed(c)
      BY <1>0, <1>3, <1>8, <3>0 DEF BenchRounds, Counted
    <3> QED
      BY <3>1, ElsewhereStays
  <2> QED
    BY <2>1, <2>3, <2>4 DEF BenchRounds
<1> QED
  BY <1>0, <1>1, <1>2, <1>3, <1>6, <1>7, <1>10 DEF BenchInv

----
\* What a handler knows of its client.
LEMMA HandlerKnows ==
  ASSUME BenchInv, NEW kind, Handles(kind)
  PROVE  \E i \in Peers, n \in Nat \cup {-1} :
           /\ i = Id /\ n = Ring!Res /\ Completed(kind, i, n)
           /\ \A next \in BenchKinds : BenchOp(next, i) \in BenchOps
<1>0. BenchTyped /\ OnePlace /\ BenchRounds /\ Ring!Peek(kind)
  BY DEF BenchInv, Handles
<1>1. /\ 1 \in DOMAIN r_cq /\ Ring!Op = r_cq[1].op /\ Ring!Res = r_cq[1].res /\ Id = r_cq[1].op.id
      /\ Id \in BenchClients /\ Id \in Peers /\ Ring!Op.op = kind /\ Ring!Res \in Nat \cup {-1}
  BY <1>0, BenchPeeks
<1>2. Completed(r_cq[1].op.op, r_cq[1].op.id, r_cq[1].res)
  <2>1. r_cq[1] \in BenchResults
    BY <1>1 DEF BenchResults
  <2> QED
    BY <1>0, <2>1 DEF BenchRounds
<1>3. \A next \in BenchKinds : BenchOp(next, Id) \in BenchOps
  BY <1>1 DEF BenchOp, BenchOps
<1> QED
  BY <1>1, <1>2, <1>3

\* The types of what a benchmark and its server hold.
LEMMA DataFacts ==
  ASSUME BenchInv
  PROVE  /\ BenchData /\ MsgLen \in Nat \ {0} /\ load[2] \in Nat \ {0} /\ load[1] \in Nat \ {0}
         /\ \A c \in Peers : /\ remaining[c] \in Nat /\ remaining[c] <= load[2]
                             /\ send_off[c] \in Nat /\ send_off[c] <= MsgLen
                             /\ recv_off[c] \in Nat /\ recv_off[c] <= MsgLen
                             /\ echoed_bytes[c] \in Nat /\ ok[c] \in BOOLEAN
<1>1. BenchData /\ load \in (Nat \ {0}) \X (Nat \ {0}) /\ MsgLen \in Nat \ {0}
  BY BenchAssumption DEF BenchInv, BenchTyped, BenchRing
<1>2. load[2] \in Nat \ {0} /\ load[1] \in Nat \ {0}
  BY <1>1
<1> QED
  BY <1>1, <1>2 DEF BenchData

\* OP_CONNECT.
LEMMA ConnectKeeps == ASSUME BenchInv, HandleConnect PROVE BenchInv'
<1>1. /\ Handles("connect") /\ Ring!Seen /\ UNCHANGED <<evars, load, remaining, send_off, recv_off,
                                          recv_buf, echoed_bytes, hurt, bench_exit>>
  BY DEF HandleConnect
<1>2. PICK i \in Peers, n \in Nat \cup {-1} :
        /\ i = Id /\ n = Ring!Res /\ Completed("connect", i, n)
        /\ \A next \in BenchKinds : BenchOp(next, i) \in BenchOps
  BY <1>1, HandlerKnows
<1>3. BenchData
  BY DataFacts
<1>4. CASE Ring!Res < 0
  <2>1. ok' = [ok EXCEPT ![i] = FALSE] /\ ClientDone /\ UNCHANGED <<r_up, r_sq>>
    BY <1>2, <1>4 DEF HandleConnect
  <2>2. i \in hurt
    BY <1>2, <1>4 DEF Completed
  <2>3. ok'[i] = FALSE /\ ok' \in [Peers -> BOOLEAN]
    BY <1>3, <2>1 DEF BenchData
  <2>4. BenchData'
    BY <1>1, <1>3, <2>3 DEF BenchData, evars, stream
  <2>5. Passed(i)'
    BY <1>1, <2>2, <2>3 DEF Passed
  <2>6. Elsewhere(Id)
    BY <1>1, <1>2, <1>3, <2>1 DEF Elsewhere, evars, stream, BenchData
  <2> QED
    BY <1>1, <1>2, <2>1, <2>4, <2>5, <2>6, HandlerCounts
<1>5. CASE ~(Ring!Res < 0)
  <2> DEFINE o == BenchOp("send", i)
  <2>1. Ring!Prepare(<<o>>) /\ UNCHANGED <<ok, clients_done>>
    BY <1>2, <1>5 DEF HandleConnect
  <2>2. n = 0 /\ InRound("connect", i, 0)
    BY <1>2, <1>5 DEF Completed
  <2>3. InRound("send", i, 0)
    BY <2>2 DEF InRound
  <2>4. InRound("send", i, 0)'
    BY <1>1, <2>1, <2>3, RoundStays DEF evars, stream
  <2>5. BenchData'
    BY <1>1, <1>3, <2>1 DEF BenchData, evars, stream
  <2>6. Elsewhere(Id)
    BY <1>1, <2>1 DEF Elsewhere, evars, stream
  <2>7. o.op = "send" /\ o.id = i /\ o \in BenchOps
    BY <1>2 DEF BenchOp, BenchKinds
  <2> HIDE DEF o
  <2>8. InRound(o.op, o.id, 0)'
    BY <2>4, <2>7
  <2> QED
    BY <1>1, <1>2, <2>1, <2>5, <2>6, <2>7, <2>8, HandlerPrepares
<1> QED
  BY <1>4, <1>5

\* OP_SEND or OP_RECV with res <= 0.
LEMMA BrokenKeeps == ASSUME BenchInv, HandleBroken PROVE BenchInv'
<1>0. PICK kind \in {"send", "recv"} : Handles(kind)
  BY DEF HandleBroken
<1>1. /\ Ring!Res <= 0 /\ Ring!Seen /\ ok' = [ok EXCEPT ![Id] = FALSE] /\ ClientDone
      /\ UNCHANGED <<serving, events, clients, backlog, stream, closed, shortened, load, r_up, r_sq,
                 remaining, send_off, recv_off, recv_buf, echoed_bytes, hurt, bench_exit>>
  BY DEF HandleBroken
<1>2. PICK i \in Peers, n \in Nat \cup {-1} :
        /\ i = Id /\ n = Ring!Res /\ Completed(kind, i, n)
        /\ \A next \in BenchKinds : BenchOp(next, i) \in BenchOps
  BY <1>0, HandlerKnows
<1>3. BenchData
  BY DataFacts
<1>4. i \in hurt
  BY <1>1, <1>2 DEF Completed
<1>5. ok'[i] = FALSE /\ ok' \in [Peers -> BOOLEAN]
  BY <1>1, <1>2, <1>3 DEF BenchData
<1>6. BenchData'
  BY <1>1, <1>3, <1>5 DEF BenchData, stream
<1>7. Passed(i)'
  BY <1>1, <1>4, <1>5 DEF Passed
<1>8. Elsewhere(Id)
  BY <1>1, <1>2, <1>3 DEF Elsewhere, stream, BenchData
<1> QED
  BY <1>0, <1>1, <1>2, <1>6, <1>7, <1>8, HandlerCounts

\* OP_SEND.
LEMMA SentKeeps == ASSUME BenchInv, HandleSent PROVE BenchInv'
<1>1. /\ Handles("send") /\ Ring!Res > 0 /\ Ring!Seen
      /\ send_off' = [send_off EXCEPT ![Id] = @ + Ring!Res]
      /\ UNCHANGED <<evars, load, remaining, ok, recv_buf, clients_done, echoed_bytes, hurt, bench_exit>>
  BY DEF HandleSent
<1>2. PICK i \in Peers, n \in Nat \cup {-1} :
        /\ i = Id /\ n = Ring!Res /\ Completed("send", i, n)
        /\ \A next \in BenchKinds : BenchOp(next, i) \in BenchOps
  BY <1>1, HandlerKnows
<1>3. BenchData
  BY DataFacts
<1>4. /\ n \in Nat \ {0} /\ ok[i] = TRUE /\ remaining[i] >= 1
      /\ send_off[i] + n <= MsgLen /\ send_off[i] \in Nat /\ MsgLen \in Nat
      /\ echoed_bytes[i] = (load[2] - remaining[i]) * MsgLen
      /\ InOrder(i, 0, send_off[i] + n)
  BY <1>1, <1>2, DataFacts DEF Completed, InRound
<1>5. send_off'[i] = send_off[i] + n /\ send_off'[i] \in 0 .. MsgLen
  BY <1>1, <1>2, <1>3, <1>4 DEF BenchData
<1>6. send_off' \in [Peers -> 0 .. MsgLen] /\ \A c \in Peers : c # i => send_off'[c] = send_off[c]
  BY <1>1, <1>2, <1>3, <1>5 DEF BenchData
<1>7. PICK x \in Nat : x = send_off[i] + n
  BY <1>4
<1>8. InOrder(i, 0, x)'
  <2>1. InOrder(i, 0, x)
    BY <1>4, <1>7
  <2> QED
    BY <1>1, <2>1, OrderStays DEF evars, stream
<1>9. CASE send_off'[Id] < MsgLen
  <2> DEFINE o == BenchOp("send", i)
  <2>1. Ring!Prepare(<<o>>) /\ UNCHANGED recv_off
    BY <1>2, <1>9 DEF HandleSent
  <2>2. InRound("send", i, 0)'
    BY <1>1, <1>2, <1>4, <1>5, <1>7, <1>8 DEF InRound, InOrder
  <2>5. BenchData'
    BY <1>1, <1>3, <1>6, <2>1 DEF BenchData, evars, stream
  <2>6. Elsewhere(Id)
    BY <1>1, <1>2, <1>6, <2>1 DEF Elsewhere, evars, stream
  <2>7. o.op = "send" /\ o.id = i /\ o \in BenchOps
    BY <1>2 DEF BenchOp, BenchKinds
  <2> HIDE DEF o
  <2>8. InRound(o.op, o.id, 0)'
    BY <2>2, <2>7
  <2> QED
    BY <1>1, <1>2, <2>1, <2>5, <2>6, <2>7, <2>8, HandlerPrepares
<1>10. CASE ~(send_off'[Id] < MsgLen)
  <2> DEFINE o == BenchOp("recv", i)
  <2>1. Ring!Prepare(<<o>>) /\ recv_off' = [recv_off EXCEPT ![i] = 0]
    BY <1>2, <1>10 DEF HandleSent
  <2>2. /\ recv_off'[i] = 0 /\ recv_off' \in [Peers -> 0 .. MsgLen]
        /\ \A c \in Peers : c # i => recv_off'[c] = recv_off[c]
    BY <1>3, <1>4, <2>1 DEF BenchData
  <2>3. send_off'[i] = MsgLen /\ x = MsgLen
    BY <1>2, <1>4, <1>5, <1>7, <1>10
  <2>4. InRound("recv", i, 0)'
    <3>1. InOrder(i, 0, MsgLen)'
      BY <1>8, <2>3
    <3>2. recv_off'[i] + 0 = 0 /\ recv_off'[i] + 0 <= MsgLen
      BY <1>4, <2>2
    <3>3. InOrder(i, recv_off[i] + 0, MsgLen)'
      BY <3>1, <3>2 DEF InOrder
    <3>4. echoed_bytes'[i] = (load'[2] - remaining'[i]) * MsgLen + recv_off'[i] + 0
      <4>1. echoed_bytes[i] \in Nat
        BY DataFacts
      <4>2. PICK y \in Nat : y = echoed_bytes[i]
        BY <4>1
      <4>3. y = (load'[2] - remaining'[i]) * MsgLen
        BY <1>1, <1>4, <4>2
      <4>4. echoed_bytes'[i] = y
        BY <1>1, <4>2
      <4> QED
        BY <2>2, <4>3, <4>4
    <3> QED
      BY <1>1, <1>4, <2>3, <3>2, <3>3, <3>4 DEF InRound
  <2>5. BenchData'
    BY <1>1, <1>3, <1>6, <2>2 DEF BenchData, evars, stream
  <2>6. Elsewhere(Id)
    BY <1>1, <1>2, <1>6, <2>2 DEF Elsewhere, evars, stream
  <2>7. o.op = "recv" /\ o.id = i /\ o \in BenchOps
    BY <1>2 DEF BenchOp, BenchKinds
  <2> HIDE DEF o
  <2>8. InRound(o.op, o.id, 0)'
    BY <2>4, <2>7
  <2> QED
    BY <1>1, <1>2, <2>1, <2>5, <2>6, <2>7, <2>8, HandlerPrepares
<1> QED
  BY <1>9, <1>10

\* OP_RECV of a part of the echo.
LEMMA PartKeeps == ASSUME BenchInv, HandlePart PROVE BenchInv'
<1> DEFINE o(c) == BenchOp("recv", c)
<1>1. /\ Handles("recv") /\ Ring!Res > 0 /\ ~WholeEcho /\ Ring!Seen
      /\ recv_off' = [recv_off EXCEPT ![Id] = @ + Ring!Res]
      /\ Ring!Prepare(<<BenchOp("recv", Id)>>)
      /\ UNCHANGED <<evars, load, remaining, ok, send_off, recv_buf, clients_done,
                     echoed_bytes, hurt, bench_exit>>
  BY DEF HandlePart
<1>2. PICK i \in Peers, n \in Nat \cup {-1} :
        /\ i = Id /\ n = Ring!Res /\ Completed("recv", i, n)
        /\ \A next \in BenchKinds : BenchOp(next, i) \in BenchOps
  BY <1>1, HandlerKnows
<1>3. BenchData
  BY DataFacts
<1>4. /\ n \in Nat \ {0} /\ ok[i] = TRUE /\ remaining[i] >= 1
      /\ recv_off[i] + n <= MsgLen /\ recv_off[i] \in Nat /\ MsgLen \in Nat
      /\ send_off[i] = MsgLen
      /\ echoed_bytes[i] = (load[2] - remaining[i]) * MsgLen + recv_off[i] + n
      /\ InOrder(i, recv_off[i] + n, MsgLen)
      /\ load[2] \in Nat /\ remaining[i] \in Nat
  BY <1>1, <1>2, DataFacts DEF Completed, InRound
<1>5. PICK x \in Nat : x = recv_off[i] + n
  BY <1>4
<1>6. InOrder(i, x, MsgLen)'
  <2>1. InOrder(i, x, MsgLen)
    BY <1>4, <1>5
  <2> QED
    BY <1>1, <2>1, OrderStays DEF evars, stream
<1>7. /\ recv_off'[i] = x /\ x <= MsgLen /\ recv_off' \in [Peers -> 0 .. MsgLen]
      /\ \A c \in Peers : c # i => recv_off'[c] = recv_off[c]
  <2>1. recv_off'[i] = x /\ x \in 0 .. MsgLen
    BY <1>1, <1>2, <1>3, <1>4, <1>5 DEF BenchData
  <2> QED
    BY <1>1, <1>2, <1>3, <1>4, <2>1 DEF BenchData
<1>8. InRound("recv", i, 0)'
  <2>1. recv_off'[i] + 0 = x
    BY <1>7
  <2>2. InOrder(i, recv_off[i] + 0, MsgLen)'
    BY <1>6, <2>1 DEF InOrder
  <2>3. echoed_bytes'[i] = (load'[2] - remaining'[i]) * MsgLen + recv_off'[i] + 0
    <3>1. PICK y \in Int : y = (load[2] - remaining[i]) * MsgLen
      BY <1>4
    <3>2. echoed_bytes'[i] = y + recv_off[i] + n
      BY <1>1, <1>4, <3>1
    <3>3. (load'[2] - remaining'[i]) * MsgLen = y
      BY <1>1, <3>1
    <3>4. y + recv_off[i] + n = y + x + 0
      BY <1>4, <1>5
    <3> QED
      BY <1>7, <3>2, <3>3, <3>4
  <2> QED
    BY <1>1, <1>4, <1>7, <2>1, <2>2, <2>3 DEF InRound
<1>9. BenchData'
  BY <1>1, <1>3, <1>7 DEF BenchData, evars, stream
<1>10. Elsewhere(Id)
  BY <1>1, <1>2, <1>7 DEF Elsewhere, evars, stream
<1>11. o(i).op = "recv" /\ o(i).id = i /\ o(i) \in BenchOps
  BY <1>2 DEF BenchOp, BenchKinds
<1>12. Ring!Prepare(<<o(i)>>)
  BY <1>1, <1>2
<1> HIDE DEF o
<1>13. InRound(o(i).op, o(i).id, 0)'
  BY <1>8, <1>11
<1> QED
  BY <1>1, <1>2, <1>9, <1>10, <1>11, <1>12, <1>13, HandlerPrepares

\* OP_RECV of the whole echo.
LEMMA EchoKeeps == ASSUME BenchInv, HandleEcho PROVE BenchInv'
<1>1. /\ Handles("recv") /\ Ring!Res > 0 /\ WholeEcho /\ Ring!Seen
      /\ recv_off' = [recv_off EXCEPT ![Id] = @ + Ring!Res]
      /\ ok' = [ok EXCEPT ![Id] = @ /\ recv_buf[Id] = Message]
      /\ remaining' = [remaining EXCEPT ![Id] = @ - 1]
      /\ UNCHANGED <<serving, events, clients, backlog, stream, closed, shortened, load,
                     recv_buf, echoed_bytes, hurt, bench_exit>>
  BY DEF HandleEcho
<1>2. PICK i \in Peers, n \in Nat \cup {-1} :
        /\ i = Id /\ n = Ring!Res /\ Completed("recv", i, n)
        /\ \A next \in BenchKinds : BenchOp(next, i) \in BenchOps
  BY <1>1, HandlerKnows
<1>3. BenchData
  BY DataFacts
<1>4. /\ n \in Nat \ {0} /\ ok[i] = TRUE /\ remaining[i] >= 1
      /\ recv_off[i] + n <= MsgLen /\ recv_off[i] \in Nat /\ MsgLen \in Nat \ {0}
      /\ echoed_bytes[i] = (load[2] - remaining[i]) * MsgLen + recv_off[i] + n
      /\ InOrder(i, recv_off[i] + n, MsgLen)
      /\ load[2] \in Nat /\ remaining[i] \in Nat /\ remaining[i] <= load[2]
  BY <1>1, <1>2, DataFacts DEF Completed, InRound
<1>5. recv_off[i] + n = MsgLen
  <2>1. recv_off[i] + n >= MsgLen
    BY <1>1, <1>2 DEF WholeEcho
  <2>2. PICK x \in Nat, y \in Nat, m \in Nat : x = recv_off[i] /\ y = n /\ m = MsgLen
    BY <1>4
  <2>3. x + y <= m
    BY <1>4, <2>2
  <2>4. x + y >= m
    BY <2>1, <2>2
  <2>5. x + y = m
    BY <2>3, <2>4
  <2> QED
    BY <2>2, <2>5
<1>6. BenchTyped /\ InOrder(i, MsgLen, MsgLen)
  BY <1>4, <1>5 DEF BenchInv
<1>7. recv_buf[i] = Message /\ to_client[i] = << >> /\ to_server[i] = << >>
  BY <1>6, WholeEchoInOrder
<1>8. /\ recv_off' \in [Peers -> 0 .. MsgLen]
      /\ \A c \in Peers : c # i => recv_off'[c] = recv_off[c]
  <2>1. recv_off'[i] = MsgLen /\ MsgLen \in 0 .. MsgLen
    BY <1>1, <1>2, <1>3, <1>4, <1>5 DEF BenchData
  <2> QED
    BY <1>1, <1>2, <1>3, <1>4, <2>1 DEF BenchData
<1>9. /\ ok'[i] = TRUE /\ ok' \in [Peers -> BOOLEAN]
      /\ \A c \in Peers : c # i => ok'[c] = ok[c]
  BY <1>1, <1>2, <1>3, <1>4, <1>7 DEF BenchData
<1>10. /\ remaining'[i] = remaining[i] - 1 /\ remaining' \in [Peers -> 0 .. load[2]]
       /\ \A c \in Peers : c # i => remaining'[c] = remaining[c]
  <2>1. remaining[i] - 1 \in 0 .. load[2]
    BY <1>4
  <2> QED
    BY <1>1, <1>2, <1>3, <1>4, <2>1 DEF BenchData
<1>11. echoed_bytes'[i] = (load[2] - remaining'[i]) * MsgLen
  <2>1. PICK l \in Nat, r \in Nat, m \in Nat : l = load[2] /\ r = remaining[i] /\ m = MsgLen
    BY <1>4
  <2>2. (l - (r - 1)) * m = (l - r) * m + m
    <3>1. PICK d \in Int : d = l - r
      BY <2>1
    <3>2. (d + 1) * m = d * m + m
      OBVIOUS
    <3>3. l - (r - 1) = d + 1
      BY <3>1
    <3> QED
      BY <3>1, <3>2, <3>3
  <2>3. echoed_bytes[i] = (l - r) * m + m
    <3>1. PICK y \in Int : y = (l - r) * m
      BY <2>1
    <3>2. echoed_bytes[i] = y + recv_off[i] + n
      BY <1>4, <2>1, <3>1
    <3> QED
      BY <1>4, <1>5, <2>1, <3>1, <3>2
  <2> QED
    BY <1>1, <1>10, <2>1, <2>2, <2>3
<1>12. CASE remaining'[Id] <= 0 \/ ~ok'[Id]
  <2>1. ClientDone /\ UNCHANGED <<r_up, r_sq, send_off>>
    BY <1>12 DEF HandleEcho
  <2>2. remaining'[i] = 0
    BY <1>2, <1>4, <1>9, <1>10, <1>12
  <2>3. echoed_bytes'[i] = load[2] * MsgLen
    BY <1>4, <1>11, <2>2
  <2>4. Passed(i)'
    BY <1>1, <1>9, <2>3 DEF Passed
  <2>5. BenchData'
    BY <1>1, <1>3, <1>8, <1>9, <1>10, <2>1 DEF BenchData, stream
  <2>6. Elsewhere(Id)
    BY <1>1, <1>2, <1>8, <1>9, <1>10, <2>1 DEF Elsewhere, stream
  <2> QED
    BY <1>1, <1>2, <2>1, <2>4, <2>5, <2>6, HandlerCounts
<1>13. CASE ~(remaining'[Id] <= 0 \/ ~ok'[Id])
  <2> DEFINE o == BenchOp("send", i)
  <2>1. /\ Ring!Prepare(<<o>>) /\ send_off' = [send_off EXCEPT ![i] = 0]
        /\ UNCHANGED <<gone, clients_done>>
    BY <1>2, <1>13 DEF HandleEcho
  <2>2. remaining'[i] >= 1
    BY <1>2, <1>4, <1>10, <1>13
  <2>3. /\ send_off'[i] = 0 /\ send_off' \in [Peers -> 0 .. MsgLen]
        /\ \A c \in Peers : c # i => send_off'[c] = send_off[c]
    BY <1>3, <1>4, <2>1 DEF BenchData
  <2>4. InOrder(i, 0, 0)'
    <3>1. to_client'[i] = << >> /\ to_server'[i] = << >> /\ Len(<< >>) = 0 /\ 0 \in 0 .. MsgLen
      BY <1>1, <1>4, <1>7 DEF stream
    <3>2. \A s : Rises(s, 0, 0, 0)
      BY RisesNone
    <3> QED
      BY <3>1, <3>2 DEF InOrder
  <2>5. InRound("send", i, 0)'
    <3>1. send_off'[i] + 0 = 0 /\ 0 <= MsgLen
      BY <1>4, <2>3
    <3>2. InOrder(i, 0, send_off[i] + 0)'
      BY <2>4, <3>1 DEF InOrder
    <3> QED
      BY <1>1, <1>9, <1>11, <2>2, <3>1, <3>2 DEF InRound
  <2>6. BenchData'
    BY <1>1, <1>3, <1>8, <1>9, <1>10, <2>3 DEF BenchData, stream
  <2>7. Elsewhere(Id)
    BY <1>1, <1>2, <1>8, <1>9, <1>10, <2>3 DEF Elsewhere, stream
  <2>8. o.op = "send" /\ o.id = i /\ o \in BenchOps
    BY <1>2 DEF BenchOp, BenchKinds
  <2> HIDE DEF o
  <2>9. InRound(o.op, o.id, 0)'
    BY <2>5, <2>8
  <2> QED
    BY <1>1, <1>2, <2>1, <2>6, <2>7, <2>8, <2>9, HandlerPrepares
<1> QED
  BY <1>12, <1>13

----
\* What the kernel has taken is in its round, and of a client of the benchmark.
LEMMA KernelKnows ==
  ASSUME BenchInv, NEW kind, NEW c \in Peers, NEW res, Transfer(kind, c, res)
  PROVE  /\ bench_exit = "none" /\ Ring!Complete(BenchOp(kind, c), res)
         /\ BenchOp(kind, c).op = kind /\ BenchOp(kind, c).id = c
         /\ InRound(kind, c, 0) /\ BenchData /\ BenchTyped
<1>1. bench_exit = "none" /\ Ring!Complete(BenchOp(kind, c), res)
  BY DEF Transfer
<1>2. BenchOp(kind, c) \in Awaited
  BY <1>1 DEF Ring!Complete, Awaited
<1>3. BenchOp(kind, c).op = kind /\ BenchOp(kind, c).id = c
  BY DEF BenchOp
<1>4. InRound(BenchOp(kind, c).op, BenchOp(kind, c).id, 0)
  BY <1>2 DEF BenchInv, BenchRounds
<1> QED
  BY <1>1, <1>3, <1>4 DEF BenchInv, BenchTyped

\* A connection is made.
LEMMA ConnectsKeeps == ASSUME BenchInv, NEW c \in Peers, Connects(c) PROVE BenchInv'
<1>1. /\ Transfer("connect", c, 0) /\ backlog' = backlog \cup {c} /\ Idle
      /\ UNCHANGED <<serving, events, clients, stream, closed, gone, shortened,
                     recv_buf, echoed_bytes, hurt>>
  BY DEF Connects
<1>2. /\ bench_exit = "none" /\ Ring!Complete(BenchOp("connect", c), 0)
      /\ BenchOp("connect", c).op = "connect" /\ BenchOp("connect", c).id = c
      /\ InRound("connect", c, 0) /\ BenchData
  BY <1>1, KernelKnows
<1>3. InRound("connect", c, 0)'
  BY <1>1, <1>2, RoundStays DEF Idle, stream
<1>4. Completed("connect", c, 0)'
  BY <1>3 DEF Completed
<1>5. BenchData'
  BY <1>1, <1>2 DEF BenchData, Idle, stream
<1>6. Elsewhere(c)
  BY <1>1 DEF Elsewhere, Idle, stream
<1> DEFINE o == BenchOp("connect", c)
<1>7. o.op = "connect" /\ o.id = c /\ Ring!Complete(o, 0)
  BY <1>2
<1>8. UNCHANGED <<load, clients_done, bench_exit>> /\ hurt \subseteq hurt'
  BY <1>1 DEF Idle
<1> HIDE DEF o
<1>9. Completed(o.op, o.id, 0)' /\ Elsewhere(o.id)
  BY <1>4, <1>6, <1>7
<1> QED
  BY <1>2, <1>5, <1>7, <1>8, <1>9, KernelCompletes

\* An operation fails.
LEMMA FailsKeeps == ASSUME BenchInv, NEW c \in Peers, OperationFails(c) PROVE BenchInv'
<1>1. /\ hurt' = hurt \cup {c} /\ Idle /\ UNCHANGED <<evars, recv_buf, echoed_bytes>>
  BY DEF OperationFails
<1>2. PICK kind \in {"connect", "send", "recv"} : Transfer(kind, c, -1)
  BY DEF OperationFails
<1>3. /\ bench_exit = "none" /\ Ring!Complete(BenchOp(kind, c), -1)
      /\ BenchOp(kind, c).op = kind /\ BenchOp(kind, c).id = c /\ BenchData
  BY <1>2, KernelKnows
<1>4. Completed(kind, c, -1)'
  BY <1>1 DEF Completed
<1>5. BenchData'
  BY <1>1, <1>3 DEF BenchData, Idle, evars, stream
<1>6. Elsewhere(c)
  BY <1>1 DEF Elsewhere, Idle, evars, stream
<1> DEFINE o == BenchOp(kind, c)
<1>7. o.op = kind /\ o.id = c /\ Ring!Complete(o, -1)
  BY <1>3
<1>8. UNCHANGED <<load, clients_done, bench_exit>> /\ hurt \subseteq hurt'
  BY <1>1 DEF Idle
<1> HIDE DEF o
<1>9. Completed(o.op, o.id, -1)' /\ Elsewhere(o.id)
  BY <1>4, <1>6, <1>7
<1> QED
  BY <1>3, <1>5, <1>7, <1>8, <1>9, KernelCompletes

\* n bytes of the message are sent.
LEMMA SendsKeeps ==
  ASSUME BenchInv, NEW c \in Peers, NEW n \in 1 .. MsgLen, Sends(c, n) PROVE BenchInv'
<1>1. /\ send_off[c] + n <= MsgLen /\ Transfer("send", c, n)
      /\ to_server' = [to_server EXCEPT ![c] = @ \o SubSeq(Message, send_off[c] + 1, send_off[c] + n)]
      /\ Idle /\ UNCHANGED <<serving, events, clients, backlog, to_client, closed, gone, shortened,
                             recv_buf, echoed_bytes, hurt>>
  BY DEF Sends
<1>2. /\ bench_exit = "none" /\ Ring!Complete(BenchOp("send", c), n)
      /\ BenchOp("send", c).op = "send" /\ BenchOp("send", c).id = c
      /\ InRound("send", c, 0) /\ BenchData /\ BenchTyped
  BY <1>1, KernelKnows
<1>3. /\ ok[c] = TRUE /\ remaining[c] >= 1 /\ send_off[c] \in Nat /\ MsgLen \in Nat
      /\ echoed_bytes[c] = (load[2] - remaining[c]) * MsgLen /\ InOrder(c, 0, send_off[c] + 0)
      /\ n \in Nat \ {0}
  BY <1>2, DataFacts DEF InRound
<1>4. PICK s \in Nat : s = send_off[c] /\ s + n <= MsgLen
  BY <1>1, <1>3
<1>5. InOrder(c, 0, s)
  <2>1. send_off[c] + 0 = s
    BY <1>3, <1>4
  <2> QED
    BY <1>3, <2>1
<1>6. /\ to_server'[c] = to_server[c] \o SubSeq(Message, s + 1, s + n)
      /\ \A d \in Peers : d # c => to_server'[d] = to_server[d]
  BY <1>1, <1>2, <1>4 DEF BenchData
<1>7. InOrder(c, 0, s + n)' /\ to_server'[c] \in Seq(Nat)
  <2>1. 0 \in 0 .. MsgLen /\ n \in Nat /\ recv_buf'[c] = recv_buf[c] /\ to_client'[c] = to_client[c]
    BY <1>1, <1>3
  <2> QED
    BY <1>2, <1>4, <1>5, <1>6, <2>1, OrderSent
<1>8. to_server' \in [Peers -> Seq(Nat)]
  BY <1>1, <1>2, <1>6, <1>7 DEF BenchData
<1>9. InRound("send", c, n)'
  <2>1. send_off'[c] + n = s + n /\ send_off'[c] + n <= MsgLen
    BY <1>1, <1>4 DEF Idle
  <2>2. InOrder(c, 0, send_off[c] + n)'
    BY <1>7, <2>1 DEF InOrder
  <2> QED
    BY <1>1, <1>3, <2>1, <2>2 DEF InRound, Idle
<1>10. Completed("send", c, n)'
  BY <1>3, <1>9 DEF Completed
<1>11. BenchData'
  BY <1>1, <1>2, <1>8 DEF BenchData, Idle
<1>12. Elsewhere(c)
  BY <1>1, <1>6 DEF Elsewhere, Idle
<1> DEFINE o == BenchOp("send", c)
<1>13. o.op = "send" /\ o.id = c /\ Ring!Complete(o, n)
  BY <1>2
<1>14. UNCHANGED <<load, clients_done, bench_exit>> /\ hurt \subseteq hurt' /\ n \in Nat \cup {-1}
  BY <1>1, <1>3 DEF Idle
<1> HIDE DEF o
<1>15. Completed(o.op, o.id, n)' /\ Elsewhere(o.id)
  BY <1>10, <1>12, <1>13
<1> QED
  BY <1>2, <1>11, <1>13, <1>14, <1>15, KernelCompletes

\* n bytes of the echo are received.
LEMMA ReceivesKeeps ==
  ASSUME BenchInv, NEW c \in Peers, NEW n \in 1 .. MsgLen, Receives(c, n) PROVE BenchInv'
<1>1. /\ n <= Len(to_client[c]) /\ recv_off[c] + n <= MsgLen /\ Transfer("recv", c, n)
      /\ to_client' = [to_client EXCEPT ![c] = SubSeq(@, n + 1, Len(@))]
      /\ recv_buf' = [recv_buf EXCEPT ![c] =
                    [k \in 1 .. MsgLen |-> IF k > recv_off[c] /\ k <= recv_off[c] + n
                                           THEN to_client[c][k - recv_off[c]] ELSE @[k]]]
      /\ echoed_bytes' = [echoed_bytes EXCEPT ![c] = @ + n]
      /\ Idle /\ UNCHANGED <<serving, events, clients, backlog, to_server, closed, gone, shortened, hurt>>
  BY DEF Receives
<1>2. /\ bench_exit = "none" /\ Ring!Complete(BenchOp("recv", c), n)
      /\ BenchOp("recv", c).op = "recv" /\ BenchOp("recv", c).id = c
      /\ InRound("recv", c, 0) /\ BenchData /\ BenchTyped
  BY <1>1, KernelKnows
<1>3. /\ ok[c] = TRUE /\ remaining[c] >= 1 /\ recv_off[c] \in Nat /\ MsgLen \in Nat
      /\ send_off[c] = MsgLen /\ echoed_bytes[c] \in Nat
      /\ load[2] \in Nat /\ remaining[c] \in Nat
      /\ echoed_bytes[c] = (load[2] - remaining[c]) * MsgLen + recv_off[c] + 0
      /\ InOrder(c, recv_off[c] + 0, MsgLen)
      /\ n \in Nat \ {0}
  BY <1>2, DataFacts DEF InRound
<1>4. PICK x \in Nat : x = recv_off[c] /\ x + n <= MsgLen
  BY <1>1, <1>3
<1>5. InOrder(c, x, MsgLen)
  <2>1. recv_off[c] + 0 = x
    BY <1>3, <1>4
  <2> QED
    BY <1>3, <2>1
<1>6. /\ to_client'[c] = SubSeq(to_client[c], n + 1, Len(to_client[c]))
      /\ \A d \in Peers : d # c => to_client'[d] = to_client[d] /\ recv_buf'[d] = recv_buf[d]
                                   /\ echoed_bytes'[d] = echoed_bytes[d]
      /\ recv_buf'[c] = [k \in 1 .. MsgLen |-> IF k > x /\ k <= x + n
                                               THEN to_client[c][k - x] ELSE recv_buf[c][k]]
      /\ echoed_bytes'[c] = echoed_bytes[c] + n
  BY <1>1, <1>2, <1>4 DEF BenchData
<1>7. InOrder(c, x + n, MsgLen)' /\ to_client'[c] \in Seq(Nat) /\ recv_buf'[c] \in [1 .. MsgLen -> Nat]
  <2>1. MsgLen \in 0 .. MsgLen /\ to_server'[c] = to_server[c]
    BY <1>1, <1>3
  <2>2. n \in 0 .. Len(to_client[c])
    <3>1. to_client[c] \in Seq(Nat)
      BY <1>2 DEF BenchData
    <3> QED
      BY <1>1, <1>3, <3>1
  <2> QED
    BY <1>2, <1>4, <1>5, <1>6, <2>1, <2>2, OrderReceived
<1>8. /\ to_client' \in [Peers -> Seq(Nat)] /\ recv_buf' \in [Peers -> [1 .. MsgLen -> Nat]]
      /\ echoed_bytes' \in [Peers -> Nat]
  <2>1. echoed_bytes'[c] \in Nat
    BY <1>3, <1>6, SMTT(30)
  <2> QED
    BY <1>1, <1>2, <1>6, <1>7, <2>1 DEF BenchData
<1>9. InRound("recv", c, n)'
  <2>1. recv_off'[c] + n = x + n /\ recv_off'[c] + n <= MsgLen
    BY <1>1, <1>4 DEF Idle
  <2>2. InOrder(c, recv_off[c] + n, MsgLen)'
    BY <1>7, <2>1 DEF InOrder
  <2>3. echoed_bytes'[c] = (load'[2] - remaining'[c]) * MsgLen + recv_off'[c] + n
    <3>1. PICK y \in Int : y = (load[2] - remaining[c]) * MsgLen
      BY <1>3
    <3>2. echoed_bytes[c] = y + x + 0
      BY <1>3, <1>4, <3>1
    <3>3. (load'[2] - remaining'[c]) * MsgLen = y
      BY <1>1, <3>1 DEF Idle
    <3>4. recv_off'[c] = x
      BY <1>1, <1>4 DEF Idle
    <3>5. echoed_bytes'[c] = y + x + n
      BY <1>3, <1>4, <1>6, <3>2
    <3> QED
      BY <3>3, <3>4, <3>5
  <2> QED
    BY <1>1, <1>3, <2>1, <2>2, <2>3 DEF InRound, Idle
<1>10. Completed("recv", c, n)'
  BY <1>3, <1>9 DEF Completed
<1>11. BenchData'
  BY <1>1, <1>2, <1>8 DEF BenchData, Idle
<1>12. Elsewhere(c)
  BY <1>1, <1>6 DEF Elsewhere, Idle
<1> DEFINE o == BenchOp("recv", c)
<1>13. o.op = "recv" /\ o.id = c /\ Ring!Complete(o, n)
  BY <1>2
<1>14. UNCHANGED <<load, clients_done, bench_exit>> /\ hurt \subseteq hurt' /\ n \in Nat \cup {-1}
  BY <1>1, <1>3 DEF Idle
<1> HIDE DEF o
<1>15. Completed(o.op, o.id, n)' /\ Elsewhere(o.id)
  BY <1>10, <1>12, <1>13
<1> QED
  BY <1>2, <1>11, <1>13, <1>14, <1>15, KernelCompletes

----
\* What the server reads of a connection and writes to it in a step.
LEMMA ServerMoves ==
  ASSUME BenchData, EpollStep, NEW c \in Peers
  PROVE  \E m \in 0 .. Len(to_server[c]) : \E k \in 0 .. m :
           /\ to_server'[c] = SubSeq(to_server[c], m + 1, Len(to_server[c]))
           /\ to_client'[c] = to_client[c] \o SubSeq(to_server[c], 1, k) \/ to_client'[c] = to_client[c]
<1> DEFINE q == to_server[c]
           Moves(m, k) == /\ to_server'[c] = SubSeq(q, m + 1, Len(q))
                          /\ to_client'[c] = to_client[c] \o SubSeq(q, 1, k) \/ to_client'[c] = to_client[c]
<1>1. q \in Seq(Nat) /\ Len(q) \in Nat /\ to_server \in [Peers -> Seq(Nat)]
      /\ to_client \in [Peers -> Seq(Nat)]
  BY DEF BenchData
<1>2. SubSeq(q, 0 + 1, Len(q)) = q /\ SubSeq(q, Len(q) + 1, Len(q)) = << >>
  BY <1>1
<1>3. CASE to_server'[c] = q /\ to_client'[c] = to_client[c]
  <2>1. Moves(0, 0)
    BY <1>2, <1>3
  <2>2. 0 \in 0 .. Len(q) /\ 0 \in 0 .. 0
    BY <1>1
  <2> QED
    BY <2>1, <2>2
<1>4. CASE to_server'[c] = << >> /\ to_client'[c] = to_client[c]
  <2>1. Moves(Len(q), 0)
    BY <1>2, <1>4
  <2>2. Len(q) \in 0 .. Len(q) /\ 0 \in 0 .. Len(q)
    BY <1>1
  <2> QED
    BY <2>1, <2>2
<1>5. CASE EpollWait \/ AcceptPending
  BY <1>3, <1>5 DEF EpollWait, AcceptPending, stream
<1>6. ASSUME NEW d \in Peers, ReadEnd(d) PROVE \E m \in 0 .. Len(q) : \E k \in 0 .. m : Moves(m, k)
  <2>1. to_server' = [to_server EXCEPT ![d] = << >>] /\ to_client' = to_client
    BY <1>6 DEF ReadEnd
  <2>2. to_client'[c] = to_client[c] /\ to_server'[c] = (IF c = d THEN << >> ELSE q)
    BY <1>1, <2>1
  <2> QED
    BY <1>3, <1>4, <2>2
<1>7. ASSUME NEW d \in Peers, ReadAndEcho(d) PROVE \E m \in 0 .. Len(q) : \E k \in 0 .. m : Moves(m, k)
  <2>1. PICK n \in 1 .. Len(to_server[d]) :
          /\ to_server' = [to_server EXCEPT ![d] = SubSeq(@, n + 1, Len(@))]
          /\ \/ EchoAll(d, n) \/ EchoFails(d) \/ EchoKills(d)
             \/ \E k \in 1 .. n - 1 : EchoPart(d, k)
    BY <1>7 DEF ReadAndEcho
  <2>2. \/ to_client' = to_client
        \/ \E k \in 1 .. n : to_client' = [to_client EXCEPT ![d] = @ \o SubSeq(to_server[d], 1, k)]
    <3>1. to_server[d] \in Seq(Nat)
      BY <1>1
    <3>2. n \in 1 .. n /\ \A k \in 1 .. n - 1 : k \in 1 .. n
      BY <3>1
    <3> QED
      BY <2>1, <3>2 DEF EchoAll, EchoFails, EchoKills, EchoPart
  <2>3. CASE d # c
    <3>1. to_server'[c] = q /\ to_client'[c] = to_client[c]
      BY <1>1, <2>1, <2>2, <2>3
    <3> QED
      BY <1>3, <3>1
  <2>4. CASE d = c
    <3>1. n \in 0 .. Len(q) /\ 0 \in 0 .. n /\ \A k \in 1 .. n : k \in 0 .. n
      BY <1>1, <2>1, <2>4
    <3>2. to_server'[c] = SubSeq(q, n + 1, Len(q))
      BY <1>1, <2>1, <2>4
    <3>3. CASE to_client' = to_client
      BY <3>1, <3>2, <3>3
    <3>4. ASSUME NEW k \in 1 .. n, to_client' = [to_client EXCEPT ![d] = @ \o SubSeq(to_server[d], 1, k)]
          PROVE  to_client'[c] = to_client[c] \o SubSeq(q, 1, k)
      BY <1>1, <2>4, <3>4
    <3> QED
      BY <2>2, <3>1, <3>2, <3>3, <3>4
  <2> QED
    BY <2>3, <2>4
<1> QED
  BY <1>5, <1>6, <1>7 DEF EpollStep

\* A step of the server keeps the order of every connection.
LEMMA ServerKeepsOrder ==
  ASSUME BenchTyped, EpollStep, recv_buf' = recv_buf, NEW c \in Peers
  PROVE  /\ to_server'[c] \in Seq(Nat) /\ to_client'[c] \in Seq(Nat)
         /\ \A n, s \in 0 .. MsgLen : InOrder(c, n, s) => InOrder(c, n, s)'
<1>1. BenchData
  BY DEF BenchTyped
<1>2. PICK m \in 0 .. Len(to_server[c]), k \in 0 .. Len(to_server[c]) :
           /\ k \in 0 .. m
           /\ to_server'[c] = SubSeq(to_server[c], m + 1, Len(to_server[c]))
           /\ to_client'[c] = to_client[c] \o SubSeq(to_server[c], 1, k) \/ to_client'[c] = to_client[c]
  <2>1. PICK m \in 0 .. Len(to_server[c]) : \E k \in 0 .. m :
           /\ to_server'[c] = SubSeq(to_server[c], m + 1, Len(to_server[c]))
           /\ to_client'[c] = to_client[c] \o SubSeq(to_server[c], 1, k) \/ to_client'[c] = to_client[c]
    BY <1>1, ServerMoves
  <2>2. PICK k \in 0 .. m :
           /\ to_server'[c] = SubSeq(to_server[c], m + 1, Len(to_server[c]))
           /\ to_client'[c] = to_client[c] \o SubSeq(to_server[c], 1, k) \/ to_client'[c] = to_client[c]
    BY <2>1
  <2>3. Len(to_server[c]) \in Nat
    BY <1>1 DEF BenchData
  <2>4. k \in 0 .. Len(to_server[c])
    BY <2>3
  <2> QED
    BY <2>2, <2>4
<1>3. to_server[c] \in Seq(Nat) /\ to_client[c] \in Seq(Nat) /\ Len(to_server[c]) \in Nat
  BY <1>1 DEF BenchData
<1>4. SubSeq(to_server[c], m + 1, Len(to_server[c])) \in Seq(Nat)
  BY <1>3
<1>5. SubSeq(to_server[c], 1, k) \in Seq(Nat)
  BY <1>3
<1>6. to_client[c] \o SubSeq(to_server[c], 1, k) \in Seq(Nat)
  BY <1>3, <1>5
<1>7. ASSUME NEW n \in 0 .. MsgLen, NEW s \in 0 .. MsgLen, InOrder(c, n, s) PROVE InOrder(c, n, s)'
  BY <1>2, <1>7, OrderEchoed
<1> QED
  BY <1>2, <1>3, <1>4, <1>6, <1>7

\* A step of the server.
LEMMA ServerKeeps == ASSUME BenchInv, EpollStep, UNCHANGED bench PROVE BenchInv'
<1>0. /\ BenchTyped /\ BenchData /\ BenchRing /\ OnePlace /\ BenchRounds
      /\ MsgLen \in Nat \ {0}
  BY DataFacts DEF BenchInv, BenchTyped
<1>1. /\ load' = load /\ r_up' = r_up /\ r_at' = r_at /\ r_sq' = r_sq /\ r_flight' = r_flight
      /\ r_cq' = r_cq /\ r_ready' = r_ready /\ remaining' = remaining /\ ok' = ok
      /\ send_off' = send_off /\ recv_off' = recv_off /\ recv_buf' = recv_buf
      /\ clients_done' = clients_done /\ echoed_bytes' = echoed_bytes /\ hurt' = hurt
      /\ bench_exit' = bench_exit
  BY DEF bench, r_ring
<1>2. \A c \in Peers : /\ to_server'[c] \in Seq(Nat) /\ to_client'[c] \in Seq(Nat)
                       /\ \A n, s \in 0 .. MsgLen : InOrder(c, n, s) => InOrder(c, n, s)'
  BY <1>0, <1>1, ServerKeepsOrder
<1>3. ASSUME NEW c \in Peers, NEW kind, NEW n \in Nat, InRound(kind, c, n)
      PROVE  InRound(kind, c, n)'
  <2>0. send_off[c] \in Nat /\ recv_off[c] \in Nat
    BY DataFacts
  <2>1. CASE kind = "recv"
    <3>1. PICK x \in Nat : x = recv_off[c] + n
      BY <2>0
    <3>2. x \in 0 .. MsgLen /\ MsgLen \in 0 .. MsgLen /\ InOrder(c, x, MsgLen)
      BY <1>0, <1>3, <2>1, <3>1 DEF InRound
    <3>3. InOrder(c, x, MsgLen)'
      BY <1>2, <3>2
    <3>4. InOrder(c, recv_off[c] + n, MsgLen)'
      BY <1>1, <3>1, <3>3 DEF InOrder
    <3> QED
      BY <1>1, <1>3, <2>1, <3>4 DEF InRound
  <2>2. CASE kind # "recv"
    <3>1. PICK x \in Nat : x = send_off[c] + n
      BY <2>0
    <3>2. x \in 0 .. MsgLen /\ 0 \in 0 .. MsgLen /\ InOrder(c, 0, x)
      BY <1>0, <1>3, <2>2, <3>1 DEF InRound
    <3>3. InOrder(c, 0, x)'
      BY <1>2, <3>2
    <3>4. InOrder(c, 0, send_off[c] + n)'
      BY <1>1, <3>1, <3>3 DEF InOrder
    <3> QED
      BY <1>1, <1>3, <2>2, <3>4 DEF InRound
  <2> QED
    BY <2>1, <2>2
<1>4. BenchClients' = BenchClients /\ BenchOps' = BenchOps /\ Awaited' = Awaited /\ BenchResults' = BenchResults
      /\ OnePlace' /\ BenchRing' /\ Counted' = Counted
  BY <1>0, <1>1 DEF BenchClients, BenchOps, Awaited, BenchResults, OnePlace, BenchRing, Counted, Busy
<1>5. BenchData'
  <2>1. to_server' \in [Peers -> Seq(Nat)] /\ to_client' \in [Peers -> Seq(Nat)]
    <3>1. DOMAIN to_server' = Peers /\ to_server' = [c \in Peers |-> to_server'[c]]
      BY <1>0 DEF EpollStep, EpollWait, AcceptPending, ReadAndEcho, ReadEnd, BenchData, stream
    <3>2. to_client' = [c \in Peers |-> to_client'[c]]
      BY <1>0 DEF EpollStep, EpollWait, AcceptPending, ReadAndEcho, ReadEnd, BenchData, stream,
                  EchoAll, EchoPart, EchoFails, EchoKills
    <3> QED
      BY <1>2, <3>1, <3>2
  <2>2. events' \subseteq Peers \cup {LISTENER} /\ clients' \subseteq Peers /\ backlog' \subseteq Peers
    BY <1>0 DEF EpollStep, EpollWait, AcceptPending, ReadAndEcho, ReadEnd, BenchData, Ready,
                EchoAll, EchoPart, EchoFails, EchoKills, CloseClient
  <2> QED
    BY <1>0, <1>1, <2>1, <2>2 DEF BenchData
<1>6. r_at # "start" => BenchClients \subseteq Peers
  BY <1>0, BenchFits DEF BenchRing
<1>7. BenchRounds'
  <2>1. ASSUME NEW p \in Awaited PROVE InRound(p.op, p.id, 0)'
    <3>1. InRound(p.op, p.id, 0)
      BY <1>0 DEF BenchRounds
    <3>2. r_at # "start"
      BY DEF Awaited, BenchInv, BenchStarts
    <3>3. p.id \in Peers
      BY <1>0, <1>6, <3>2, EntriesOfClients DEF Awaited
    <3> QED
      BY <1>3, <3>1, <3>3
  <2>2. ASSUME NEW e \in BenchResults PROVE Completed(e.op.op, e.op.id, e.res)'
    <3>1. Completed(e.op.op, e.op.id, e.res)
      BY <1>0 DEF BenchRounds
    <3>2. r_at # "start"
      BY DEF BenchResults, BenchInv, BenchStarts
    <3>3. e.op.id \in Peers /\ e.res \in Nat \cup {-1}
      BY <1>0, <1>6, <3>2, EntriesOfClients DEF BenchResults
    <3>4. e.res >= 0 /\ InRound(e.op.op, e.op.id, e.res) => InRound(e.op.op, e.op.id, e.res)'
      BY <1>3, <3>3
    <3> QED
      BY <1>1, <3>1, <3>4 DEF Completed
  <2>3. ASSUME r_at # "start", NEW c \in Counted PROVE Passed(c)'
    <3>1. Passed(c)
      BY <1>0, <2>3 DEF BenchRounds
    <3> QED
      BY <1>1, <3>1, VerdictStays
  <2> QED
    BY <1>1, <1>4, <2>1, <2>2, <2>3 DEF BenchRounds
<1>8. r_at = "start" => BenchStarts'
  <2> SUFFICES ASSUME r_at = "start" PROVE BenchStarts'
    OBVIOUS
  <2>1. BenchStarts
    BY DEF BenchInv
  <2>2. ASSUME bench_exit = "none", NEW c \in BenchClients
        PROVE  InRound("connect", c, 0)' /\ send_off'[c] = 0
    <3>1. InRound("connect", c, 0) /\ send_off[c] = 0
      BY <2>1, <2>2 DEF BenchStarts
    <3>2. c \in Peers
      BY <1>0, <2>2, BenchFits DEF BenchRing
    <3> QED
      BY <1>1, <1>3, <3>1, <3>2
  <2> QED
    BY <1>1, <1>4, <2>1, <2>2 DEF BenchStarts
<1> QED
  BY <1>0, <1>1, <1>4, <1>5, <1>7, <1>8 DEF BenchInv, BenchTyped

----
\* The connects are prepared, one per client, and there is room for them.
LEMMA CreateKeeps == ASSUME BenchInv, CreateSockets PROVE BenchInv'
<1>1. /\ bench_exit = "none" /\ r_at = "start"
      /\ UNCHANGED <<evars, load, remaining, ok, send_off, recv_off, recv_buf,
                     clients_done, echoed_bytes, hurt>>
  BY DEF CreateSockets
<1>2. /\ BenchTyped /\ BenchRing /\ BenchData /\ OnePlace /\ BenchRounds /\ BenchStarts
  BY <1>1 DEF BenchInv, BenchTyped
<1>3. load[1] \in Peers
  BY <1>1, <1>2 DEF BenchRing
<1>4. /\ BenchClients \subseteq Peers /\ load[1] \in Nat \ {0} /\ load[1] <= Cardinality(Peers)
      /\ Cardinality(Peers) \in Nat \ {0} /\ IsFiniteSet(BenchClients)
  BY <1>2, <1>3, BenchFits
<1>5. BenchData' /\ BenchClients' = BenchClients /\ BenchOps' = BenchOps
  BY <1>1, <1>2 DEF BenchData, evars, stream, BenchClients, BenchOps
<1>6. ASSUME NEW kind, NEW c, NEW n, InRound(kind, c, n) PROVE InRound(kind, c, n)'
  BY <1>1, <1>6, RoundStays DEF evars, stream
<1>7. CASE bench_exit' = "1" /\ UNCHANGED r_ring
  <2>1. BenchRing' /\ OnePlace'
    BY <1>1, <1>2, <1>5, <1>7 DEF BenchRing, OnePlace, r_ring
  <2>2. Awaited' = {} /\ BenchResults' = {} /\ r_at' = "start"
    BY <1>1, <1>2, <1>7 DEF BenchStarts, Awaited, BenchResults, r_ring
  <2>3. BenchRounds' /\ BenchStarts'
    BY <1>1, <1>2, <1>7, <2>2 DEF BenchRounds, BenchStarts, r_ring
  <2> QED
    BY <1>5, <1>7, <2>1, <2>2, <2>3 DEF BenchInv, BenchTyped
<1>8. CASE /\ Ring!Prepare([c \in BenchClients |-> BenchOp("connect", c)])
           /\ r_at' = "submit" /\ UNCHANGED <<r_flight, r_cq, r_ready, bench_exit>>
  <2> DEFINE s == [c \in BenchClients |-> BenchOp("connect", c)]
  <2>1. /\ s \in Seq(BenchOps) /\ Len(s) = load[1] /\ DOMAIN s = BenchClients
        /\ \A c \in BenchClients : s[c] = BenchOp("connect", c)
    <3>1. \A c \in BenchClients : BenchOp("connect", c) \in BenchOps
      BY DEF BenchOp, BenchOps, BenchKinds
    <3>2. s \in [1 .. load[1] -> BenchOps]
      BY <3>1 DEF BenchClients
    <3> QED
      BY <1>4, <3>2 DEF BenchClients
  <2> HIDE DEF s
  <2>2. Len(<< >>) + load[1] <= 2 * Cardinality(Peers) /\ << >> \o s = s
    BY <1>4, <2>1
  <2>3. r_sq' = s /\ r_up' = r_up
    BY <1>2, <1>8, <2>1, <2>2 DEF Ring!Prepare, BenchStarts, s
  <2>4. r_flight' = {} /\ r_cq' = << >> /\ r_flight = {} /\ r_cq = << >>
    BY <1>2, <1>8 DEF BenchStarts
  <2>5. BenchRing'
    BY <1>1, <1>2, <1>3, <1>5, <1>8, <2>1, <2>3 DEF BenchRing
  <2>6. OnePlace'
    BY <2>1, <2>3, <2>4 DEF OnePlace, BenchOp
  <2>7. Counted' = {}
    <3>1. \A c \in BenchClients : r_sq'[c].id = c /\ c \in DOMAIN r_sq'
      BY <2>1, <2>3 DEF BenchOp
    <3> QED
      BY <1>5, <3>1 DEF Counted, Busy
  <2>8. BenchResults' = {} /\ \A p \in Awaited' : p.op = "connect" /\ p.id \in BenchClients
    BY <2>1, <2>3, <2>4 DEF Awaited, BenchResults, BenchOp
  <2>9. ASSUME NEW p \in Awaited' PROVE InRound(p.op, p.id, 0)'
    <3>1. InRound(p.op, p.id, 0)
      BY <1>1, <1>2, <2>8, <2>9 DEF BenchStarts
    <3> QED
      BY <1>6, <3>1
  <2>10. BenchRounds'
    BY <2>7, <2>8, <2>9 DEF BenchRounds
  <2>11. clients_done' = Cardinality(Counted')
    BY <1>1, <1>2, <2>7, FS_EmptySet DEF BenchStarts
  <2> QED
    BY <1>1, <1>5, <1>8, <2>5, <2>6, <2>10, <2>11 DEF BenchInv, BenchTyped
<1> QED
  BY <1>7, <1>8 DEF CreateSockets

\* submit_and_wait.
LEMMA LoopKeeps == ASSUME BenchInv, BenchLoop PROVE BenchInv'
<1>1. /\ bench_exit = "none"
      /\ UNCHANGED <<evars, load, remaining, ok, send_off, recv_off, recv_buf,
                     clients_done, echoed_bytes, hurt, bench_exit>>
  BY DEF BenchLoop
<1>2. /\ BenchTyped /\ BenchRing /\ BenchData /\ OnePlace /\ BenchRounds
  BY <1>1 DEF BenchInv, BenchTyped
<1>5. BenchData' /\ BenchClients' = BenchClients /\ BenchOps' = BenchOps
  BY <1>1, <1>2 DEF BenchData, evars, stream, BenchClients, BenchOps
<1>6. /\ \A kind, c, n : InRound(kind, c, n) => InRound(kind, c, n)'
      /\ \A kind, c, n : Completed(kind, c, n) => Completed(kind, c, n)'
      /\ \A c : Passed(c) => Passed(c)'
  <2>1. ASSUME NEW kind, NEW c, NEW n, InRound(kind, c, n) PROVE InRound(kind, c, n)'
    BY <1>1, <2>1, RoundStays DEF evars, stream
  <2>2. ASSUME NEW kind, NEW c, NEW n, Completed(kind, c, n) PROVE Completed(kind, c, n)'
    BY <1>1, <2>2, CompletionStays DEF evars, stream
  <2>3. ASSUME NEW c, Passed(c) PROVE Passed(c)'
    BY <1>1, <2>3, VerdictStays
  <2> QED
    BY <2>1, <2>2, <2>3
<1>7. CASE Ring!Submit
  <2>1. /\ OnePlace' /\ \A c : Busy(c)' <=> Busy(c)
        /\ r_sq' = << >> /\ r_flight' \subseteq BenchOps /\ r_cq' = r_cq
        /\ \A o \in r_flight' : o \in r_flight \/ \E k \in DOMAIN r_sq : r_sq[k] = o
    BY <1>1, <1>2, <1>7, BenchSubmits
  <2>2. r_at = "submit" /\ r_at' = "wait" /\ r_up' = r_up /\ r_ready' = r_ready
    BY <1>7 DEF Ring!Submit
  <2>3. BenchRing'
    BY <1>1, <1>2, <1>5, <2>1, <2>2 DEF BenchRing
  <2>4. Awaited' \subseteq Awaited /\ BenchResults' = BenchResults /\ Counted' = Counted
    BY <1>5, <2>1 DEF Awaited, BenchResults, Counted
  <2>5. BenchRounds'
    BY <1>2, <1>6, <2>2, <2>4 DEF BenchRounds
  <2> QED
    BY <1>1, <1>5, <2>1, <2>2, <2>3, <2>4, <2>5 DEF BenchInv, BenchTyped
<1>8. CASE Ring!Wait \/ Ring!EndBatch
  <2>1. /\ UNCHANGED <<r_up, r_sq, r_flight, r_cq>> /\ r_at # "start"
        /\ r_at' \in {"submit", "cqe"} /\ r_ready' \in {Len(r_cq), r_ready}
    BY <1>8 DEF Ring!Wait, Ring!EndBatch
  <2>2. r_ready' \in Nat /\ r_ready' <= Len(r_cq')
    <3>1. Len(r_cq) \in Nat
      BY <1>2 DEF BenchRing
    <3> QED
      BY <1>2, <2>1, <3>1 DEF BenchRing
  <2>3. BenchRing'
    BY <1>1, <1>2, <1>5, <2>1, <2>2 DEF BenchRing
  <2>4. Awaited' = Awaited /\ BenchResults' = BenchResults /\ Counted' = Counted /\ OnePlace'
    BY <1>2, <1>5, <2>1 DEF Awaited, BenchResults, Counted, Busy, OnePlace
  <2>5. BenchRounds'
    BY <1>2, <1>6, <2>1, <2>4 DEF BenchRounds
  <2> QED
    BY <1>1, <1>5, <2>1, <2>3, <2>4, <2>5 DEF BenchInv, BenchTyped
<1> QED
  BY <1>7, <1>8 DEF BenchLoop

\* The report, when all clients have been counted.
LEMMA ReportKeeps == ASSUME BenchInv, Report PROVE BenchInv'
<1>1. /\ bench_exit = "none" /\ r_at = "submit" /\ clients_done >= load[1] /\ bench_exit' = "0"
      /\ UNCHANGED <<serving, events, clients, backlog, stream, closed, shortened, load, r_ring,
                 remaining, ok, send_off, recv_off, recv_buf, clients_done, echoed_bytes, hurt>>
  BY DEF Report
<1>2. /\ BenchTyped /\ BenchRing /\ BenchData /\ OnePlace /\ BenchRounds
  BY <1>1 DEF BenchInv, BenchTyped
<1>3. load[1] \in Peers
  BY <1>1, <1>2 DEF BenchRing
<1>4. IsFiniteSet(BenchClients) /\ Cardinality(BenchClients) = load[1] /\ load[1] \in Nat
  BY <1>2, <1>3, BenchFits
<1>5. Counted = BenchClients
  <2>1. Counted \subseteq BenchClients
    BY DEF Counted
  <2>2. /\ Cardinality(Counted) \in Nat /\ Cardinality(Counted) <= load[1]
        /\ (Cardinality(BenchClients) = Cardinality(Counted) => BenchClients = Counted)
    BY <1>4, <2>1, FS_Subset, FS_CardinalityType
  <2>3. Cardinality(Counted) >= load[1]
    BY <1>1 DEF BenchInv
  <2> QED
    BY <1>4, <2>2, <2>3
<1>6. BenchData' /\ BenchClients' = BenchClients /\ BenchOps' = BenchOps
  BY <1>1, <1>2 DEF BenchData, stream, BenchClients, BenchOps
<1>7. BenchRing' /\ OnePlace' /\ Awaited' = Awaited /\ BenchResults' = BenchResults /\ Counted' = Counted
  BY <1>1, <1>2, <1>3, <1>6
  DEF BenchRing, OnePlace, Awaited, BenchResults, Counted, Busy, r_ring
<1>8. BenchRounds'
  <2>1. ASSUME NEW kind, NEW c, NEW n, InRound(kind, c, n) PROVE InRound(kind, c, n)'
    BY <1>1, <2>1, RoundStays DEF stream
  <2>2. ASSUME NEW kind, NEW c, NEW n, Completed(kind, c, n) PROVE Completed(kind, c, n)'
    BY <1>1, <2>2, CompletionStays DEF stream
  <2>3. ASSUME NEW c, Passed(c) PROVE Passed(c)'
    BY <1>1, <2>3, VerdictStays
  <2>4. r_at' = r_at
    BY <1>1 DEF r_ring
  <2> QED
    BY <1>1, <1>2, <1>7, <2>1, <2>2, <2>3, <2>4 DEF BenchRounds
<1> QED
  BY <1>1, <1>5, <1>6, <1>7, <1>8 DEF BenchInv, BenchTyped, r_ring

\* Standing still.
LEMMA StillBenchInv == ASSUME BenchInv, UNCHANGED bvars PROVE BenchInv'
<1>1. UNCHANGED <<serving, events, clients, backlog, to_server, to_client, closed, gone, shortened,
                  load, r_up, r_at, r_sq, r_flight, r_cq, r_ready, remaining, ok, send_off,
                  recv_off, recv_buf, clients_done, echoed_bytes, hurt, bench_exit>>
  BY DEF bvars, evars, stream, bench, r_ring
<1>2. /\ BenchTyped /\ BenchRing /\ BenchData /\ OnePlace /\ BenchRounds
  BY <1>1 DEF BenchInv, BenchTyped
<1>3. /\ BenchClients' = BenchClients /\ BenchOps' = BenchOps /\ Awaited' = Awaited
      /\ BenchResults' = BenchResults /\ Counted' = Counted /\ OnePlace' /\ BenchRing' /\ BenchData'
  BY <1>1, <1>2
  DEF BenchClients, BenchOps, Awaited, BenchResults, OnePlace, BenchRing, BenchData, Counted, Busy
<1>4. ASSUME NEW kind, NEW c, NEW n, InRound(kind, c, n) PROVE InRound(kind, c, n)'
  BY <1>1, <1>4, RoundStays
<1>5. ASSUME NEW kind, NEW c, NEW n, Completed(kind, c, n) PROVE Completed(kind, c, n)'
  BY <1>1, <1>5, CompletionStays
<1>6. ASSUME NEW c, Passed(c) PROVE Passed(c)'
  BY <1>1, <1>6, VerdictStays
<1>7. BenchRounds'
  BY <1>1, <1>2, <1>3, <1>4, <1>5, <1>6 DEF BenchRounds
<1>8. r_at = "start" => BenchStarts'
  BY <1>1, <1>3, <1>4 DEF BenchInv, BenchStarts
<1> QED
  BY <1>1, <1>2, <1>3, <1>7, <1>8 DEF BenchInv, BenchTyped

\* Every step of the benchmark, the server and the network keeps it.
LEMMA NextBenchInv == ASSUME BenchInv, BenchNext PROVE BenchInv'
<1>1. CASE BenchStep
  BY <1>1, CreateKeeps, LoopKeeps, ReportKeeps, ConnectKeeps, BrokenKeeps, SentKeeps, PartKeeps,
     EchoKeeps DEF BenchStep
<1>2. CASE ServerStep
  BY <1>2, ServerKeeps DEF ServerStep
<1>3. CASE NetworkStep
  BY <1>3, ConnectsKeeps, FailsKeeps, SendsKeeps, ReceivesKeeps DEF NetworkStep
<1>4. CASE NetworkFault
  BY <1>4, FailsKeeps DEF NetworkFault
<1> QED
  BY <1>1, <1>2, <1>3, <1>4 DEF BenchNext

\* It holds at the start, of a benchmark that runs and of one that has ended.
LEMMA BenchBegins ==
  ASSUME BenchStart, load \in (Nat \ {0}) \X (Nat \ {0}),
         bench_exit = "1" \/ (bench_exit = "none" /\ load[1] \in Peers)
  PROVE  BenchInv
<1>1. /\ events = {} /\ clients = {} /\ backlog = {}
      /\ to_server = [c \in Peers |-> << >>] /\ to_client = to_server
      /\ r_up = TRUE /\ r_at = "start" /\ r_sq = << >> /\ r_flight = {} /\ r_cq = << >> /\ r_ready = 0
      /\ remaining = [c \in Peers |-> load[2]] /\ ok = [c \in Peers |-> TRUE]
      /\ send_off = [c \in Peers |-> 0] /\ recv_off = send_off
      /\ recv_buf = [c \in Peers |-> [k \in 1 .. MsgLen |-> 0]]
      /\ clients_done = 0 /\ echoed_bytes = send_off
  BY DEF BenchStart, EpollInit
<1>2. MsgLen \in Nat \ {0} /\ load[1] \in Nat \ {0} /\ load[2] \in Nat \ {0}
  BY BenchAssumption
<1>3. BenchRing
  <2>1. << >> \in Seq(BenchOps) /\ << >> \in Seq([op : BenchOps, res : Nat \cup {-1}]) /\ Len(<< >>) = 0
    OBVIOUS
  <2> QED
    BY <1>1, <2>1 DEF BenchRing
<1>4. BenchData
  <2>1. << >> \in Seq(Nat) /\ 0 \in 0 .. MsgLen /\ load[2] \in 0 .. load[2]
    BY <1>2
  <2> QED
    BY <1>1, <2>1 DEF BenchData
<1>5. DOMAIN r_sq = {} /\ DOMAIN r_cq = {}
  BY <1>1
<1>6. OnePlace /\ Awaited = {} /\ BenchResults = {}
  BY <1>1, <1>5 DEF OnePlace, Awaited, BenchResults
<1>7. BenchRounds
  BY <1>1, <1>6 DEF BenchRounds
<1>8. ASSUME NEW c \in Peers PROVE InRound("connect", c, 0) /\ send_off[c] = 0
  <2>1. /\ ok[c] = TRUE /\ remaining[c] = load[2] /\ send_off[c] = 0 /\ echoed_bytes[c] = 0
        /\ to_client[c] = << >> /\ to_server[c] = << >> /\ Len(<< >>) = 0
    BY <1>1
  <2>2. (load[2] - load[2]) * MsgLen = 0
    BY <1>2
  <2>3. \A s : Rises(s, 0, 0, 0)
    BY RisesNone
  <2>4. send_off[c] + 0 = 0 /\ 0 \in 0 .. MsgLen /\ 0 <= MsgLen
    BY <1>2, <2>1
  <2>5. InOrder(c, 0, send_off[c] + 0)
    BY <2>1, <2>3, <2>4 DEF InOrder
  <2> QED
    BY <1>2, <2>1, <2>2, <2>4, <2>5 DEF InRound
<1>9. BenchStarts
  <2>1. bench_exit = "none" => BenchClients \subseteq Peers
    BY <1>3, <1>4, <1>6, BenchFits DEF BenchTyped
  <2> QED
    BY <1>1, <1>8, <2>1 DEF BenchStarts
<1> QED
  BY <1>1, <1>3, <1>4, <1>6, <1>7, <1>9 DEF BenchInv, BenchTyped

\* See BenchBegins.
LEMMA InitBenchInv == ASSUME BenchInit PROVE BenchInv
<1>1. /\ load \in Peers \X (1 .. MaxMessages) /\ BenchStart /\ bench_exit = "none"
  BY DEF BenchInit
<1>2. load \in (Nat \ {0}) \X (Nat \ {0}) /\ load[1] \in Peers
  <2>1. Peers \subseteq Nat \ {0} /\ 1 .. MaxMessages \subseteq Nat \ {0}
    BY PeersAssumption, BenchAssumption
  <2>2. load[1] \in Peers /\ load \in Peers \X (1 .. MaxMessages)
    BY <1>1
  <2> QED
    BY <2>1, <2>2
<1> QED
  BY <1>1, <1>2, BenchBegins

\* A client that has not been counted has one operation under way.
LEMMA OneUnderWay ==
  ASSUME BenchInv, NEW c
  PROVE  (UnderWay(c) = {} <=> ~Busy(c)) /\ Cardinality(UnderWay(c)) <= 1
<1>1. UnderWay(c) = {o \in {r_sq[k] : k \in DOMAIN r_sq} \cup r_flight
                           \cup {r_cq[k].op : k \in DOMAIN r_cq} : o.id = c}
  BY DEF UnderWay, Ring!Pending, Ring!ToSet
<1>2. UnderWay(c) = {} <=> ~Busy(c)
  BY <1>1 DEF Busy
<1>3. ASSUME NEW o \in UnderWay(c), NEW p \in UnderWay(c) PROVE o = p
  BY <1>1, <1>3 DEF BenchInv, OnePlace
<1>4. UnderWay(c) = {} \/ \E o : UnderWay(c) = {o}
  BY <1>3
<1>5. Cardinality(UnderWay(c)) \in {0, 1}
  BY <1>4, FS_EmptySet, FS_Singleton
<1> QED
  BY <1>2, <1>5

\* The verdict of the benchmark.
LEMMA BenchTrusted == ASSUME BenchInv PROVE BenchVerdict
<1>1. /\ BenchTyped /\ BenchRing /\ BenchData /\ OnePlace /\ BenchRounds
      /\ load[1] \in Nat \ {0} /\ load[2] \in Nat \ {0}
  BY DataFacts DEF BenchInv, BenchTyped
<1>2. {c \in BenchClients : UnderWay(c) = {}} = Counted
  BY OneUnderWay DEF Counted
<1>3. clients_done \in 0 .. load[1]
  <2>1. CASE r_at = "start"
    BY <1>1, <2>1 DEF BenchInv, BenchStarts
  <2>2. CASE r_at # "start"
    <3>1. IsFiniteSet(BenchClients) /\ Cardinality(BenchClients) = load[1]
      BY <1>1, <2>2, BenchFits DEF BenchRing
    <3>2. Counted \subseteq BenchClients
      BY DEF Counted
    <3>3. Cardinality(Counted) \in Nat /\ Cardinality(Counted) <= load[1]
      BY <3>1, <3>2, FS_Subset, FS_CardinalityType
    <3> QED
      BY <1>1, <2>2, <3>3 DEF BenchInv
  <2> QED
    BY <2>1, <2>2
<1>4. BenchTypeOK
  BY <1>1, <1>3 DEF BenchTypeOK, BenchRing, BenchData
<1>5. bench_exit = "0" => \A c \in BenchClients : Passed(c)
  BY <1>1 DEF BenchInv, BenchRounds
<1> QED
  BY <1>1, <1>2, <1>4, <1>5, OneUnderWay DEF BenchVerdict, BenchInv, BenchRing, Passed

\* The verdict of the benchmark can be trusted, for every number of clients, of
\* rounds and of bytes, however the server, the network and the ring interleave.
THEOREM BenchAlwaysTrusted == BenchSpec => []BenchVerdict
<1>1. BenchInit => BenchInv
  BY InitBenchInv
<1>2. BenchInv /\ [BenchNext]_bvars => BenchInv'
  BY NextBenchInv, StillBenchInv
<1>3. BenchInv => BenchVerdict
  BY BenchTrusted
<1> QED
  BY <1>1, <1>2, <1>3, PTL DEF BenchSpec

----
\* What every program of this proof keeps, whichever of them runs.
ProgramsInv == SysfsInv /\ PortInv /\ WindowInv /\ CopyInv /\ BenchInv

\* In the composition that TLC runs a step of one program is a step of that
\* program, and the others stand still.
LEMMA StepsOfOne ==
  ASSUME [MCNext]_mcvars
  PROVE  /\ SysfsNext \/ UNCHANGED svars
         /\ PortNext \/ UNCHANGED pvars
         /\ WindowRun \/ UNCHANGED wvars
         /\ CopyNext \/ UNCHANGED cvars
         /\ BenchNext \/ UNCHANGED bvars
<1>1. SysfsNext \/ UNCHANGED svars
  BY DEF MCNext, VirtioStep, PortStep, SysfsStep, CopyStep, KernelStep, ClientStep, EchoStep,
         NetStep, WindowStep, MemoryStep, Around, Others, programs, mcvars, SysfsNext
<1>2. PortNext \/ UNCHANGED pvars
  BY DEF MCNext, VirtioStep, PortStep, SysfsStep, CopyStep, KernelStep, ClientStep, EchoStep,
         NetStep, WindowStep, MemoryStep, Around, Others, programs, mcvars, PortNext
<1>3. WindowRun \/ UNCHANGED wvars
  BY DEF MCNext, VirtioStep, PortStep, SysfsStep, CopyStep, KernelStep, ClientStep, EchoStep,
         NetStep, WindowStep, MemoryStep, Around, Others, programs, mcvars, lookups
<1>4. CopyNext \/ UNCHANGED cvars
  BY DEF MCNext, VirtioStep, PortStep, SysfsStep, CopyStep, KernelStep, ClientStep, EchoStep,
         NetStep, WindowStep, MemoryStep, Around, Others, programs, mcvars, CopyNext
<1>5. BenchNext \/ UNCHANGED bvars
  BY DEF MCNext, VirtioStep, PortStep, SysfsStep, CopyStep, KernelStep, ClientStep, EchoStep,
         NetStep, WindowStep, MemoryStep, Around, Others, programs, mcvars, BenchNext
<1> QED
  BY <1>1, <1>2, <1>3, <1>4, <1>5

\* Each begins in a first state of its own or stands still.
LEMMA ProgramsBegin == MCInit => ProgramsInv
<1>1. ASSUME CopyInit \/ CopyParked PROVE CopyInv
  <2>1. /\ CopyStart /\ turn = "open" /\ copy_exit \in {"none", "1"}
        /\ file_size \in 0 .. MaxFileSize
        /\ copier \in {"file_copy", "linked_copy"} \cup Pipelined
    <3>1. CASE CopyInit
      BY <3>1, CopyAssumption, Zenon DEF CopyInit
    <3>2. CASE CopyParked
      <4>1. 0 \in 0 .. MaxFileSize
        BY CopyAssumption
      <4> QED
        BY <3>2, <4>1, Zenon DEF CopyParked
    <3> QED
      BY <1>1, <3>1, <3>2
  <2> QED
    BY <2>1, InitCopyInv
<1>2. ASSUME BenchInit \/ BenchParked PROVE BenchInv
  <2>1. CASE BenchInit
    BY <2>1, InitBenchInv
  <2>2. CASE BenchParked
    <3>1. load = <<1, 1>> /\ bench_exit = "1" /\ BenchStart
      BY <2>2 DEF BenchParked
    <3>2. load \in (Nat \ {0}) \X (Nat \ {0})
      BY <3>1
    <3> QED
      BY <3>1, <3>2, BenchBegins
  <2> QED
    BY <1>2, <2>1, <2>2
<1> QED
  BY <1>1, <1>2, InitSysfsInv, InitPortInv, InitWindowInv
     DEF MCInit, ProgramsInv, FilesParked, LookupsParked

\* So whichever takes the step, all keep their invariants.
LEMMA ProgramsGoOn == ASSUME ProgramsInv, [MCNext]_mcvars PROVE ProgramsInv'
<1>1. SysfsInv'
  BY StepsOfOne, NextSysfsInv, StillSysfsInv DEF ProgramsInv
<1>2. PortInv'
  BY StepsOfOne, NextPortInv, StillPortInv DEF ProgramsInv
<1>3. WindowInv'
  BY StepsOfOne, NextWindowInv, StillWindowInv DEF ProgramsInv
<1>4. CopyInv'
  BY StepsOfOne, NextCopyInv, StillCopyInv DEF ProgramsInv
<1>5. BenchInv'
  BY StepsOfOne, NextBenchInv, StillBenchInv DEF ProgramsInv
<1> QED
  BY <1>1, <1>2, <1>3, <1>4, <1>5 DEF ProgramsInv

\* All six results hold of that composition, RegistersReached with its exception.
THEOREM ProgramsKeepTheirWord ==
  MCSpec => [](/\ SysfsOutcome /\ PortTornDown /\ PoolServesQueues /\ RegistersReached
               /\ CopiedOrTold /\ BenchVerdict)
<1>1. ProgramsInv => /\ SysfsOutcome /\ PortTornDown /\ PoolServesQueues /\ RegistersReached
                     /\ CopiedOrTold /\ BenchVerdict
  BY PortServed, WindowReached, CopyTold, BenchTrusted DEF ProgramsInv, SysfsInv, SysfsOutcome, SysfsEnded
<1> QED
  BY <1>1, ProgramsBegin, ProgramsGoOn, PTL DEF MCSpec

----
\* Consent.  What a sample may do without --yes: it reads the options, opens the
\* device, maps its registers and looks.
LooksOnly == {"options", "vfio_driver", "layout", "vfio", "caps", "common", "look"}
LookOps == {<<kind>> : kind \in LooksOnly}

VirtioConsent ==
  /\ at \in Nat \ {0}
  /\ ~invoked.yes => /\ invoked.ops \in Seq(LookOps) /\ locals \in Seq({"vfio", "common"})
                     /\ resetting = FALSE /\ mapped = FALSE /\ irq = FALSE

\* Nothing is there that the call of the plan has not let pass.
PortConsent ==
  /\ step > 5 => opts.yes
  /\ step <= 5 => /\ port = "idle" /\ rx = 0 /\ tx = 0 /\ mempool = "none"
                  /\ configured = FALSE /\ started = FALSE

\* A list of steps that only look.
LEMMA StepsLook == ASSUME NEW kinds \in Seq(LooksOnly) PROVE Steps(kinds) \in Seq(LookOps)
<1>1. \A k \in 1 .. Len(kinds) : <<kinds[k]>> \in LookOps
  BY DEF LookOps
<1>2. PICK n \in Nat : n = Len(kinds)
  OBVIOUS
<1>3. PICK f : f = [k \in 1 .. n |-> <<kinds[k]>>]
  OBVIOUS
<1>4. f \in [1 .. n -> LookOps]
  BY <1>1, <1>2, <1>3
<1>5. f \in Seq(LookOps)
  BY <1>4
<1> QED
  BY <1>2, <1>3, <1>5 DEF Steps

\* An invocation without --yes of a list of looks.
LEMMA ShowLooks ==
  ASSUME NEW ops \in Seq(LookOps), NEW plan
  PROVE  Invocation(FALSE, ops, plan).ops \in Seq(LookOps)
<1>1. <<"options", "vfio_driver">> \in Seq(LooksOnly)
  BY DEF LooksOnly
<1>2. Steps(<<"options", "vfio_driver">>) \in Seq(LookOps)
  BY <1>1, StepsLook
<1>3. PICK u \in Seq(LookOps) : u = Steps(<<"options", "vfio_driver">>)
  BY <1>2
<1>4. u \o ops \in Seq(LookOps)
  OBVIOUS
<1> QED
  BY <1>3, <1>4 DEF Invocation

\* What every main makes of a command line without --yes.
LEMMA WithoutYesLooks ==
  ASSUME NEW s \in DOMAIN Mains, NEW line \in Mains[s], ~line.yes
  PROVE  line.ops \in Seq(LookOps)
<1>1. ASSUME NEW ops, NEW plan, line = Invocation(TRUE, ops, plan) PROVE FALSE
  BY <1>1 DEF Invocation
<1>2. /\ <<"vfio", "caps", "common">> \in Seq(LooksOnly) /\ <<"vfio", "look">> \in Seq(LooksOnly)
      /\ <<"vfio", "look", "common">> \in Seq(LooksOnly) /\ <<"vfio", "caps">> \in Seq(LooksOnly)
      /\ <<"look">> \in Seq(LooksOnly) /\ <<"layout">> \in Seq(LooksOnly)
  BY DEF LooksOnly
<1>3. /\ Common \in Seq(LookOps) /\ VfioInfo \in Seq(LookOps) /\ ShowIrqs \in Seq(LookOps)
      /\ RegionDump \in Seq(LookOps) /\ VirtioCaps \in Seq(LookOps)
      /\ Steps(<<"look">>) \in Seq(LookOps) /\ Steps(<<"layout">>) \in Seq(LookOps)
  BY <1>2, StepsLook DEF Common, VfioInfo, ShowIrqs, RegionDump, VirtioCaps
<1>4. Common \o Steps(<<"look">>) \in Seq(LookOps)
  <2>1. PICK u \in Seq(LookOps), v \in Seq(LookOps) : u = Common /\ v = Steps(<<"look">>)
    BY <1>3
  <2>2. u \o v \in Seq(LookOps)
    OBVIOUS
  <2> QED
    BY <2>1, <2>2
<1>5. ASSUME NEW ops \in Seq(LookOps), line = Show(ops) PROVE line.ops \in Seq(LookOps)
  BY <1>5, ShowLooks DEF Show
<1>6. ASSUME NEW ops, NEW plan, line \in YesOrPlan(ops, plan) PROVE line.ops \in Seq(LookOps)
  BY <1>1, <1>3, <1>6, ShowLooks DEF YesOrPlan
<1>7. CASE s \in {"vfio_info", "region_dump", "virtio_caps", "common_cfg"}
  <2>1. line \in {Show(VfioInfo), Show(RegionDump), Show(VirtioCaps), Show(CommonCfg)}
    BY <1>7 DEF Mains, VfioInfoMain, RegionDumpMain, VirtioCapsMain, CommonCfgMain
  <2>2. CommonCfg \in Seq(LookOps)
    BY <1>4 DEF CommonCfg
  <2> QED
    BY <1>3, <1>5, <2>1, <2>2
<1>8. CASE s = "irq_eventfd"
  <2>1. line = Show(ShowIrqs) \/ line \in YesOrPlan(IrqEventfd, Says(<<"vfio", "irq", "wait">>, {}))
    BY <1>8 DEF Mains, IrqEventfdMain
  <2> QED
    BY <1>3, <1>5, <1>6, <2>1
<1>9. CASE s = "queue_info"
  <2>1. \/ line = Show(Common \o Steps(<<"look">>))
        \/ \E queues : line = Invocation(TRUE, QueueInfo(queues), Says(<<"view">>, {}))
    BY <1>9 DEF Mains, QueueInfoMain
  <2> QED
    BY <1>1, <1>4, <1>5, <2>1
<1>10. CASE s = "notify_info"
  <2>1. \/ line = Show(Common \o Steps(<<"look">>))
        \/ line = Invocation(TRUE, Common \o Steps(<<"look">>), Silent)
        \/ \E q : line = Invocation(TRUE, NotifyInfo(q), Says(<<"view">>, {}))
    BY <1>10 DEF Mains, NotifyInfoMain
  <2> QED
    BY <1>1, <1>4, <1>5, <2>1
<1>11. CASE s = "reset_status"
  <2>1. \/ line = Show(Common)
        \/ \E a : line = Invocation(TRUE, ResetStatus(a[1], a[2]), Silent)
    BY <1>11 DEF Mains, ResetStatusMain
  <2> QED
    BY <1>1, <1>3, <1>5, <2>1
<1>12. CASE s = "feature_bits"
  <2>1. \/ line = Show(Common)
        \/ \E ops, plan : line = Invocation(TRUE, ops, plan)
    BY <1>12 DEF Mains, FeatureBitsMain
  <2> QED
    BY <1>1, <1>3, <1>5, <2>1
<1>13. CASE s \in {"dma_map", "vring_map", "queue_program", "queue_enable", "notify_write",
                    "driver_ok", "rx_buffers", "rx_observe", "tx_packet", "rx_tx_echo",
                    "echo_loop", "irq_echo_loop", "ctrl_promisc", "promisc_observe",
                    "ctrl_mac_addr", "ctrl_mac_table"}
  <2>1. \E ops, plan : line \in YesOrPlan(ops, plan)
    BY <1>13 DEF Mains, DmaMapMain, VringMapMain, QueueProgramMain, QueueEnableMain, NotifyWriteMain,
                DriverOkMain, RxBuffersMain, RxObserveMain, TxPacketMain, RxTxEchoMain,
                EchoLoopMain, IrqEchoLoopMain, CtrlPromiscMain, PromiscObserveMain,
                CtrlMacAddrMain, CtrlMacTableMain
  <2> QED
    BY <1>6, <2>1
<1> QED
  BY <1>7, <1>8, <1>9, <1>10, <1>11, <1>12, <1>13 DEF Mains

\* A virtio sample without --yes never comes to an operation that changes
\* anything, and has no local whose destructor would.
LEMMA NextVirtioConsent ==
  ASSUME VirtioConsent, Run \/ Unwind \/ CompleteReset \/ UNCHANGED vars
  PROVE  VirtioConsent' /\ (invoked.yes \/ UNCHANGED <<device, mapped, irq>>)
<1>1. at \in Nat \ {0}
  BY DEF VirtioConsent
<1>2. at' \in {at, at + 1} /\ invoked' = invoked
  BY DEF vars, Run, Unwind, CompleteReset, Look, Observe, Open, EnableBusMastering, BindIrq, UnbindIrq,
         MapDma, UnmapDma, AskForReset, AwaitReset, WriteStatus, GuardSelection, SelectQueue,
         RestoreSelection, ProgramQueue, EnableQueue, ArmReset, Disarm, RestoreCommand, Leave,
         DestroyResetGuard, DestroyMapping, DestroySelection, DestroyCommand, DestroyIrq,
         DestroyMemory, CloseVfio, Exit, Pop, Advance, Throw
<1>3. at' \in Nat \ {0}
  BY <1>1, <1>2
<1>4. CASE invoked.yes
  BY <1>2, <1>3, <1>4 DEF VirtioConsent
<1>5. ASSUME ~invoked.yes
      PROVE  VirtioConsent' /\ UNCHANGED <<device, mapped, irq>>
  <2>0. /\ invoked.ops \in Seq(LookOps) /\ locals \in Seq({"vfio", "common"})
        /\ resetting = FALSE /\ mapped = FALSE /\ irq = FALSE
    BY <1>5 DEF VirtioConsent
  <2>1. ASSUME NEW op, Running(op) PROVE op \in LooksOnly
    <3>1. at \in 1 .. Len(invoked.ops) /\ invoked.ops[at][1] = op
      BY <1>1, <2>0, <2>1 DEF Running
    <3>2. invoked.ops[at] \in LookOps
      BY <2>0, <3>1
    <3>3. PICK kind \in LooksOnly : invoked.ops[at] = <<kind>>
      BY <3>2 DEF LookOps
    <3> QED
      BY <3>1, <3>3
  <2>2. ASSUME UNCHANGED <<device, mapped, irq>>, locals' \in Seq({"vfio", "common"})
        PROVE  VirtioConsent' /\ UNCHANGED <<device, mapped, irq>>
    BY <1>2, <1>3, <2>0, <2>2 DEF VirtioConsent, device
  <2>3. CASE Run
    <3>1. Look \/ Open \/ Leave
      BY <2>1, <2>3 DEF LooksOnly, Run, Observe, EnableBusMastering, BindIrq, UnbindIrq, MapDma,
         UnmapDma, AskForReset, AwaitReset, WriteStatus, GuardSelection, SelectQueue,
         RestoreSelection, ProgramQueue, EnableQueue, ArmReset, Disarm, RestoreCommand
    <3>2. UNCHANGED <<device, mapped, irq>>
      BY <3>1 DEF Look, Open, Leave
    <3>3. locals' = locals \/ \E op \in {"vfio", "common"} : locals' = Append(locals, op)
      <4>1. CASE Look \/ Leave
        BY <4>1 DEF Look, Leave
      <4>2. CASE Open
        <5>1. PICK op \in {"vfio", "common", "buffer"} : Running(op) /\ (Local(op) \/ locals' = locals)
          BY <4>2 DEF Open
        <5>2. op \in {"vfio", "common"}
          BY <2>1, <5>1 DEF LooksOnly
        <5> QED
          BY <5>1, <5>2 DEF Local
      <4> QED
        BY <3>1, <4>1, <4>2
    <3>4. locals' \in Seq({"vfio", "common"})
      BY <2>0, <3>3, SMTT(40)
    <3> QED
      BY <2>2, <3>2, <3>4
  <2>4. CASE Unwind
    <3>1. locals # << >> => Youngest \in {"vfio", "common"}
      BY <2>0 DEF Youngest
    <3>2. DestroyMemory \/ CloseVfio \/ Exit
      BY <2>4, <3>1 DEF Unwind, DestroyResetGuard, DestroyMapping, DestroySelection,
         DestroyCommand, DestroyIrq, Pop
    <3>3. UNCHANGED <<device, mapped, irq>>
      BY <2>0, <3>2 DEF DestroyMemory, CloseVfio, Exit
    <3>4. locals' = locals \/ (locals # << >> /\ locals' = SubSeq(locals, 1, Len(locals) - 1))
      BY <3>2 DEF DestroyMemory, CloseVfio, Exit, Pop
    <3>5. locals' \in Seq({"vfio", "common"})
      BY <2>0, <3>4
    <3> QED
      BY <2>2, <3>3, <3>5
  <2>5. CASE CompleteReset
    BY <2>0, <2>5 DEF CompleteReset
  <2>6. CASE UNCHANGED vars
    BY <2>0, <2>2, <2>6 DEF vars
  <2> QED
    BY <2>3, <2>4, <2>5, <2>6
<1> QED
  BY <1>4, <1>5

\* A DPDK sample does nothing to the port before the plan has been agreed to.
LEMMA NextPortConsent ==
  ASSUME PortInv, PortConsent, PortNext \/ UNCHANGED pvars
  PROVE  PortConsent' /\ (opts.yes \/ UNCHANGED <<port, rx, tx, mempool>>)
<1>0. /\ psample \in DOMAIN Calls /\ step \in 1 .. Len(Calls[psample]) + 1
      /\ phase = "starting" => step = 1
  BY DEF PortInv, PortTypeOK
<1>p. step \in 1 .. 15
  BY <1>0, CallPlaces
<1>c. /\ step > 5 => opts.yes
      /\ step <= 5 => /\ port = "idle" /\ rx = 0 /\ tx = 0 /\ mempool = "none"
                      /\ configured = FALSE /\ started = FALSE
  BY DEF PortConsent
<1>1. ASSUME step' \in {step, step + 1}, opts' = opts, step = 5 /\ step' = 6 => opts.yes,
             step <= 5 => UNCHANGED <<port, rx, tx, mempool, configured, started>>
      PROVE  PortConsent' /\ (opts.yes \/ UNCHANGED <<port, rx, tx, mempool>>)
  <2>1. CASE step <= 5
    BY <1>1, <1>c, <1>p, <2>1 DEF PortConsent
  <2>2. CASE step > 5
    BY <1>1, <1>c, <1>p, <2>2 DEF PortConsent
  <2> QED
    BY <1>p, <2>1, <2>2
<1>2. CASE ParseOptions
  <2>1. step = 1
    BY <1>0, <1>2, CallPlaces DEF ParseOptions
  <2>2. step' \in {1, 2} /\ UNCHANGED <<configured, started, port, rx, tx, mempool>>
    BY <1>2, <2>1 DEF ParseOptions, Return, Raise, dpdk
  <2> QED
    BY <1>c, <2>1, <2>2 DEF PortConsent
<1>3. CASE Plan
  <2>1. step = 5
    BY <1>0, <1>3, CallPlaces DEF Plan
  <2>2. /\ (opts.yes /\ step' = 6) \/ step' = 5
        /\ UNCHANGED <<opts, configured, started, port, rx, tx, mempool>>
    BY <1>3, <2>1 DEF Plan, Return, dpdk
  <2> QED
    BY <1>1, <2>1, <2>2
<1>4. CASE AskPort \/ ValidateRequest
  <2>1. step # 5
    BY <1>0, <1>4, CallPlaces DEF AskPort, ValidateRequest
  <2>2. step' \in {step, step + 1} /\ UNCHANGED <<opts, configured, started, port, rx, tx, mempool>>
    BY <1>4 DEF AskPort, ValidateRequest, Return, Raise, dpdk
  <2> QED
    BY <1>1, <2>1, <2>2
<1>5. CASE Configure \/ AdjustDescriptors \/ CreatePool \/ SetUpRxQueue \/ SetUpTxQueue
           \/ StartPort \/ WaitForLink \/ StopPort
  <2>1. \E c \in {"configure", "adjust", "pool", "rxq", "txq", "start", "link", "stop"} : Calling(c)
    BY <1>5 DEF Configure, AdjustDescriptors, CreatePool, SetUpRxQueue, SetUpTxQueue,
                StartPort, WaitForLink, StopPort
  <2>2. step > 5
    BY <1>0, <2>1, CallPlaces
  <2>3. step' \in {step, step + 1} /\ opts' = opts
    BY <1>5 DEF Configure, AdjustDescriptors, CreatePool, SetUpRxQueue, SetUpTxQueue,
                StartPort, WaitForLink, StopPort, Return, Raise
  <2> QED
    BY <1>1, <1>p, <2>2, <2>3
<1>6. CASE EalInit \/ LinkComesUp \/ EndOfCalls \/ UNCHANGED pvars
  <2>1. step' = step /\ UNCHANGED <<opts, configured, started, port, rx, tx, mempool>>
    BY <1>6 DEF EalInit, LinkComesUp, EndOfCalls, pvars, dpdk
  <2> QED
    BY <1>1, <1>p, <2>1
<1>7. CASE CatchStop \/ ClosePort \/ FreePool \/ CleanUpEal
  <2>1. step' = step /\ opts' = opts
    BY <1>7 DEF CatchStop, ClosePort, FreePool, CleanUpEal
  <2>2. step <= 5 => UNCHANGED <<port, rx, tx, mempool, configured, started>>
    BY <1>7, <1>c DEF CatchStop, ClosePort, FreePool, CleanUpEal
  <2> QED
    BY <1>1, <1>p, <2>1, <2>2
<1> QED
  BY <1>2, <1>3, <1>4, <1>5, <1>6, <1>7 DEF PortNext, PortRun

\* The sysfs tools write in one place, which looks at --yes.
LEMMA NextSysfsConsent ==
  ASSUME SysfsInv, SysfsNext \/ UNCHANGED svars
  PROVE  asked.yes \/ UNCHANGED sysfs \/ disturbed # disturbed'
<1>1. CASE Disturb
  BY <1>1 DEF Disturb
<1>2. CASE UNCHANGED svars
  BY <1>2 DEF svars
<1>3. ASSUME NEW new, NEW next, Write(new, next), ~asked.yes PROVE UNCHANGED sysfs
  BY <1>3 DEF Write, NoWrite
<1>4. CASE Dispatch \/ VerifyUnbound \/ VerifyBound \/ VerifyVfs
  BY <1>4 DEF Dispatch, VerifyUnbound, VerifyBound, VerifyVfs, NoWrite
<1>5. CASE UnbindCurrent
  BY <1>3, <1>5 DEF UnbindCurrent, NoWrite
<1>6. CASE WriteOverride
  BY <1>3, <1>6 DEF WriteOverride, NoWrite
<1>7. CASE WriteBind
  BY <1>3, <1>7 DEF WriteBind
<1>8. CASE WriteVfs
  BY <1>3, <1>8 DEF WriteVfs, NoWrite
<1> QED
  BY <1>1, <1>2, <1>4, <1>5, <1>6, <1>7, <1>8 DEF SysfsNext, SysfsRun

\* Without --yes no program changes the device, the port or the sysfs files: in
\* no step, on no path, for no number of queues and of virtual functions.
THEOREM ConsentFirst == MCSpec => NothingWithoutYes
<1> DEFINE ConsentInv == ProgramsInv /\ VirtioConsent /\ PortConsent
<1>1. MCInit => ConsentInv
  <2>1. MCInit => ProgramsInv
    BY ProgramsBegin
  <2>2. ASSUME Init \/ VirtioParked PROVE VirtioConsent
    <3>1. /\ at = 1 /\ locals = << >> /\ resetting = FALSE /\ mapped = FALSE /\ irq = FALSE
          /\ \E s \in DOMAIN Mains : invoked \in Mains[s]
      <4>1. CASE Init
        BY <4>1, SamplesAssumption DEF Init
      <4>2. CASE VirtioParked
        <5>1. Show(VfioInfo) \in Mains["vfio_info"] /\ "vfio_info" \in DOMAIN Mains
          BY DEF Mains, VfioInfoMain
        <5> QED
          BY <4>2, <5>1 DEF VirtioParked
      <4> QED
        BY <2>2, <4>1, <4>2
    <3>2. << >> \in Seq({"vfio", "common"})
      OBVIOUS
    <3> QED
      BY <3>1, <3>2, WithoutYesLooks DEF VirtioConsent
  <2>3. ASSUME PortInit \/ PortParked PROVE PortConsent
    BY <2>3 DEF PortInit, PortParked, PortStart, PortConsent
  <2> QED
    BY <2>1, <2>2, <2>3 DEF MCInit
<1>2. ASSUME ConsentInv, [MCNext]_mcvars
      PROVE  /\ ConsentInv'
             /\ invoked.yes \/ UNCHANGED <<device, mapped, irq>>
             /\ opts.yes \/ UNCHANGED <<port, rx, tx, mempool>>
             /\ asked.yes \/ UNCHANGED sysfs \/ disturbed # disturbed'
  <2>1. Run \/ Unwind \/ CompleteReset \/ UNCHANGED vars
    BY <1>2 DEF MCNext, VirtioStep, PortStep, SysfsStep, CopyStep, KernelStep, ClientStep, EchoStep,
                NetStep, WindowStep, MemoryStep, Around, Others, programs, mcvars
  <2>2. PortNext \/ UNCHANGED pvars
    BY <1>2, StepsOfOne
  <2>3. SysfsNext \/ UNCHANGED svars
    BY <1>2, StepsOfOne
  <2>4. ProgramsInv'
    BY <1>2, ProgramsGoOn
  <2>5. VirtioConsent' /\ (invoked.yes \/ UNCHANGED <<device, mapped, irq>>)
    BY <1>2, <2>1, NextVirtioConsent
  <2>6. PortConsent' /\ (opts.yes \/ UNCHANGED <<port, rx, tx, mempool>>)
    BY <1>2, <2>2, NextPortConsent DEF ProgramsInv
  <2>7. asked.yes \/ UNCHANGED sysfs \/ disturbed # disturbed'
    BY <1>2, <2>3, NextSysfsConsent DEF ProgramsInv
  <2> QED
    BY <2>4, <2>5, <2>6, <2>7
<1> HIDE DEF ConsentInv
<1> QED
  BY <1>1, <1>2, PTL DEF MCSpec, NothingWithoutYes
====
