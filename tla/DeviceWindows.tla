---- MODULE DeviceWindows ----
(***************************************************************************)
(* How a sample gets at the registers of its device (vfio_utils.hpp): it   *)
(* walks the capability list of configuration space, and maps the part of  *)
(* a BAR that the capability it needs names.                               *)
(*                                                                         *)
(* What the device says is arbitrary: where the list goes next, what the   *)
(* capabilities are, and where in which BAR their registers lie: offsets   *)
(* and lengths have any of the values 0 .. WordMax of a std::uint64_t, and *)
(* sums are modulo WordMax + 1, as the code's are.  A behaviour is one     *)
(* walk, or one mapping.                                                   *)
(***************************************************************************)
EXTENDS Naturals, Sequences, FiniteSets

CONSTANTS PointerBytes,   \* bound: what a pointer of the list may be
          ConfigSize,     \* size of configuration space
          WordMax,        \* largest std::uint64_t, and size_t
          PageBytes,      \* page size
          QueueBytes,     \* COMMON_CFG up to the end of the queue addresses
          CommonBytes,    \* the bytes of COMMON_CFG that are mapped
          BarSizes, Offsets, Lengths   \* bound: BARs, and capabilities in them

ASSUME PointerAssumption == PointerBytes \subseteq 0 .. 255 /\ ConfigSize \in Nat
ASSUME WindowAssumption ==
  /\ WordMax \in Nat /\ PageBytes \in Nat \ {0}
  /\ CommonBytes \in Nat /\ QueueBytes \in 1 .. CommonBytes
  /\ BarSizes \cup Offsets \cup Lengths \subseteq 0 .. WordMax

VARIABLES
  cap, hop,     \* next byte of the list, and how many capabilities it has had
  visited,      \* offsets that were capabilities
  caps,         \* the virtio capabilities found: [at, len, type]
  lookup,       \* "walking", "found", "mapping", "mapped" (mmap has been asked for
                \* the window: that the kernel agrees is not assumed) or "failed"
  bar,          \* the capability that is mapped, and its region: see BarWindows
  window        \* what is mapped: [at, delta, size]

wvars == <<cap, hop, visited, caps, lookup, bar, window>>

\* struct virtio_pci_cap, virtio_pci_notify_cap and virtio_pci_cap64: from its
\* size on, offset and length have 64 bits.
CapSize == 16
NotifySize == 20
Cap64Size == 24

\* What map_* is told: the size of the region (0 if it is not there or cannot be
\* mapped), where the capability lies in it and a queue's notify address in that,
\* and the areas that may be mapped (none listed: all of it may).
Kinds == {"common", "device", "notify"}
Areas == {{}} \cup {{[offset |-> o, size |-> s]} : o \in Offsets, s \in Lengths}
BarWindows ==
  {w \in [kind : Kinds, size : BarSizes, offset : Offsets, length : Lengths,
           into : Lengths, areas : Areas] : w.kind = "notify" \/ w.into = 0}
Unmapped == [at |-> 0, delta |-> 0, size |-> 0]
NoWindow == [kind |-> "common", size |-> 0, offset |-> 0, length |-> 0, into |-> 0,
             areas |-> {}]

WalkStart == /\ hop = 0 /\ visited = {} /\ caps = << >> /\ window = Unmapped
WindowInit == /\ WalkStart
              /\ \/ cap \in PointerBytes /\ lookup = "walking" /\ bar = NoWindow
                 \/ cap = 0 /\ lookup = "mapping" /\ bar \in BarWindows

----
\* cap &= ~0x3
Slot(byte) == byte - (byte % 4)

\* Mutant: a capability may come again.
ListedAgain(byte) == Slot(byte) >= 64 /\ Slot(byte) + 2 <= ConfigSize

\* The byte is that of another capability.
Listed(byte) == Slot(byte) >= 64 /\ Slot(byte) + 2 <= ConfigSize /\ Slot(byte) \notin visited

Hops == lookup = "walking" /\ cap # 0 /\ hop < 64 /\ Listed(cap)
NextCap == /\ Hops
           /\ visited' = visited \cup {Slot(cap)} /\ cap' \in PointerBytes /\ hop' = hop + 1
           /\ UNCHANGED <<bar, window>>

\* One that is not virtio's, or too short, or goes beyond configuration space.
SkipCap == NextCap /\ UNCHANGED <<caps, lookup>>
TakeCap ==
  /\ NextCap
  /\ \E type \in Kinds, len \in {CapSize, NotifySize, Cap64Size} :
       /\ Slot(cap) + len <= ConfigSize
       /\ IF type = "notify" /\ len < NotifySize
          THEN lookup' = "failed" /\ caps' = caps
          ELSE lookup' = lookup /\ caps' = Append(caps, [at |-> Slot(cap), len |-> len, type |-> type])

\* The end of the list; the first capability of the type that is needed, if any.
FindCap ==
  /\ lookup = "walking" /\ ~Hops
  /\ \E type \in Kinds :
       lookup' = IF \E k \in DOMAIN caps : caps[k].type = type THEN "found" ELSE "failed"
  /\ UNCHANGED <<cap, hop, visited, caps, bar, window>>

----
LesserOf(a, b) == IF a < b THEN a ELSE b

\* a + b in 64 bits
WordSum(a, b) == (a + b) % (WordMax + 1)

\* require_mmap_area_contains, MmapArea::contains
Contains(area, offset, size) ==
  /\ offset >= area.offset /\ offset - area.offset <= area.size
  /\ size <= area.size - (offset - area.offset)
MayMap(offset, size) ==
  bar.areas = {} \/ \E area \in bar.areas : Contains(area, offset, size)

\* MappedRegion(mapping_size, mmap_offset): whole pages up to the range.
MapRange(offset, size) ==
  /\ window' = [at |-> offset - (offset % PageBytes), delta |-> offset % PageBytes,
                size |-> WordSum(offset % PageBytes, size)]
  /\ lookup' = "mapped"

\* What is there of the capability, and of that what is looked at.
Inspected ==
  LET there == LesserOf(bar.length, bar.size - bar.offset)
  IN  IF bar.kind = "common" THEN LesserOf(there, CommonBytes) ELSE there

\* map_common_cfg and map_device_cfg.
MapConfig ==
  /\ lookup = "mapping" /\ bar.kind \in {"common", "device"}
  /\ bar.offset < bar.size /\ (bar.kind = "common" => bar.length >= QueueBytes)
  /\ MayMap(bar.offset, Inspected)
  /\ MapRange(bar.offset, Inspected)
  /\ UNCHANGED <<cap, hop, visited, caps, bar>>

\* map_notify_window: the two bytes of a queue, into bytes after the start of
\* the capability (queue_notify_off times the multiplier, of 48 bits at most).
NotifyBytes == 2
NotifyOffset == WordSum(bar.offset, bar.into)
NotifyEnd == WordSum(NotifyOffset, NotifyBytes)

\* Mutant: that the offset has wrapped is not looked at.
EndsInNotifyCfg == NotifyEnd <= WordSum(bar.offset, bar.length)

InNotifyCfg == ~(NotifyOffset < bar.offset) /\ NotifyEnd <= WordSum(bar.offset, bar.length)

MapNotify ==
  /\ lookup = "mapping" /\ bar.kind = "notify" /\ bar.size # 0
  /\ NotifyEnd <= bar.size /\ InNotifyCfg
  /\ MayMap(NotifyOffset, NotifyBytes)
  /\ MapRange(NotifyOffset, NotifyBytes)
  /\ UNCHANGED <<cap, hop, visited, caps, bar>>

\* Configuration space cannot be read, or a check or mmap fails.
LookupFails ==
  /\ lookup \in {"walking", "mapping"} /\ lookup' = "failed"
  /\ UNCHANGED <<cap, hop, visited, caps, bar, window>>

WindowRun == SkipCap \/ TakeCap \/ FindCap \/ MapConfig \/ MapNotify \/ LookupFails
WindowSpec == WindowInit /\ [][WindowRun]_wvars /\ WF_wvars(WindowRun)
WindowEnded == lookup \in {"found", "mapped", "failed"}

----
WindowTypeOK ==
  /\ cap \in PointerBytes \cup {0} /\ hop \in 0 .. 64 /\ visited \subseteq 64 .. 255
  /\ lookup \in {"walking", "found", "mapping", "mapped", "failed"}
  /\ bar \in BarWindows \cup {NoWindow}

\* However the list is linked, also to itself, the walk comes to every capability
\* once, and before the limit of hops: what it returns are capabilities of
\* configuration space that do not begin twice.
CapsOnce ==
  /\ hop < 64
  /\ \A k \in DOMAIN caps : caps[k].at + caps[k].len <= ConfigSize
  /\ \A j, k \in DOMAIN caps : caps[j].at = caps[k].at => j = k

\* check_range of a MappedRegion
InRange(offset, width) == ~(offset > window.size) /\ ~(width > window.size - offset)

\* What map_notify_window lets through: two bytes that begin at one of the last
\* two offsets of 64 bits.  Their end wraps to 0 or 1 and passes both comparisons,
\* and only mmap can refuse a window that no BAR has.
NotifyWraps == bar.kind = "notify" /\ NotifyOffset + NotifyBytes > WordMax

\* A window begins with a page; and every access that MappedRegion lets through,
\* at its delta or beyond, is to bytes of the capability, of its BAR and of an
\* area that may be mapped, but for the exception above.
WindowInside ==
  lookup = "mapped" =>
    /\ window.at % PageBytes = 0
    /\ NotifyWraps \/ \A offset \in window.delta .. window.size, width \in 1 .. 4 :
         InRange(offset, width) =>
           LET first == window.at + offset IN
           /\ first >= bar.offset /\ first + width <= bar.offset + bar.length
           /\ first + width <= bar.size
           /\ bar.areas = {} \/ \E a \in bar.areas :
                first >= a.offset /\ first + width <= a.offset + a.size

RegistersReached == WindowTypeOK /\ CapsOnce /\ WindowInside
====
