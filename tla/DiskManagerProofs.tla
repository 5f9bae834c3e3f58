--------------------------- MODULE DiskManagerProofs ---------------------------
(***************************************************************************)
(* Proofs about the disk manager, for every finite set of device names,    *)
(* every number of mount points and every bound.                           *)
(***************************************************************************)
EXTENDS DiskManager, SequenceTheorems, FiniteSetTheorems, WellFoundedInduction, TLAPS

-----------------------------------------------------------------------------
(* The inductive invariant of the list and the mounts.                     *)

DiskInfo == [dev : Disk, point : Point]
Item == 1 .. Len(items)
Operate == {"plugin", "plugout"}
Uevent == [op : {"add", "remove", "static"}, dev : Disk]
HotplugMessage == [operate : Operate, item : Item]

KernelTypes ==
    /\ plugged \in SUBSET Disk
    /\ uevents \in Seq(Uevent)
    /\ mounts \in Seq(DiskInfo)

ListTypes ==
    /\ items \in Seq(DiskInfo)
    /\ freed \in SUBSET Item
    /\ disks \in Seq(Item)
    /\ messages \in Seq(HotplugMessage)

HealthdTypes ==
    /\ healthd \in [pc : {"idle", "list", "signal"}]
                   \cup [pc : {"mount"}, dev : Disk, point : Point]
                   \cup [pc : {"put"}, operate : Operate, item : Item]
    /\ healthd.pc = "list" => items # <<>>

LooperTypes ==
    looper \in [pc : {"pop", "block", "wait", "take"}]
               \cup [pc : {"tell"}, operate : Operate, item : Item]
               \cup [pc : {"delete", "unmount"}, operate : {"plugout"}, item : Item]

Types == KernelTypes /\ ListTypes /\ HealthdTypes /\ LooperTypes

InList(i) == \E k \in DOMAIN disks : disks[k] = i

\* A disk that is out of the list and not unmounted yet.
Leaving == looper.pc = "unmount" \/ (looper.pc = "tell" /\ looper.operate = "plugout")

\* An item is mounted when something is at its point besides what the message
\* thread is about to unmount there.
Holds(i) ==
    /\ \E k \in DOMAIN mounts : mounts[k].point = items[i].point
    /\ Leaving /\ items[looper.item].point = items[i].point =>
          \E j, k \in DOMAIN mounts :
             j < k /\ mounts[j].point = items[i].point /\ mounts[k].point = items[i].point

\* No two disks of the list have a mount point in common.
PointsApart ==
    \A j, k \in DOMAIN disks : items[disks[j]].point = items[disks[k]].point => j = k

\* The mount point that healthd is mounting at, or has mounted at, is nobody's.
MountingApart ==
    healthd.pc = "mount" =>
        \A k \in DOMAIN disks : items[disks[k]].point # healthd.point

ListingApart ==
    healthd.pc = "list" =>
        /\ \A k \in DOMAIN disks : items[disks[k]].point # items[Len(items)].point
        /\ Len(items) \notin freed
        /\ Leaving => looper.item # Len(items)
        /\ Holds(Len(items))

ListedHolds == \A k \in DOMAIN disks : disks[k] \notin freed /\ Holds(disks[k])

\* A disk whose unplugging is announced is in the list until it is taken out.
Gone(i) == InList(i) \/ i \in freed \/ (Leaving /\ i = looper.item)

AnnouncedIsGone ==
    /\ \A k \in DOMAIN messages : messages[k].operate = "plugout" => Gone(messages[k].item)
    /\ healthd.pc = "put" /\ healthd.operate = "plugout" => Gone(healthd.item)

LeavingIsOut ==
    /\ alive /\ looper.pc = "delete" => InList(looper.item)
    /\ Leaving => /\ ~InList(looper.item)
                  /\ \E k \in DOMAIN mounts : mounts[k].point = items[looper.item].point

MountInv ==
    PointsApart /\ MountingApart /\ ListingApart /\ ListedHolds /\ AnnouncedIsGone
    /\ LeavingIsOut

IInv == Types /\ MountInv

-----------------------------------------------------------------------------
(* Sequences and numbers.                                                  *)

LEMMA RemoveAtProperties ==
    ASSUME NEW S, NEW s \in Seq(S), NEW r \in 1 .. Len(s)
    PROVE  /\ RemoveAt(s, r) \in Seq(S)
           /\ Len(RemoveAt(s, r)) = Len(s) - 1
           /\ \A k \in 1 .. Len(s) - 1 :
                 RemoveAt(s, r)[k] = IF k < r THEN s[k] ELSE s[k + 1]
<1> DEFINE a == SubSeq(s, 1, r - 1)
           b == SubSeq(s, r + 1, Len(s))
<1>1. Len(s) \in Nat /\ \A k \in 1 .. Len(s) : s[k] \in S
  OBVIOUS
<1>2. a \in Seq(S) /\ Len(a) = r - 1 /\ \A k \in 1 .. r - 1 : a[k] = s[k]
  <2>1. \A k \in 1 .. r - 1 : s[k] \in S
    BY <1>1
  <2>2. a \in Seq(S) /\ Len(a) = (IF 1 <= r - 1 THEN (r - 1) - 1 + 1 ELSE 0)
        /\ \A k \in 1 .. (r - 1) - 1 + 1 : a[k] = s[1 + k - 1]
    BY <1>1, <2>1, SubSeqProperties
  <2>3. QED
    BY <1>1, <2>2
<1>3. b \in Seq(S) /\ Len(b) = Len(s) - r /\ \A k \in 1 .. Len(s) - r : b[k] = s[r + k]
  <2>1. \A k \in r + 1 .. Len(s) : s[k] \in S
    BY <1>1
  <2>2. b \in Seq(S) /\ Len(b) = (IF r + 1 <= Len(s) THEN Len(s) - (r + 1) + 1 ELSE 0)
        /\ \A k \in 1 .. Len(s) - (r + 1) + 1 : b[k] = s[r + 1 + k - 1]
    BY <1>1, <2>1, SubSeqProperties
  <2>3. QED
    BY <1>1, <2>2
<1> HIDE DEF a, b
<1>4. /\ a \o b \in Seq(S) /\ Len(a \o b) = Len(a) + Len(b)
      /\ \A k \in 1 .. Len(a) + Len(b) :
            (a \o b)[k] = IF k <= Len(a) THEN a[k] ELSE b[k - Len(a)]
  BY <1>2, <1>3, ConcatProperties
<1>5. Len(a \o b) = Len(s) - 1
  BY <1>1, <1>2, <1>3, <1>4
<1>6. ASSUME NEW k \in 1 .. Len(s) - 1
      PROVE  (a \o b)[k] = IF k < r THEN s[k] ELSE s[k + 1]
  <2>1. CASE k < r
    <3>1. k \in 1 .. r - 1 /\ k <= Len(a) /\ k \in 1 .. Len(a) + Len(b)
      BY <1>1, <1>2, <1>3, <2>1
    <3>2. QED
      BY <1>2, <1>4, <2>1, <3>1
  <2>2. CASE ~(k < r)
    <3>1. /\ k - Len(a) \in 1 .. Len(s) - r /\ ~(k <= Len(a)) /\ k \in 1 .. Len(a) + Len(b)
          /\ r + (k - Len(a)) = k + 1
      BY <1>1, <1>2, <1>3, <2>2
    <3>2. (a \o b)[k] = b[k - Len(a)]
      BY <1>4, <3>1
    <3>3. b[k - Len(a)] = s[k + 1]
      BY <1>3, <3>1
    <3>4. QED
      BY <2>2, <3>2, <3>3
  <2>3. QED
    BY <2>1, <2>2
<1>7. QED
  BY <1>4, <1>5, <1>6 DEF RemoveAt, a, b

Less == {p \in Nat \X Nat : p[1] < p[2]}

\* A set of numbers has a least one.
LEMMA Least ==
    ASSUME NEW K \in SUBSET Nat, K # {}
    PROVE  \E k \in K : \A j \in K : k <= j
<1>1. IsWellFoundedOn(Less, Nat)
  BY NatLessThanWellFounded DEF OpToRel, Less
<1>2. PICK k \in K : \A j \in K : ~(<<j, k>> \in Less)
  BY <1>1, WFMin
<1>3. ASSUME NEW j \in K PROVE k <= j
  <2>1. j \in Nat /\ k \in Nat /\ (j < k => <<j, k>> \in Less)
    BY DEF Less
  <2>2. QED
    BY <1>2, <2>1
<1>4. QED
  BY <1>3

\* A set of places of a sequence has a last one.
LEMMA Greatest ==
    ASSUME NEW n \in Nat, NEW K \in SUBSET (1 .. n), K # {}
    PROVE  \E k \in K : \A j \in K : j <= k
<1> DEFINE M == {m \in Nat : n - m \in K}
<1>1. ASSUME NEW k \in K PROVE n - k \in M
  <2>1. k \in 1 .. n
    OBVIOUS
  <2>2. n - k \in Nat /\ n - (n - k) = k
    BY <2>1
  <2>3. QED
    BY <2>2
<1>2. PICK m \in M : \A j \in M : m <= j
  <2>1. M \in SUBSET Nat /\ M # {}
    BY <1>1
  <2>2. QED
    BY <2>1, Least
<1>3. ASSUME NEW j \in K PROVE j <= n - m
  <2>1. m <= n - j
    BY <1>1, <1>2
  <2>2. QED
    BY <1>2, <2>1
<1>4. QED
  BY <1>2, <1>3

-----------------------------------------------------------------------------
(* Types.                                                                  *)

\* The first entry of a list of names found at start is an event for each.
LEMMA StaticEvents ==
    ASSUME plugged \in SUBSET Disk, NEW found \in SetToSeqs(plugged)
    PROVE  [k \in DOMAIN found |-> Event("static", found[k])] \in Seq(Uevent)
<1>1. Cardinality(plugged) \in Nat
  BY DiskAssumption, FS_Subset, FS_CardinalityType
<1>2. found \in [1 .. Cardinality(plugged) -> plugged]
  BY DEF SetToSeqs
<1>3. \A k \in 1 .. Cardinality(plugged) : Event("static", found[k]) \in Uevent
  BY <1>2 DEF Event, Uevent
<1>4. QED
  BY <1>1, <1>2, <1>3, IsASeq

LEMMA KernelTypesStep ==
    ASSUME Types, Kernel
    PROVE  Types'
<1>1. UNCHANGED <<mounts, items, freed, disks, messages, healthd, looper>>
  BY DEF Kernel, Plug, Unplug, lists
<1>2. PICK d \in Disk, o \in {"add", "remove"} :
          /\ plugged' \in {plugged \cup {d}, plugged \ {d}}
          /\ uevents' = Append(uevents, Event(o, d))
  BY DEF Kernel, Plug, Unplug
<1>3. plugged' \in SUBSET Disk
  BY <1>2 DEF Types, KernelTypes
<1>4. uevents' \in Seq(Uevent)
  <2>1. Event(o, d) \in Uevent
    BY DEF Event, Uevent
  <2>2. QED
    BY <1>2, <2>1 DEF Types, KernelTypes
<1>5. QED
  BY <1>1, <1>3, <1>4 DEF Types, KernelTypes, ListTypes, HealthdTypes, LooperTypes, Item, HotplugMessage

\* A free mount point is one of the mount points.
LEMMA MountPointIsFree ==
    ASSUME FreePoints # {}
    PROVE  MountPoint \in FreePoints
<1>1. FreePoints \in SUBSET Nat
  BY DiskAssumption DEF FreePoints, Point
<1>2. \E p \in FreePoints : \A q \in FreePoints : p <= q
  BY <1>1, Least
<1>3. QED
  BY <1>2 DEF MountPoint

\* The first disk of the list with a name.
LEMMA FirstListed ==
    ASSUME ListTypes, NEW K \in SUBSET DOMAIN disks, K # {}
    PROVE  (CHOOSE k \in K : \A j \in K : k <= j) \in K
<1>1. K \in SUBSET Nat
  BY DEF ListTypes
<1>2. \E k \in K : \A j \in K : k <= j
  BY <1>1, Least
<1>3. QED
  BY <1>2

\* What healthd can be doing.
LEMMA HealthdCases ==
    ASSUME HealthdTypes
    PROVE  /\ healthd.pc \in {"idle", "list", "signal", "mount", "put"}
           /\ healthd.pc = "mount" => healthd.dev \in Disk /\ healthd.point \in Point
           /\ healthd.pc = "put" => healthd.operate \in Operate /\ healthd.item \in Item
  BY DEF HealthdTypes

\* What the message thread can be doing.
LEMMA LooperCases ==
    ASSUME LooperTypes
    PROVE  /\ looper.pc \in {"pop", "block", "wait", "take", "tell", "delete", "unmount"}
           /\ looper.pc \in {"tell", "delete", "unmount"} =>
                 looper.operate \in Operate /\ looper.item \in Item
           /\ looper.pc \in {"delete", "unmount"} => looper.operate = "plugout"
  BY DEF LooperTypes, Operate

\* The event that healthd reads.
LEMMA HeadEvent ==
    ASSUME KernelTypes, uevents # <<>>
    PROVE  Head(uevents) \in Uevent /\ Head(uevents).dev \in Disk /\ Tail(uevents) \in Seq(Uevent)
<1>1. Head(uevents) \in Uevent /\ Tail(uevents) \in Seq(Uevent)
  BY HeadTailProperties DEF KernelTypes
<1>2. QED
  BY <1>1 DEF Uevent

LEMMA HealthdTypesStep ==
    ASSUME Types, Healthd
    PROVE  Types'
<1>1. CASE BootCheck
  <2>1. UNCHANGED <<plugged, mounts, items, freed, disks, messages, healthd>> /\ looper' = looper
    BY <1>1 DEF Healthd, BootCheck, SignalMessage, lists
  <2>2. uevents' \in Seq(Uevent)
    BY <1>1, StaticEvents, ConcatProperties DEF BootCheck, Types, KernelTypes
  <2>3. QED
    BY <2>1, <2>2 DEF Types, KernelTypes, ListTypes, HealthdTypes, LooperTypes, Item, HotplugMessage
<1>2. CASE PlugIn
  <2>1. UNCHANGED <<plugged, mounts, items, freed, disks, messages>> /\ looper' = looper
    BY <1>2 DEF Healthd, PlugIn, SignalMessage, lists
  <2>2. uevents' \in Seq(Uevent)
    BY <1>2, HeadEvent DEF PlugIn, Types
  <2>3. healthd' \in [pc : {"idle"}] \cup [pc : {"mount"}, dev : Disk, point : Point]
    <3>1. FreePoints # {} => MountPoint \in Point
      BY MountPointIsFree DEF FreePoints
    <3>2. QED
      BY <1>2, <3>1, HeadEvent DEF PlugIn, Types, Idle
  <2>4. HealthdTypes'
    BY <2>3 DEF HealthdTypes
  <2>5. QED
    BY <2>1, <2>2, <2>4 DEF Types, KernelTypes, ListTypes, LooperTypes, Item, HotplugMessage
<1>3. CASE PlugOut
  <2>1. UNCHANGED <<plugged, mounts, items, freed, disks, messages>> /\ looper' = looper
    BY <1>3 DEF Healthd, PlugOut, SignalMessage, lists
  <2>2. uevents' \in Seq(Uevent)
    BY <1>3, HeadEvent DEF PlugOut, Types
  <2>3. healthd' \in [pc : {"idle"}] \cup [pc : {"put"}, operate : Operate, item : Item]
    <3> DEFINE found == Listed(Head(uevents).dev)
               first == CHOOSE k \in found : \A j \in found : k <= j
    <3>1. found # {} => first \in DOMAIN disks
      BY FirstListed DEF Types, Listed
    <3>2. found # {} => disks[first] \in Item
      BY <3>1 DEF Types, ListTypes
    <3>3. healthd' = IF found = {} THEN Idle
                     ELSE [pc |-> "put", operate |-> "plugout", item |-> disks[first]]
      BY <1>3 DEF PlugOut
    <3> HIDE DEF found, first
    <3>4. QED
      BY <3>2, <3>3 DEF Idle, Operate
  <2>4. HealthdTypes'
    BY <2>1, <2>3 DEF HealthdTypes, Item
  <2>5. QED
    BY <2>1, <2>2, <2>4 DEF Types, KernelTypes, ListTypes, LooperTypes, Item, HotplugMessage
<1>4. CASE Mount
  <2>1. UNCHANGED <<plugged, uevents, freed, disks, messages>> /\ looper' = looper
    BY <1>4 DEF Healthd, Mount, SignalMessage
  <2>2. healthd.dev \in Disk /\ healthd.point \in Point
    BY <1>4, HealthdCases DEF Mount, Types
  <2>3. CASE UNCHANGED <<mounts, items>> /\ healthd' = Idle
    BY <2>1, <2>3 DEF Types, KernelTypes, ListTypes, HealthdTypes, LooperTypes, Item,
           HotplugMessage, Idle
  <2>4. CASE /\ mounts' = Append(mounts, [dev |-> healthd.dev, point |-> healthd.point])
             /\ items' = Append(items, [dev |-> healthd.dev, point |-> healthd.point])
             /\ healthd' = [pc |-> "list"]
    <3> DEFINE new == [dev |-> healthd.dev, point |-> healthd.point]
    <3>1. new \in DiskInfo
      BY <2>2 DEF DiskInfo
    <3>2. mounts' \in Seq(DiskInfo) /\ items' \in Seq(DiskInfo) /\ Len(items') = Len(items) + 1
      BY <2>4, <3>1 DEF Types, KernelTypes, ListTypes
    <3>3. Len(items) \in Nat
      BY DEF Types, ListTypes
    <3>4. Item \in SUBSET Item' /\ items' # <<>>
      BY <3>2, <3>3 DEF Item
    <3>5. freed' \in SUBSET Item' /\ disks' \in Seq(Item')
      BY <2>1, <3>4 DEF Types, ListTypes
    <3>6. messages' \in Seq(HotplugMessage')
      <4>1. HotplugMessage \in SUBSET HotplugMessage'
        BY <3>4 DEF HotplugMessage
      <4>2. QED
        BY <2>1, <4>1 DEF Types, ListTypes
    <3>7. LooperTypes'
      BY <2>1, <3>4 DEF Types, LooperTypes
    <3>8. HealthdTypes'
      BY <2>4, <3>4 DEF HealthdTypes
    <3>9. QED
      BY <2>1, <3>2, <3>5, <3>6, <3>7, <3>8 DEF Types, KernelTypes, ListTypes
  <2>5. QED
    BY <1>4, <2>3, <2>4 DEF Mount
<1>5. CASE AddDiskInfo
  <2>1. UNCHANGED <<plugged, uevents, mounts, items, freed, messages>> /\ looper' = looper
    BY <1>5 DEF Healthd, AddDiskInfo, SignalMessage, kernel
  <2>2. Len(items) \in Item
    <3>1. items # <<>> /\ items \in Seq(DiskInfo)
      BY <1>5 DEF Types, HealthdTypes, ListTypes, AddDiskInfo
    <3>2. QED
      BY <3>1, EmptySeq DEF Item
  <2>3. disks' \in Seq(Item')
    BY <1>5, <2>1, <2>2 DEF AddDiskInfo, Types, ListTypes, Item
  <2>4. HealthdTypes'
    BY <1>5, <2>1, <2>2 DEF AddDiskInfo, HealthdTypes, Operate, Item
  <2>5. QED
    BY <2>1, <2>3, <2>4 DEF Types, KernelTypes, ListTypes, LooperTypes, Item, HotplugMessage
<1>6. CASE PutMessage
  <2>1. UNCHANGED <<plugged, uevents, mounts, items, freed, disks>> /\ looper' = looper
    BY <1>6 DEF Healthd, PutMessage, SignalMessage, kernel
  <2>2. [operate |-> healthd.operate, item |-> healthd.item] \in HotplugMessage
    BY <1>6, HealthdCases DEF PutMessage, Types, HotplugMessage
  <2>3. messages' \in Seq(HotplugMessage')
    BY <1>6, <2>1, <2>2 DEF PutMessage, Types, ListTypes, HotplugMessage, Item
  <2>4. HealthdTypes'
    BY <1>6 DEF PutMessage, HealthdTypes
  <2>5. QED
    BY <2>1, <2>3, <2>4 DEF Types, KernelTypes, ListTypes, LooperTypes, Item, HotplugMessage
<1>7. CASE SignalMessage
  <2>1. UNCHANGED <<plugged, uevents, mounts, items, freed, disks, messages>>
    BY <1>7 DEF SignalMessage, kernel, lists
  <2>2. HealthdTypes' /\ LooperTypes'
    BY <1>7, <2>1 DEF SignalMessage, Types, HealthdTypes, LooperTypes, Idle, Item
  <2>3. QED
    BY <2>1, <2>2 DEF Types, KernelTypes, ListTypes, Item, HotplugMessage
<1>8. QED
  BY <1>1, <1>2, <1>3, <1>4, <1>5, <1>6, <1>7 DEF Healthd

LEMMA LooperTypesStep ==
    ASSUME Types, Looper
    PROVE  Types'
<1>1. UNCHANGED <<plugged, uevents, healthd, items>>
  BY DEF Looper, TestList, Block, TakeMessage, DelDiskInfo, TellScreen, UnMount, lists
<1>2. /\ mounts' \in Seq(DiskInfo) /\ freed' \in SUBSET Item /\ disks' \in Seq(Item)
      /\ messages' \in Seq(HotplugMessage) /\ LooperTypes'
  <2>1. CASE TestList \/ Block
    <3>1. UNCHANGED <<mounts, items, freed, disks, messages>>
      BY <2>1 DEF TestList, Block, lists
    <3>2. LooperTypes'
      BY <2>1 DEF TestList, Block, LooperTypes
    <3>3. QED
      BY <3>1, <3>2 DEF Types, KernelTypes, ListTypes
  <2>2. CASE TakeMessage
    <3>1. UNCHANGED <<mounts, items, freed, disks>>
      BY <2>2 DEF TakeMessage
    <3>2. CASE messages = <<>>
      BY <1>1, <2>2, <3>1, <3>2 DEF TakeMessage, Types, KernelTypes, ListTypes, LooperTypes, Item
    <3>3. CASE messages # <<>>
      <4> DEFINE m == Head(messages)
      <4>1. m \in HotplugMessage /\ Tail(messages) \in Seq(HotplugMessage)
        BY <3>3, HeadTailProperties DEF Types, ListTypes
      <4>2. m.operate \in Operate /\ m.item \in Item
        BY <4>1 DEF HotplugMessage
      <4>3. messages' = Tail(messages)
            /\ looper' = [pc   |-> IF m.operate = "plugout" THEN "delete" ELSE "tell",
                          operate |-> m.operate, item |-> m.item]
        BY <2>2, <3>3 DEF TakeMessage
      <4> HIDE DEF m
      <4>4. LooperTypes'
        BY <1>1, <4>2, <4>3 DEF LooperTypes, Operate, Item
      <4>5. QED
        BY <3>1, <4>1, <4>3, <4>4 DEF Types, KernelTypes, ListTypes
    <3>4. QED
      BY <3>2, <3>3
  <2>3. CASE DelDiskInfo
    <3>1. UNCHANGED <<mounts, items, freed, messages>>
      BY <2>3 DEF DelDiskInfo
    <3>2. disks' \in Seq(Item)
      <4> DEFINE same == {k \in DOMAIN disks : items[disks[k]] = items[looper.item]}
                 first == CHOOSE k \in same : \A j \in same : k <= j
      <4>1. same # {} => first \in DOMAIN disks
        BY FirstListed DEF Types
      <4>2. disks' = IF same = {} THEN disks ELSE RemoveAt(disks, first)
        BY <2>3 DEF DelDiskInfo
      <4> HIDE DEF same, first
      <4>3. QED
        BY <4>1, <4>2, RemoveAtProperties DEF Types, ListTypes
    <3>3. LooperTypes'
      <4>1. looper \in [pc : {"delete", "unmount"}, operate : {"plugout"}, item : Item]
        BY <2>3 DEF DelDiskInfo, Types, LooperTypes
      <4>2. looper' \in [pc : {"tell"}, operate : {"plugout"}, item : Item]
        BY <2>3, <4>1 DEF DelDiskInfo
      <4>3. QED
        BY <1>1, <4>2 DEF LooperTypes, Operate, Item
    <3>4. QED
      BY <3>1, <3>2, <3>3 DEF Types, KernelTypes, ListTypes
  <2>4. CASE TellScreen
    <3>1. UNCHANGED <<mounts, items, freed, disks, messages>>
      BY <2>4 DEF TellScreen, lists
    <3>2. LooperTypes'
      BY <1>1, <2>4, LooperCases DEF TellScreen, Types, LooperTypes, Operate, Item
    <3>3. QED
      BY <3>1, <3>2 DEF Types, KernelTypes, ListTypes
  <2>5. CASE UnMount
    <3>1. UNCHANGED <<items, disks, messages>> /\ freed' = freed \cup {looper.item}
      BY <2>5 DEF UnMount
    <3>2. looper.item \in Item
      BY <2>5, LooperCases DEF UnMount, Types
    <3>3. mounts' \in Seq(DiskInfo)
      <4> DEFINE at == MountsAt(items[looper.item].point)
                 last == CHOOSE k \in at : \A j \in at : j <= k
      <4>1. mounts' = mounts \/ (at # {} /\ mounts' = RemoveAt(mounts, last))
        BY <2>5 DEF UnMount
      <4>2. Len(mounts) \in Nat /\ at \in SUBSET (1 .. Len(mounts))
        BY DEF Types, KernelTypes, MountsAt
      <4> HIDE DEF at
      <4>3. ASSUME at # {} PROVE last \in 1 .. Len(mounts)
        <5>1. \E k \in at : \A j \in at : j <= k
          BY <4>2, <4>3, Greatest
        <5>2. last \in at
          BY <5>1
        <5>3. QED
          BY <4>2, <5>2
      <4> HIDE DEF last
      <4>4. QED
        BY <4>1, <4>3, RemoveAtProperties DEF Types, KernelTypes
    <3>4. LooperTypes'
      BY <2>5 DEF UnMount, LooperTypes
    <3>5. QED
      BY <3>1, <3>2, <3>3, <3>4 DEF Types, ListTypes
  <2>6. QED
    BY <2>1, <2>2, <2>3, <2>4, <2>5 DEF Looper
<1>3. QED
  BY <1>1, <1>2 DEF Types, KernelTypes, ListTypes, HealthdTypes, Item, HotplugMessage

LEMMA ScreenTypesStep ==
    ASSUME Types, Screen \/ UNCHANGED vars
    PROVE  Types'
<1>1. UNCHANGED <<plugged, uevents, mounts, items, freed, disks, messages, healthd, looper>>
  BY DEF Screen, vars, kernel, lists
<1>2. QED
  BY <1>1 DEF Types, KernelTypes, ListTypes, HealthdTypes, LooperTypes, Item, HotplugMessage

LEMMA TypesStep == Types /\ [Next]_vars => Types'
  BY KernelTypesStep, HealthdTypesStep, LooperTypesStep, ScreenTypesStep DEF Next

-----------------------------------------------------------------------------
(* The list and the mounts.                                                *)

\* A step that leaves the list, the disks and the mounts alone, and the disk
\* that is leaving.
Framed ==
    /\ UNCHANGED <<mounts, items, freed, disks>>
    /\ Leaving' <=> Leaving
    /\ Leaving => looper'.item = looper.item

LEMMA FramedItems ==
    ASSUME Framed, NEW i
    PROVE  (InList(i)' <=> InList(i)) /\ (Holds(i)' <=> Holds(i)) /\ (Gone(i)' <=> Gone(i))
<1>1. InList(i)' <=> InList(i)
  BY DEF Framed, InList
<1>2. Holds(i)' <=> Holds(i)
  BY DEF Framed, Holds
<1>3. Gone(i)' <=> Gone(i)
  BY <1>1 DEF Framed, Gone
<1>4. QED
  BY <1>1, <1>2, <1>3

LEMMA FramedMountInv ==
    ASSUME Types, MountInv, Framed,
           healthd'.pc = "mount" =>
               \/ healthd' = healthd
               \/ \A k \in DOMAIN disks : items[disks[k]].point # healthd'.point,
           healthd'.pc = "list" => healthd.pc = "list",
           \A k \in DOMAIN messages' :
               messages'[k].operate = "plugout" => Gone(messages'[k].item),
           healthd'.pc = "put" /\ healthd'.operate = "plugout" => Gone(healthd'.item),
           alive' /\ looper'.pc = "delete" => InList(looper'.item)
    PROVE  MountInv'
<1>1. PointsApart' /\ MountingApart'
  BY DEF MountInv, PointsApart, MountingApart, Framed
<1>2. ListingApart'
  BY FramedItems DEF MountInv, ListingApart, Framed
<1>3. ListedHolds'
  BY FramedItems DEF MountInv, ListedHolds, Framed
<1>4. AnnouncedIsGone'
  BY FramedItems DEF AnnouncedIsGone
<1>5. LeavingIsOut'
  BY FramedItems DEF MountInv, LeavingIsOut, Framed
<1>6. QED
  BY <1>1, <1>2, <1>3, <1>4, <1>5 DEF MountInv

\* The kernel, the screens and steps of nobody.
LEMMA OthersMountInv ==
    ASSUME IInv, Kernel \/ Screen \/ UNCHANGED vars
    PROVE  MountInv'
<1>1. /\ UNCHANGED <<mounts, items, freed, disks, messages, healthd, looper>>
      /\ alive' => alive
  BY DEF Kernel, Plug, Unplug, Screen, vars, kernel, lists
<1>2. Framed
  BY <1>1 DEF Framed, Leaving
<1>3. QED
  BY <1>1, <1>2, FramedMountInv DEF IInv, MountInv, AnnouncedIsGone, LeavingIsOut

\* A disk that is mounted gets a point of its own.
LEMMA MountMountInv ==
    ASSUME IInv, Types', Mount, looper' = looper, alive' = alive
    PROVE  MountInv'
<1>1. UNCHANGED <<freed, disks, messages>> /\ looper' = looper
      /\ healthd.pc = "mount"
  BY DEF Mount
<1>2. CASE healthd' = Idle /\ UNCHANGED <<mounts, items>>
  <2>1. Framed
    BY <1>1, <1>2 DEF Framed, Leaving
  <2>2. healthd'.pc = "idle"
    BY <1>2 DEF Idle
  <2>3. QED
    BY <1>1, <2>1, <2>2, FramedMountInv DEF IInv, MountInv, AnnouncedIsGone, LeavingIsOut
<1>3. CASE /\ mounts' = Append(mounts, [dev |-> healthd.dev, point |-> healthd.point])
           /\ items' = Append(items, [dev |-> healthd.dev, point |-> healthd.point])
           /\ healthd' = [pc |-> "list"]
  <2> DEFINE n == Len(items)
             m == Len(mounts)
             p == healthd.point
  <2>1. n \in Nat /\ m \in Nat /\ n + 1 \notin Item /\ DOMAIN mounts = 1 .. m
    BY DEF IInv, Types, ListTypes, KernelTypes, Item
  <2>2. Len(items') = n + 1 /\ items'[n + 1].point = p /\ \A i \in Item : items'[i] = items[i]
    BY <1>3 DEF IInv, Types, ListTypes, Item
  <2>3. /\ DOMAIN mounts' = 1 .. m + 1 /\ mounts'[m + 1].point = p
        /\ \A k \in 1 .. m : mounts'[k] = mounts[k]
    BY <1>3 DEF IInv, Types, KernelTypes
  <2> HIDE DEF n, m, p
  <2>4. \A k \in DOMAIN disks : disks[k] \in Item /\ items[disks[k]].point # p
    BY <1>1 DEF IInv, Types, ListTypes, MountInv, MountingApart, p
  <2>5. Leaving => looper.item \in Item
    BY LooperCases DEF IInv, Types, Leaving
  <2>6. Leaving' <=> Leaving
    BY <1>1 DEF Leaving
  <2>7. ASSUME NEW i \in Item, Holds(i)
        PROVE  Holds(i)'
    <3>1. \A k \in DOMAIN mounts : k \in DOMAIN mounts' /\ mounts'[k] = mounts[k]
      BY <2>1, <2>3
    <3>2. items'[i] = items[i] /\ (Leaving => items'[looper.item] = items[looper.item])
      BY <2>2, <2>5
    <3>3. QED
      BY <1>1, <2>6, <2>7, <3>1, <3>2 DEF Holds
  <2>8. ASSUME NEW i, i = n + 1
        PROVE  Holds(i)'
    <3>1. m + 1 \in DOMAIN mounts' /\ mounts'[m + 1].point = items'[i].point
      BY <2>1, <2>2, <2>3, <2>8
    <3>2. ASSUME Leaving', items'[looper.item].point = items'[i].point
          PROVE  \E j, k \in DOMAIN mounts' :
                    /\ j < k /\ mounts'[j].point = items'[i].point
                    /\ mounts'[k].point = items'[i].point
      <4>1. items[looper.item].point = p
        BY <2>2, <2>5, <2>6, <2>8, <3>2
      <4>2. PICK j \in DOMAIN mounts : mounts[j].point = p
        BY <2>6, <3>2, <4>1 DEF IInv, MountInv, LeavingIsOut
      <4>3. j \in DOMAIN mounts' /\ mounts'[j].point = p /\ j < m + 1
        BY <2>1, <2>3, <4>2
      <4>4. QED
        BY <2>2, <2>8, <3>1, <4>3
    <3>3. QED
      BY <1>1, <3>1, <3>2 DEF Holds
  <2>9. PointsApart'
    BY <1>1, <2>2, <2>4 DEF IInv, MountInv, PointsApart
  <2>10. MountingApart'
    BY <1>3 DEF MountingApart
  <2>11. ListingApart'
    <3>1. \A k \in DOMAIN disks' : items'[disks'[k]].point # items'[n + 1].point
      BY <1>1, <2>2, <2>4
    <3>2. n + 1 \notin freed' /\ (Leaving' => looper'.item # n + 1)
      BY <1>1, <2>1, <2>5, <2>6 DEF IInv, Types, ListTypes
    <3>3. QED
      BY <2>2, <2>8, <3>1, <3>2 DEF ListingApart, Holds
  <2>12. ListedHolds'
    BY <1>1, <2>4, <2>7 DEF IInv, MountInv, ListedHolds
  <2>13. AnnouncedIsGone'
    <3>1. \A i : Gone(i)' <=> Gone(i)
      BY <1>1, <2>6 DEF Gone, InList
    <3>2. QED
      BY <1>1, <1>3, <3>1 DEF IInv, MountInv, AnnouncedIsGone
  <2>14. LeavingIsOut'
    <3>1. \A i : InList(i)' <=> InList(i)
      BY <1>1 DEF InList
    <3>2. Leaving => \E k \in DOMAIN mounts' : mounts'[k].point = items'[looper.item].point
      BY <2>1, <2>2, <2>3, <2>5 DEF IInv, MountInv, LeavingIsOut
    <3>3. QED
      BY <1>1, <2>6, <3>1, <3>2 DEF IInv, MountInv, LeavingIsOut
  <2>15. QED
    BY <2>9, <2>10, <2>11, <2>12, <2>13, <2>14 DEF MountInv
<1>4. QED
  BY <1>2, <1>3 DEF Mount

\* The disk that healthd has mounted comes into the list.
LEMMA AddMountInv ==
    ASSUME IInv, AddDiskInfo, looper' = looper, alive' = alive
    PROVE  MountInv'
<1> DEFINE n == Len(items)
           m == Len(disks)
<1>1. /\ UNCHANGED <<mounts, items, freed, messages>> /\ healthd.pc = "list"
      /\ disks' = Append(disks, n)
      /\ healthd' = [pc |-> "put", operate |-> "plugin", item |-> n]
  BY DEF AddDiskInfo, kernel
<1>2. m \in Nat /\ DOMAIN disks = 1 .. m
  BY DEF IInv, Types, ListTypes
<1>3. /\ DOMAIN disks' = 1 .. m + 1 /\ disks'[m + 1] = n
      /\ \A k \in 1 .. m : disks'[k] = disks[k]
  BY <1>1 DEF IInv, Types, ListTypes
<1>4. /\ \A k \in 1 .. m : items[disks[k]].point # items[n].point
      /\ n \notin freed /\ (Leaving => looper.item # n) /\ Holds(n)
  BY <1>1, <1>2 DEF IInv, MountInv, ListingApart
<1> HIDE DEF n, m
<1>5. \A k \in DOMAIN disks' : k = m + 1 \/ (k \in 1 .. m /\ k # m + 1)
  BY <1>2, <1>3
<1>6. (Leaving' <=> Leaving) /\ \A i : Holds(i)' <=> Holds(i)
  BY <1>1 DEF Leaving, Holds
<1>7. \A i : InList(i)' <=> (InList(i) \/ i = n)
  <2>1. \A i : InList(i) => InList(i)'
    BY <1>2, <1>3 DEF InList
  <2>2. \A i : InList(i)' => InList(i) \/ i = n
    BY <1>2, <1>3, <1>5 DEF InList
  <2>3. \A i : i = n => InList(i)'
    BY <1>2, <1>3 DEF InList
  <2>4. QED
    BY <2>1, <2>2, <2>3
<1>8. PointsApart'
  BY <1>1, <1>2, <1>3, <1>4, <1>5 DEF IInv, MountInv, PointsApart
<1>9. MountingApart' /\ ListingApart'
  BY <1>1 DEF MountingApart, ListingApart
<1>10. ListedHolds'
  <2>1. ASSUME NEW k \in DOMAIN disks', NEW i, i = disks'[k]
        PROVE  i \notin freed' /\ Holds(i)'
    BY <1>1, <1>2, <1>3, <1>4, <1>5, <1>6, <2>1 DEF IInv, MountInv, ListedHolds
  <2>2. QED
    BY <2>1 DEF ListedHolds, Holds
<1>11. AnnouncedIsGone'
  <2>1. \A i : Gone(i) => Gone(i)'
    BY <1>1, <1>6, <1>7 DEF Gone
  <2>2. ASSUME NEW k \in DOMAIN messages', NEW i, i = messages'[k].item,
               messages'[k].operate = "plugout"
        PROVE  Gone(i)'
    BY <1>1, <2>1, <2>2 DEF IInv, MountInv, AnnouncedIsGone
  <2>3. QED
    BY <1>1, <2>2 DEF AnnouncedIsGone, Gone, InList
<1>12. LeavingIsOut'
  <2>1. ASSUME NEW i, i = looper.item
        PROVE  /\ alive /\ looper.pc = "delete" => InList(i)'
               /\ Leaving => ~InList(i)'
    BY <1>4, <1>7, <2>1 DEF IInv, MountInv, LeavingIsOut
  <2>2. QED
    BY <1>1, <1>6, <2>1 DEF IInv, MountInv, LeavingIsOut, InList
<1>13. QED
  BY <1>8, <1>9, <1>10, <1>11, <1>12 DEF MountInv

LEMMA HealthdMountInv ==
    ASSUME IInv, Types', Healthd
    PROVE  MountInv'
<1>1. alive' = alive /\ alive
  BY DEF Healthd
<1>2. CASE BootCheck \/ PlugIn \/ PlugOut \/ Mount \/ AddDiskInfo \/ PutMessage
  <2>0. looper' = looper
    BY <1>2 DEF Healthd, SignalMessage, BootCheck, PlugIn, PlugOut, Mount, AddDiskInfo, PutMessage
  <2>1. CASE Mount
    BY <1>1, <2>0, <2>1, MountMountInv
  <2>2. CASE AddDiskInfo
    BY <1>1, <2>0, <2>2, AddMountInv
  <2>3. CASE BootCheck \/ PlugIn \/ PlugOut \/ PutMessage
    <3>1. UNCHANGED <<mounts, items, freed, disks>>
      BY <2>3 DEF BootCheck, PlugIn, PlugOut, PutMessage, kernel, lists
    <3>2. Framed
      BY <2>0, <3>1 DEF Framed, Leaving
    <3>3. /\ \A k \in DOMAIN messages :
                messages[k].operate = "plugout" => Gone(messages[k].item)
          /\ healthd.pc = "put" /\ healthd.operate = "plugout" => Gone(healthd.item)
          /\ alive /\ looper.pc = "delete" => InList(looper.item)
      BY DEF IInv, MountInv, AnnouncedIsGone, LeavingIsOut
    <3>4. CASE BootCheck
      BY <1>1, <2>0, <3>2, <3>3, <3>4, FramedMountInv DEF IInv, BootCheck, lists
    <3>5. CASE PlugIn
      <4>1. messages' = messages
        BY <3>5 DEF PlugIn, lists
      <4>2. CASE healthd' = Idle
        BY <1>1, <2>0, <3>2, <3>3, <4>1, <4>2, FramedMountInv DEF IInv, Idle
      <4>3. CASE FreePoints # {} /\ \E d : healthd' = [pc |-> "mount", dev |-> d, point |-> MountPoint]
        <5>1. \A k \in DOMAIN disks : items[disks[k]].point # MountPoint
          BY <4>3, MountPointIsFree DEF FreePoints
        <5>2. healthd'.pc = "mount" /\ healthd'.point = MountPoint
          BY <4>3
        <5>3. QED
          BY <1>1, <2>0, <3>2, <3>3, <4>1, <5>1, <5>2, FramedMountInv DEF IInv
      <4>4. QED
        BY <3>5, <4>2, <4>3 DEF PlugIn
    <3>6. CASE PlugOut
      <4>1. messages' = messages
        BY <3>6 DEF PlugOut, lists
      <4>2. CASE healthd' = Idle
        BY <1>1, <2>0, <3>2, <3>3, <4>1, <4>2, FramedMountInv DEF IInv, Idle
      <4>3. CASE healthd' # Idle
        <5> DEFINE found == Listed(Head(uevents).dev)
                   first == CHOOSE k \in found : \A j \in found : k <= j
        <5>1. found # {} /\ healthd' = [pc |-> "put", operate |-> "plugout", item |-> disks[first]]
          BY <3>6, <4>3 DEF PlugOut
        <5>2. first \in DOMAIN disks
          BY <5>1, FirstListed DEF IInv, Types, Listed
        <5> HIDE DEF found, first
        <5>3. healthd'.pc = "put" /\ Gone(healthd'.item)
          BY <5>1, <5>2 DEF Gone, InList
        <5>4. QED
          BY <1>1, <2>0, <3>2, <3>3, <4>1, <5>3, FramedMountInv DEF IInv
      <4>4. QED
        BY <4>2, <4>3
    <3>7. CASE PutMessage
      <4> DEFINE new == [operate |-> healthd.operate, item |-> healthd.item]
      <4>1. healthd.pc = "put" /\ messages' = Append(messages, new) /\ healthd' = [pc |-> "signal"]
        BY <3>7 DEF PutMessage
      <4>2. ASSUME NEW k \in DOMAIN messages', messages'[k].operate = "plugout"
            PROVE  Gone(messages'[k].item)
        <5>0. messages \in Seq(HotplugMessage)
          BY DEF IInv, Types, ListTypes
        <5>1. messages'[k] = new \/ (k \in DOMAIN messages /\ messages'[k] = messages[k])
          <6> HIDE DEF new
          <6>1. QED
            BY <4>1, <5>0
        <5>2. QED
          BY <3>3, <4>1, <4>2, <5>1
      <4>3. QED
        BY <1>1, <2>0, <3>2, <3>3, <4>1, <4>2, FramedMountInv DEF IInv
    <3>8. QED
      BY <2>3, <3>4, <3>5, <3>6, <3>7
  <2>4. QED
    BY <1>2, <2>1, <2>2, <2>3
<1>3. CASE SignalMessage
  <2>1. UNCHANGED <<mounts, items, freed, disks, messages>> /\ healthd' = Idle
    BY <1>3 DEF SignalMessage, kernel, lists
  <2>2. looper' = looper \/ (looper.pc = "wait" /\ looper'.pc = "take")
    BY <1>3 DEF SignalMessage
  <2>3. Framed
    BY <2>1, <2>2 DEF Framed, Leaving
  <2>4. QED
    BY <1>1, <2>1, <2>2, <2>3, FramedMountInv DEF IInv, MountInv, AnnouncedIsGone, LeavingIsOut, Idle
<1>4. QED
  BY <1>2, <1>3 DEF Healthd

\* A disk of the list is taken out before it is unmounted.
LEMMA DeleteMountInv ==
    ASSUME IInv, DelDiskInfo, healthd' = healthd, alive, alive' = alive
    PROVE  MountInv'
<1> DEFINE it == looper.item
           same == {k \in DOMAIN disks : items[disks[k]] = items[it]}
           first == CHOOSE k \in same : \A j \in same : k <= j
           m == Len(disks)
<1>1. /\ UNCHANGED <<mounts, items, freed, messages>> /\ looper.pc = "delete"
      /\ disks' = IF same = {} THEN disks ELSE RemoveAt(disks, first)
      /\ looper' = [looper EXCEPT !.pc = "tell"]
  BY DEF DelDiskInfo
<1>2. m \in Nat /\ DOMAIN disks = 1 .. m /\ disks \in Seq(Item)
  BY DEF IInv, Types, ListTypes
<1>3. looper'.pc = "tell" /\ looper'.item = it /\ looper'.operate = "plugout"
  <2>1. looper \in [pc : {"delete", "unmount"}, operate : {"plugout"}, item : Item]
    BY <1>1 DEF IInv, Types, LooperTypes
  <2>2. QED
    BY <1>1, <2>1
<1>4. Leaving' /\ ~Leaving
  BY <1>1, <1>3 DEF Leaving
<1>5. PICK r \in 1 .. m : disks[r] = it /\ first = r /\ same # {}
  <2>1. PICK r \in DOMAIN disks : disks[r] = it
    BY <1>1 DEF IInv, MountInv, LeavingIsOut, InList
  <2>2. r \in same
    BY <2>1
  <2>3. first \in same
    BY <2>2, FirstListed DEF IInv, Types
  <2>4. first = r
    BY <2>1, <2>3 DEF IInv, MountInv, PointsApart
  <2>5. QED
    BY <1>2, <2>1, <2>2, <2>4
<1> HIDE DEF same, first, m, it
<1>6. /\ DOMAIN disks' = 1 .. m - 1
      /\ \A k \in 1 .. m - 1 : disks'[k] = IF k < r THEN disks[k] ELSE disks[k + 1]
  BY <1>1, <1>2, <1>5, RemoveAtProperties DEF m
<1>7. \A k \in DOMAIN disks' :
         \E j \in DOMAIN disks : disks'[k] = disks[j] /\ j # r /\ j = (IF k < r THEN k ELSE k + 1)
  BY <1>2, <1>5, <1>6
<1>8. \A j \in DOMAIN disks : j # r => \E k \in DOMAIN disks' : disks'[k] = disks[j]
  <2>1. ASSUME NEW j \in DOMAIN disks, j < r
        PROVE  j \in DOMAIN disks' /\ disks'[j] = disks[j]
    BY <1>2, <1>5, <1>6, <2>1
  <2>2. ASSUME NEW j \in DOMAIN disks, j > r
        PROVE  j - 1 \in DOMAIN disks' /\ disks'[j - 1] = disks[j]
    BY <1>2, <1>5, <1>6, <2>2
  <2>3. QED
    BY <1>2, <1>5, <2>1, <2>2
<1>9. \A k \in DOMAIN disks' : \A j \in DOMAIN disks' :
         items[disks'[j]].point = items[disks'[k]].point => j = k
  <2>1. ASSUME NEW k \in DOMAIN disks', NEW j \in DOMAIN disks',
               items[disks'[j]].point = items[disks'[k]].point
        PROVE  j = k
    <3>1. (IF j < r THEN j ELSE j + 1) = (IF k < r THEN k ELSE k + 1)
      BY <1>7, <2>1 DEF IInv, MountInv, PointsApart
    <3>2. j \in Nat /\ k \in Nat /\ r \in Nat
      BY <1>2, <1>5, <1>6
    <3>3. QED
      BY <3>1, <3>2
  <2>2. QED
    BY <2>1
<1>10. \A k \in DOMAIN disks' :
          /\ items[disks'[k]].point # items[it].point
          /\ disks'[k] \notin freed /\ Holds(disks'[k])
  BY <1>2, <1>5, <1>7 DEF IInv, MountInv, PointsApart, ListedHolds
<1>11. \E k \in DOMAIN mounts : mounts[k].point = items[it].point
  BY <1>2, <1>5 DEF IInv, MountInv, ListedHolds, Holds
<1>12. PointsApart'
  BY <1>1, <1>9 DEF PointsApart
<1>13. MountingApart'
  BY <1>1, <1>2, <1>5, <1>7 DEF IInv, MountInv, MountingApart
<1>14. ASSUME NEW i, Holds(i), items[i].point # items[it].point
       PROVE  Holds(i)'
  BY <1>1, <1>3, <1>14 DEF Holds
<1>15. ListingApart'
  <2>1. ASSUME healthd.pc = "list"
        PROVE  /\ \A k \in DOMAIN disks : items[disks[k]].point # items[Len(items)].point
               /\ Len(items) \notin freed /\ Holds(Len(items))
    BY <2>1 DEF IInv, MountInv, ListingApart
  <2>2. ASSUME healthd.pc = "list"
        PROVE  items[it].point # items[Len(items)].point
    BY <1>2, <1>5, <2>1, <2>2
  <2>3. ASSUME healthd.pc = "list", NEW i, i = Len(items)
        PROVE  Holds(i)'
    BY <1>14, <2>1, <2>2, <2>3
  <2>4. QED
    BY <1>1, <1>2, <1>3, <1>5, <1>7, <2>1, <2>2, <2>3 DEF ListingApart, Holds
<1>16. ListedHolds'
  <2>1. ASSUME NEW k \in DOMAIN disks', NEW i, i = disks'[k]
        PROVE  i \notin freed' /\ Holds(i)'
    BY <1>1, <1>10, <1>14, <2>1
  <2>2. QED
    BY <2>1 DEF ListedHolds, Holds
<1>17. AnnouncedIsGone'
  <2>1. ASSUME NEW i, Gone(i)
        PROVE  Gone(i)'
    <3>1. CASE i = it
      BY <1>3, <1>4, <3>1 DEF Gone
    <3>2. CASE i # it
      BY <1>1, <1>4, <1>5, <1>8, <2>1, <3>2 DEF Gone, InList
    <3>3. QED
      BY <3>1, <3>2
  <2>2. ASSUME NEW k \in DOMAIN messages', NEW i, i = messages'[k].item,
               messages'[k].operate = "plugout"
        PROVE  Gone(i)'
    BY <1>1, <2>1, <2>2 DEF IInv, MountInv, AnnouncedIsGone
  <2>3. ASSUME healthd.pc = "put", healthd.operate = "plugout", NEW i, i = healthd.item
        PROVE  Gone(i)'
    BY <2>1, <2>3 DEF IInv, MountInv, AnnouncedIsGone
  <2>4. QED
    BY <2>2, <2>3 DEF AnnouncedIsGone, Gone, InList
<1>18. LeavingIsOut'
  <2>1. \A k \in DOMAIN disks' : disks'[k] # it
    BY <1>10
  <2>2. QED
    BY <1>1, <1>3, <1>11, <2>1 DEF LeavingIsOut, InList
<1>19. QED
  BY <1>12, <1>13, <1>15, <1>16, <1>17, <1>18 DEF MountInv

\* What is taken away at a point is the last mount there.
LEMMA UnMountMountInv ==
    ASSUME IInv, UnMount, healthd' = healthd, alive' = alive
    PROVE  MountInv'
<1> DEFINE it == looper.item
           p == items[it].point
           at == MountsAt(p)
           last == CHOOSE k \in at : \A j \in at : j <= k
           m == Len(mounts)
<1>1. /\ UNCHANGED <<items, disks, messages>> /\ looper.pc = "unmount"
      /\ mounts' = mounts \/ (at # {} /\ mounts' = RemoveAt(mounts, last))
      /\ freed' = freed \cup {it} /\ looper' = [pc |-> "pop"]
  BY DEF UnMount
<1>2. m \in Nat /\ DOMAIN mounts = 1 .. m /\ mounts \in Seq(DiskInfo)
  BY DEF IInv, Types, KernelTypes
<1>3. Leaving /\ ~Leaving'
  BY <1>1 DEF Leaving
<1>4. at # {} => last \in at /\ \A j \in at : j <= last
  <2>1. at \in SUBSET (1 .. m)
    BY <1>2 DEF MountsAt
  <2>2. at # {} => \E k \in at : \A j \in at : j <= k
    BY <1>2, <2>1, Greatest
  <2>3. QED
    BY <2>2
<1>5. at = {k \in DOMAIN mounts : mounts[k].point = p}
  BY DEF MountsAt
<1> HIDE DEF at, last, m
<1>6. ASSUME NEW i, Holds(i)
      PROVE  \E k \in DOMAIN mounts' : mounts'[k].point = items[i].point
  <2>1. CASE mounts' = mounts
    BY <1>6, <2>1 DEF Holds
  <2>2. CASE at # {} /\ mounts' = RemoveAt(mounts, last)
    <3>1. last \in 1 .. m /\ mounts[last].point = p /\ \A j \in at : j <= last
      BY <1>2, <1>4, <1>5, <2>2
    <3>2. /\ DOMAIN mounts' = 1 .. m - 1
          /\ \A k \in 1 .. m - 1 : mounts'[k] = IF k < last THEN mounts[k] ELSE mounts[k + 1]
      BY <1>2, <2>2, <3>1, RemoveAtProperties DEF m
    <3>3. PICK k \in DOMAIN mounts : mounts[k].point = items[i].point /\ k # last
      <4>1. CASE items[i].point = p
        <5>1. PICK j, k \in DOMAIN mounts :
                 j < k /\ mounts[j].point = items[i].point /\ mounts[k].point = items[i].point
          BY <1>3, <1>6, <4>1 DEF Holds
        <5>2. k <= last /\ j \in Nat /\ k \in Nat /\ last \in Nat
          BY <1>2, <1>5, <3>1, <4>1, <5>1
        <5>3. j # last
          BY <5>1, <5>2
        <5>4. QED
          BY <5>1, <5>3
      <4>2. CASE items[i].point # p
        BY <1>6, <3>1, <4>2 DEF Holds
      <4>3. QED
        BY <4>1, <4>2
    <3>4. CASE k < last
      <4>1. k \in 1 .. m - 1 /\ mounts'[k] = mounts[k]
        BY <1>2, <3>1, <3>2, <3>4
      <4>2. QED
        BY <3>2, <3>3, <4>1
    <3>5. CASE ~(k < last)
      <4>1. k - 1 \in 1 .. m - 1 /\ mounts'[k - 1] = mounts[k]
        BY <1>2, <3>1, <3>2, <3>3, <3>5
      <4>2. QED
        BY <3>2, <3>3, <4>1
    <3>6. QED
      BY <3>4, <3>5
  <2>3. QED
    BY <1>1, <2>1, <2>2
<1>7. ASSUME NEW i, Holds(i)
      PROVE  Holds(i)'
  BY <1>1, <1>3, <1>6, <1>7 DEF Holds
<1>8. ~InList(it)
  BY <1>3 DEF IInv, MountInv, LeavingIsOut
<1>9. PointsApart' /\ MountingApart'
  BY <1>1 DEF IInv, MountInv, PointsApart, MountingApart
<1>10. ListingApart'
  <2>1. ASSUME healthd.pc = "list", NEW i, i = Len(items)
        PROVE  Holds(i)' /\ i \notin freed'
    BY <1>1, <1>3, <1>7, <2>1 DEF IInv, MountInv, ListingApart
  <2>2. QED
    BY <1>1, <1>3, <2>1 DEF IInv, MountInv, ListingApart, Holds
<1>11. ListedHolds'
  <2>1. ASSUME NEW k \in DOMAIN disks, NEW i, i = disks[k]
        PROVE  Holds(i)' /\ i \notin freed'
    BY <1>1, <1>7, <1>8, <2>1 DEF IInv, MountInv, ListedHolds, InList
  <2>2. QED
    BY <1>1, <2>1 DEF ListedHolds, Holds
<1>12. AnnouncedIsGone'
  <2>1. ASSUME NEW i, Gone(i)
        PROVE  Gone(i)'
    BY <1>1, <2>1 DEF Gone, InList
  <2>2. ASSUME NEW k \in DOMAIN messages', NEW i, i = messages'[k].item,
               messages'[k].operate = "plugout"
        PROVE  Gone(i)'
    BY <1>1, <2>1, <2>2 DEF IInv, MountInv, AnnouncedIsGone
  <2>3. ASSUME healthd.pc = "put", healthd.operate = "plugout", NEW i, i = healthd.item
        PROVE  Gone(i)'
    BY <2>1, <2>3 DEF IInv, MountInv, AnnouncedIsGone
  <2>4. QED
    BY <2>2, <2>3 DEF AnnouncedIsGone, Gone, InList
<1>13. LeavingIsOut'
  BY <1>1, <1>3 DEF LeavingIsOut
<1>14. QED
  BY <1>9, <1>10, <1>11, <1>12, <1>13 DEF MountInv

LEMMA LooperMountInv ==
    ASSUME IInv, Looper
    PROVE  MountInv'
<1>1. healthd' = healthd /\ alive
  BY DEF Looper
<1>2. CASE DelDiskInfo
  BY <1>1, <1>2, DeleteMountInv DEF DelDiskInfo
<1>3. CASE UnMount
  BY <1>1, <1>3, UnMountMountInv DEF UnMount
<1>4. CASE TestList \/ Block \/ TakeMessage \/ TellScreen
  <2>1. UNCHANGED <<mounts, items, freed, disks>>
    BY <1>4 DEF TestList, Block, TakeMessage, TellScreen, lists
  <2>2. /\ \A k \in DOMAIN messages :
              messages[k].operate = "plugout" => Gone(messages[k].item)
        /\ healthd.pc = "put" /\ healthd.operate = "plugout" => Gone(healthd.item)
    BY DEF IInv, MountInv, AnnouncedIsGone
  <2>3. CASE TestList \/ Block
    <3>1. messages' = messages /\ looper.pc \in {"pop", "block"} /\ looper'.pc \in {"block", "take", "wait"}
      BY <2>3 DEF TestList, Block, lists
    <3>2. Framed
      BY <2>1, <3>1 DEF Framed, Leaving
    <3>3. QED
      BY <1>1, <2>2, <3>1, <3>2, FramedMountInv DEF IInv
  <2>4. CASE TellScreen
    <3>1. messages' = messages /\ looper.pc = "tell" /\ alive' = alive
      BY <2>4 DEF TellScreen, lists
    <3>2. CASE looper.operate = "plugout"
      <4>1. looper' = [looper EXCEPT !.pc = "unmount"]
        BY <2>4, <3>2 DEF TellScreen
      <4>2. looper \in [pc : {"tell"}, operate : Operate, item : Item]
        BY <3>1 DEF IInv, Types, LooperTypes
      <4>3. looper'.pc = "unmount" /\ looper'.item = looper.item
        BY <4>1, <4>2
      <4>4. Framed
        BY <2>1, <3>1, <3>2, <4>3 DEF Framed, Leaving
      <4>5. QED
        BY <1>1, <2>2, <3>1, <4>3, <4>4, FramedMountInv DEF IInv
    <3>3. CASE looper.operate # "plugout"
      <4>1. looper'.pc = "pop"
        BY <2>4, <3>3 DEF TellScreen
      <4>2. Framed
        BY <2>1, <3>1, <3>3, <4>1 DEF Framed, Leaving
      <4>3. QED
        BY <1>1, <2>2, <3>1, <4>1, <4>2, FramedMountInv DEF IInv
    <3>4. QED
      BY <3>2, <3>3
  <2>5. CASE TakeMessage
    <3>1. CASE messages = <<>>
      <4>1. ~alive' /\ UNCHANGED <<looper, messages>>
        BY <2>5, <3>1 DEF TakeMessage
      <4>2. Framed
        BY <2>1, <4>1 DEF Framed, Leaving
      <4>3. QED
        BY <1>1, <2>2, <4>1, <4>2, FramedMountInv DEF IInv
    <3>2. CASE messages # <<>>
      <4> DEFINE h == Head(messages)
      <4>1. /\ looper.pc = "take" /\ messages' = Tail(messages)
            /\ alive' = ~(h.operate = "plugout" /\ h.item \in freed)
            /\ looper' = [pc |-> IF h.operate = "plugout" THEN "delete" ELSE "tell",
                          operate |-> h.operate, item |-> h.item]
        BY <2>5, <3>2 DEF TakeMessage
      <4>2. messages \in Seq(HotplugMessage) /\ Len(messages) \in Nat
        BY DEF IInv, Types, ListTypes
      <4>3. 1 \in DOMAIN messages /\ h = messages[1]
        BY <3>2, <4>2
      <4>4. \A k \in DOMAIN Tail(messages) :
               k + 1 \in DOMAIN messages /\ Tail(messages)[k] = messages[k + 1]
        BY <3>2, <4>2
      <4> HIDE DEF h
      <4>5. Framed
        BY <2>1, <4>1 DEF Framed, Leaving
      <4>6. alive' /\ looper'.pc = "delete" => InList(looper'.item)
        BY <2>2, <4>1, <4>3 DEF Gone, Leaving
      <4>7. \A k \in DOMAIN messages' : messages'[k].operate = "plugout" => Gone(messages'[k].item)
        BY <2>2, <4>1, <4>4
      <4>8. QED
        BY <1>1, <2>2, <4>5, <4>6, <4>7, FramedMountInv DEF IInv
    <3>3. QED
      BY <3>1, <3>2
  <2>6. QED
    BY <1>4, <2>3, <2>4, <2>5
<1>5. QED
  BY <1>2, <1>3, <1>4 DEF Looper

-----------------------------------------------------------------------------
LEMMA InitIInv == Init => IInv
<1> SUFFICES ASSUME Init PROVE IInv
  OBVIOUS
<1>1. Types
  BY DEF Init, Types, KernelTypes, ListTypes, HealthdTypes, LooperTypes, Item, Idle
<1>2. MountInv
  BY DEF Init, MountInv, PointsApart, MountingApart, ListingApart, ListedHolds,
         AnnouncedIsGone, LeavingIsOut, Leaving, Idle
<1>3. QED
  BY <1>1, <1>2 DEF IInv

LEMMA NextIInv == IInv /\ [Next]_vars => IInv'
<1> SUFFICES ASSUME IInv, [Next]_vars PROVE IInv'
  OBVIOUS
<1>1. Types'
  BY TypesStep DEF IInv
<1>2. MountInv'
  BY <1>1, OthersMountInv, HealthdMountInv, LooperMountInv DEF Next
<1>3. QED
  BY <1>1, <1>2 DEF IInv

\* The lists, the threads and the messages hold disks that were allocated, and a
\* disk whose unplugging is announced stays in the list until it is taken out.
THEOREM DiskInvariance == Spec => []IInv
  BY InitIInv, NextIInv, PTL DEF Spec

\* Whatever is plugged in and out, a disk of the list has not been freed and
\* something is mounted at its point: when the point of a disk that is not
\* unmounted yet is given to another one there are two mounts, and umount takes the
\* last of them.
THEOREM ListedStaysMounted == Spec => []ListedIsMounted
<1>1. IInv => ListedIsMounted
  BY DEF IInv, MountInv, ListedHolds, Holds, ListedIsMounted, MountsAt
<1>2. QED
  BY <1>1, DiskInvariance, PTL

-----------------------------------------------------------------------------
(* The inductive invariant of what agrees at rest.                         *)

Pages == {"media", "disk", "file"}
SystemMessage == [type : {"mount"}] \cup [type : {"unmount"}, data : Point]
                 \cup [type : {"page"}, to : Pages]

ScreenTypes ==
    /\ page \in Pages /\ queue \in Seq(SystemMessage)
    /\ screen \in [pc : {"loop"}] \cup [pc : {"refresh"}, index : Point]
                  \cup [pc : {"send"}, to : Pages] \cup [pc : {"open"}, item : Item]

\* A message that a disk was plugged in is on its way to the screens.
PlugInComing ==
    \/ healthd.pc = "put" /\ healthd.operate = "plugin"
    \/ \E k \in DOMAIN messages : messages[k].operate = "plugin"
    \/ looper.pc = "tell" /\ looper.operate = "plugin"

Has(q, type) == \E k \in DOMAIN q : q[k].type = type

\* A message that leads away from the page of the disks.
LeadsAway(q) == \E k \in DOMAIN q : q[k].type = "page" /\ q[k].to # "disk"

\* Every mount is followed by an unmount.
Outdone(q) ==
    \A k \in DOMAIN q : q[k].type = "mount" =>
        \E j \in DOMAIN q : k < j /\ q[j].type = "unmount"

\* A disk whose plugging in is being told is in the list, and the message that
\* it is plugged out comes later.
ToldIsListed ==
    /\ \A k \in DOMAIN messages : messages[k].operate = "plugin" =>
          /\ InList(messages[k].item)
          /\ \A j \in DOMAIN messages :
                j < k /\ messages[j].operate = "plugout" => messages[j].item # messages[k].item
          /\ alive /\ looper.pc = "delete" => looper.item # messages[k].item
    /\ healthd.pc = "put" /\ healthd.operate = "plugin" =>
          /\ InList(healthd.item)
          /\ \A j \in DOMAIN messages :
                messages[j].operate = "plugout" => messages[j].item # healthd.item
          /\ alive /\ looper.pc = "delete" => looper.item # healthd.item
    /\ looper.pc = "tell" /\ looper.operate = "plugin" => InList(looper.item)

IconComes ==
    disks # <<>> /\ ~icon => PlugInComing \/ Has(queue, "mount")

\* No mount comes to the screen after the last unmount.
IconGoes ==
    disks = <<>> =>
        \/ Leaving /\ looper.pc = "tell"
        \/ (icon => Has(queue, "unmount")) /\ Outdone(queue)

DrawnComes ==
    page = "disk" /\ drawn # Len(disks) =>
        \/ PlugInComing
        \/ looper.pc = "tell"
        \/ Has(queue, "mount") \/ Has(queue, "unmount") \/ LeadsAway(queue)
        \/ screen.pc = "refresh" /\ disks # <<>>

ScreenInv == ScreenTypes /\ ToldIsListed /\ IconComes /\ IconGoes /\ DrawnComes

\* The kernel's events.
Removal(d) == \E k \in DOMAIN uevents : uevents[k] = Event("remove", d)

\* The next event of a disk says that it is there.
Returns(d) ==
    \E k \in DOMAIN uevents :
        /\ uevents[k].dev = d /\ uevents[k].op # "remove"
        /\ \A j \in DOMAIN uevents : j < k => uevents[j].dev # d

\* No disk has been plugged out.
Clean ==
    /\ \A k \in DOMAIN messages : messages[k].operate = "plugin"
    /\ healthd.pc = "put" => healthd.operate = "plugin"
    /\ looper.pc # "delete" /\ ~Leaving

\* A disk that the kernel has added is there, or its removal comes.
AddedIsPlugged ==
    \A k \in DOMAIN uevents : uevents[k].op # "remove" =>
        \/ uevents[k].dev \in plugged
        \/ \E j \in DOMAIN uevents : k < j /\ uevents[j] = Event("remove", uevents[k].dev)

\* A disk is not added twice without a removal in between, unless it was found at
\* start before healthd reads that it was added.
AddedOnce ==
    \A j, k \in DOMAIN uevents : j < k /\ uevents[j].dev = uevents[k].dev =>
        \/ uevents[k].op = "remove"
        \/ uevents[j].op = "static" /\ uevents[k].op = "add"
        \/ \E l \in DOMAIN uevents :
              j <= l /\ l < k /\ uevents[l] = Event("remove", uevents[k].dev)

\* What was found at start comes first, before anything is plugged out.
FoundComesFirst ==
    \A k \in DOMAIN uevents : uevents[k].op = "static" =>
        booted /\ Clean /\ \A j \in DOMAIN uevents : j < k => uevents[j].op = "static"

NothingBefore ==
    ~booted => disks = <<>> /\ messages = <<>> /\ healthd.pc = "idle" /\ Clean

EventsInv == AddedIsPlugged /\ AddedOnce /\ FoundComesFirst /\ NothingBefore

\* A disk that the message thread is plugging out, or has plugged out.
Handled(i) == i \in freed \/ ((looper.pc = "delete" \/ Leaving) /\ looper.item = i)

\* So is one whose unplugging is announced before place k of the messages.
Lost(i, k) ==
    Handled(i) \/ \E j \in DOMAIN messages :
                     j < k /\ messages[j].operate = "plugout" /\ messages[j].item = i

\* A disk is plugged out twice: the message thread will use it freed.
Doomed ==
    \/ \E k \in DOMAIN messages :
          messages[k].operate = "plugout" /\ Lost(messages[k].item, k)
    \/ /\ healthd.pc = "put" /\ healthd.operate = "plugout"
       /\ Lost(healthd.item, Len(messages) + 1)

\* A disk whose unplugging is announced.
Announced(i) ==
    \/ \E k \in DOMAIN messages : messages[k].operate = "plugout" /\ messages[k].item = i
    \/ healthd.pc = "put" /\ healthd.operate = "plugout" /\ healthd.item = i
    \/ looper.pc = "delete" /\ looper.item = i

Staying(i) == InList(i) /\ ~Announced(i)

\* A disk that healthd is mounting, or has mounted and not listed.
Held(d) ==
    \/ healthd.pc = "mount" /\ healthd.dev = d
    \/ healthd.pc = "list" /\ items[Len(items)].dev = d

\* What is mounted at the disk's point is its own, and stays so.
Own(i) ==
    /\ \E k \in DOMAIN mounts : mounts[k] = items[i]
    /\ Leaving => items[looper.item].point # items[i].point

\* A disk that stays in the list is plugged in, or its removal comes.
StayingIsPlugged ==
    /\ \A i \in Item : Staying(i) => items[i].dev \in plugged \/ Removal(items[i].dev)
    /\ \A d \in Disk : Held(d) => d \in plugged \/ Removal(d)

\* There is only one of its name.
StayingAlone ==
    \A i \in Item : Staying(i) =>
        /\ ~Held(items[i].dev)
        /\ \A j \in Item : Staying(j) /\ items[j].dev = items[i].dev => j = i

\* When the name comes again, the kernel says that it is mounted.
ReturningIsMounted ==
    /\ \A i \in Item :
          /\ Staying(i) \/ (healthd.pc = "list" /\ i = Len(items))
          /\ Returns(items[i].dev)
          => Own(i)
    /\ healthd.pc = "mount" /\ Returns(healthd.dev) => Clean

PluggedInv ==
    /\ EventsInv
    /\ alive /\ ~Doomed => StayingIsPlugged /\ StayingAlone /\ ReturningIsMounted

RestInv == ScreenInv /\ PluggedInv

-----------------------------------------------------------------------------
(* What Append and Tail do to the places of a sequence.                    *)

LEMMA AppendFacts ==
    ASSUME NEW S, NEW s \in Seq(S), NEW e
    PROVE  /\ Len(s) \in Nat /\ DOMAIN s = 1 .. Len(s)
           /\ DOMAIN Append(s, e) = 1 .. Len(s) + 1
           /\ Append(s, e)[Len(s) + 1] = e
           /\ \A k \in DOMAIN s : k \in DOMAIN Append(s, e) /\ Append(s, e)[k] = s[k]
           /\ \A k \in DOMAIN s : k < Len(s) + 1 /\ k \in Nat
           /\ \A k \in DOMAIN Append(s, e) : k \in DOMAIN s \/ k = Len(s) + 1
  OBVIOUS

LEMMA TailFacts ==
    ASSUME NEW S, NEW s \in Seq(S), s # <<>>
    PROVE  /\ 1 \in DOMAIN s /\ s[1] = Head(s) /\ DOMAIN s = 1 .. Len(s) /\ Len(s) \in Nat
           /\ DOMAIN Tail(s) = 1 .. Len(s) - 1
           /\ \A k \in DOMAIN Tail(s) :
                 k \in Nat /\ k + 1 \in DOMAIN s /\ Tail(s)[k] = s[k + 1]
           /\ \A k \in DOMAIN s : k \in Nat /\ (k = 1 \/ 1 < k)
           /\ \A k \in DOMAIN s : 1 < k => k - 1 \in DOMAIN Tail(s) /\ Tail(s)[k - 1] = s[k]
  OBVIOUS

LEMMA ScreenTypesInv ==
    ASSUME IInv, IInv', ScreenTypes, [Next]_vars
    PROVE  ScreenTypes'
<1> USE DEF ScreenTypes
<1>0. Item \in SUBSET Item'
  <2>1. CASE Mount /\ items' # items
    BY <2>1 DEF Mount, IInv, Types, ListTypes, Item
  <2>2. CASE items' = items
    BY <2>2 DEF Item
  <2>3. QED
    BY <2>1, <2>2 DEF Next, Kernel, Healthd, Looper, Screen, vars, BootCheck, PlugIn, PlugOut,
           AddDiskInfo, PutMessage, SignalMessage, TestList, Block, TakeMessage, DelDiskInfo,
           TellScreen, UnMount, lists
<1>1. CASE Kernel \/ Healthd \/ UNCHANGED vars
  BY <1>0, <1>1 DEF Kernel, Healthd, vars, shown
<1>2. CASE Looper
  <2>1. page' = page /\ screen' = screen
    BY <1>2 DEF Looper, shown
  <2>2. queue' \in Seq(SystemMessage)
    <3>1. CASE TellScreen
      <4>1. looper.item \in Item /\ items \in Seq(DiskInfo)
        BY <3>1, LooperCases DEF TellScreen, IInv, Types, ListTypes
      <4>2. items[looper.item].point \in Point
        <5>1. items[looper.item] \in DiskInfo
          BY <4>1 DEF Item
        <5>2. QED
          BY <5>1 DEF DiskInfo
      <4>3. PICK m \in SystemMessage : queue' = Append(queue, m)
        <5> DEFINE n == IF looper.operate = "plugout"
                          THEN [type |-> "unmount", data |-> items[looper.item].point]
                          ELSE [type |-> "mount"]
        <5>1. n \in SystemMessage
          BY <4>2 DEF SystemMessage
        <5>2. queue' = Append(queue, n)
          BY <3>1 DEF TellScreen
        <5>3. QED
          BY <5>1, <5>2
      <4>4. QED
        BY <4>3
    <3>2. CASE ~TellScreen
      BY <1>2, <3>2 DEF Looper, TestList, Block, TakeMessage, DelDiskInfo, UnMount
    <3>3. QED
      BY <3>1, <3>2
  <2>3. QED
    BY <1>0, <2>1, <2>2
<1>3. CASE Screen
  <2> DEFINE Told == [pc : {"loop"}] \cup [pc : {"refresh"}, index : Point]
                     \cup [pc : {"send"}, to : Pages] \cup [pc : {"open"}, item : Item]
  <2>1. items' = items
    BY <1>3 DEF Screen, lists
  <2>2. \A to \in Pages : Switch(to) \in SystemMessage
    BY DEF Switch, SystemMessage
  <2>3. queue # <<>> => Head(queue) \in SystemMessage /\ Tail(queue) \in Seq(SystemMessage)
    BY HeadTailProperties
  <2>4. CASE SwitchPage
    <3>1. Head(queue).to \in Pages
      BY <2>3, <2>4 DEF SwitchPage, SystemMessage
    <3>2. QED
      BY <2>1, <2>3, <2>4, <3>1 DEF SwitchPage, Item
  <2>5. CASE DiskMounted
    BY <2>1, <2>3, <2>5 DEF DiskMounted, Item
  <2>6. CASE DiskUnmounted
    <3>1. Head(queue).data \in Point
      BY <2>3, <2>6 DEF DiskUnmounted, SystemMessage
    <3>2. screen' \in [pc : {"refresh"}, index : Point]
      BY <2>6, <3>1 DEF DiskUnmounted
    <3>3. queue' = Tail(queue) \/ queue' = Append(Tail(queue), Switch("media"))
      BY <2>6 DEF DiskUnmounted
    <3>4. queue' \in Seq(SystemMessage)
      BY <2>2, <2>3, <2>6, <3>3 DEF DiskUnmounted, Pages
    <3>5. QED
      BY <2>1, <2>6, <3>2, <3>4 DEF DiskUnmounted, Item
  <2>7. CASE RefreshPages
    <3>1. queue' = queue \/ queue' = Append(queue, Switch("disk"))
      BY <2>7 DEF RefreshPages
    <3>2. queue' \in Seq(SystemMessage)
      BY <2>2, <3>1 DEF Pages
    <3>3. QED
      BY <2>1, <2>7, <3>2 DEF RefreshPages, Item
  <2>8. CASE PressKey
    <3>1. PICK to \in KeyPages[page] : screen' = [pc |-> "send", to |-> to]
      BY <2>8 DEF PressKey
    <3>2. to \in Pages
      BY <3>1 DEF KeyPages, Pages
    <3>3. QED
      BY <2>1, <2>8, <3>1, <3>2 DEF PressKey, shown, Item
  <2>9. CASE SendSwitch
    <3>1. screen.to \in Pages
      BY <2>9 DEF SendSwitch
    <3>2. queue' \in Seq(SystemMessage)
      BY <2>2, <2>9, <3>1 DEF SendSwitch
    <3>3. QED
      BY <2>1, <2>9, <3>2 DEF SendSwitch, shown, Item
  <2>10. CASE ChooseDisk
    <3>1. CASE screen' = screen
      BY <2>1, <2>10, <3>1 DEF ChooseDisk, shown, Item
    <3>2. CASE screen' # screen
      <4>1. PICK k \in 1 .. drawn : ~(k > Len(disks)) /\ screen' = [pc |-> "open", item |-> disks[k]]
        BY <2>10, <3>2 DEF ChooseDisk, GetDiskNum
      <4>2. screen.pc = "loop"
        BY <2>10 DEF ChooseDisk
      <4>3. disks[k] \in Item
        BY <4>1 DEF IInv, Types, ListTypes
      <4>4. QED
        BY <2>1, <2>10, <4>1, <4>3 DEF ChooseDisk, shown, Item
    <3>3. QED
      BY <3>1, <3>2
  <2>11. CASE OpenDisk
    BY <2>1, <2>11 DEF OpenDisk, Item, Pages
  <2>12. QED
    BY <1>3, <2>4, <2>5, <2>6, <2>7, <2>8, <2>9, <2>10, <2>11 DEF Screen
<1>4. QED
  BY <1>1, <1>2, <1>3 DEF Next

-----------------------------------------------------------------------------
(* The screens.                                                            *)

\* Steps that announce nothing and take nothing from the list.
LEMMA FramedTold ==
    ASSUME ToldIsListed, UNCHANGED messages,
           \A i : InList(i) => InList(i)',
           healthd'.pc = "put" /\ healthd'.operate = "plugin" => healthd' = healthd,
           alive' /\ looper'.pc = "delete" =>
               alive /\ looper.pc = "delete" /\ looper'.item = looper.item,
           looper'.pc = "tell" /\ looper'.operate = "plugin" =>
               looper.pc = "tell" /\ looper.operate = "plugin" /\ looper'.item = looper.item
    PROVE  ToldIsListed'
<1>1. ASSUME NEW k \in DOMAIN messages, messages[k].operate = "plugin", NEW i, i = messages[k].item
      PROVE  /\ InList(i)'
             /\ \A j \in DOMAIN messages :
                   j < k /\ messages[j].operate = "plugout" => messages[j].item # i
             /\ alive' /\ looper'.pc = "delete" => looper'.item # i
  BY <1>1 DEF ToldIsListed
<1>2. ASSUME healthd'.pc = "put", healthd'.operate = "plugin", NEW i, i = healthd'.item
      PROVE  /\ InList(i)'
             /\ \A j \in DOMAIN messages :
                   messages[j].operate = "plugout" => messages[j].item # i
             /\ alive' /\ looper'.pc = "delete" => looper'.item # i
  BY <1>2 DEF ToldIsListed
<1>3. ASSUME looper'.pc = "tell", looper'.operate = "plugin", NEW i, i = looper'.item
      PROVE  InList(i)'
  BY <1>3 DEF ToldIsListed
<1>4. QED
  BY <1>1, <1>2, <1>3 DEF ToldIsListed, InList

\* healthd lists a new disk and announces it.
LEMMA AddTold ==
    ASSUME IInv, ToldIsListed, AddDiskInfo, looper' = looper, alive' = alive
    PROVE  ToldIsListed'
<1> DEFINE n == Len(items)
<1>1. /\ messages' = messages /\ disks' = Append(disks, n) /\ healthd.pc = "list"
      /\ healthd' = [pc |-> "put", operate |-> "plugin", item |-> n]
  BY DEF AddDiskInfo
<1>2. \A k \in DOMAIN disks : k \in DOMAIN disks' /\ disks'[k] = disks[k]
  BY <1>1, AppendFacts DEF IInv, Types, ListTypes
<1>3. \A i : InList(i) => InList(i)'
  BY <1>2 DEF InList
<1>4. ASSUME NEW i, i = n
      PROVE  InList(i)' /\ ~InList(i) /\ i \notin freed /\ (Leaving => looper.item # i)
  <2>1. Len(disks) + 1 \in DOMAIN disks' /\ disks'[Len(disks) + 1] = n
    BY <1>1, AppendFacts DEF IInv, Types, ListTypes
  <2>2. InList(i)'
    BY <1>4, <2>1 DEF InList
  <2>3. QED
    BY <1>1, <1>4, <2>2 DEF IInv, MountInv, ListingApart, InList
<1>5. \A j \in DOMAIN messages : messages[j].operate = "plugout" => messages[j].item # n
  BY <1>4 DEF IInv, MountInv, AnnouncedIsGone, Gone
<1>6. alive /\ looper.pc = "delete" => looper.item # n
  BY <1>4 DEF IInv, MountInv, LeavingIsOut
<1> HIDE DEF n
<1>7. ASSUME NEW k \in DOMAIN messages, messages[k].operate = "plugin", NEW i, i = messages[k].item
      PROVE  InList(i)'
  BY <1>3, <1>7 DEF ToldIsListed
<1>8. ASSUME looper.pc = "tell", looper.operate = "plugin", NEW i, i = looper.item
      PROVE  InList(i)'
  BY <1>3, <1>8 DEF ToldIsListed
<1>9. QED
  BY <1>1, <1>4, <1>5, <1>6, <1>7, <1>8 DEF ToldIsListed, InList

LEMMA PutTold ==
    ASSUME IInv, ToldIsListed, PutMessage, looper' = looper, alive' = alive
    PROVE  ToldIsListed'
<1> DEFINE new == [operate |-> healthd.operate, item |-> healthd.item]
           n == Len(messages)
<1>1. healthd.pc = "put" /\ messages' = Append(messages, new) /\ healthd'.pc = "signal" /\ disks' = disks
  BY DEF PutMessage
<1>2. /\ n \in Nat /\ DOMAIN messages = 1 .. n /\ DOMAIN messages' = 1 .. n + 1
      /\ messages'[n + 1].operate = healthd.operate /\ messages'[n + 1].item = healthd.item
      /\ \A k \in DOMAIN messages : k \in DOMAIN messages' /\ messages'[k] = messages[k]
      /\ \A k \in DOMAIN messages' : k \in DOMAIN messages \/ k = n + 1
  <2>1. messages \in Seq(HotplugMessage)
    BY DEF IInv, Types, ListTypes
  <2> HIDE DEF new
  <2>2. /\ n \in Nat /\ DOMAIN messages = 1 .. n /\ DOMAIN messages' = 1 .. n + 1
        /\ messages'[n + 1] = new
        /\ \A k \in DOMAIN messages : k \in DOMAIN messages' /\ messages'[k] = messages[k]
        /\ \A k \in DOMAIN messages' : k \in DOMAIN messages \/ k = n + 1
    BY <1>1, <2>1, AppendFacts
  <2>3. new.operate = healthd.operate /\ new.item = healthd.item
    BY DEF new
  <2>4. QED
    BY <2>2, <2>3
<1> HIDE DEF new, n
<1>3. \A i : InList(i)' <=> InList(i)
  BY <1>1 DEF InList
<1>4. ASSUME NEW k \in DOMAIN messages', messages'[k].operate = "plugin", NEW i, i = messages'[k].item
      PROVE  /\ InList(i)'
             /\ \A j \in DOMAIN messages' :
                   j < k /\ messages'[j].operate = "plugout" => messages'[j].item # i
             /\ alive /\ looper.pc = "delete" => looper.item # i
  <2>1. CASE k \in DOMAIN messages
    <3>1. \A j \in DOMAIN messages' : j < k => j \in DOMAIN messages
      BY <1>2, <2>1
    <3>2. QED
      BY <1>2, <1>3, <1>4, <2>1, <3>1 DEF ToldIsListed
  <2>2. CASE k = n + 1
    <3>1. \A j \in DOMAIN messages' : j < k => j \in DOMAIN messages
      BY <1>2, <2>2
    <3>2. QED
      BY <1>1, <1>2, <1>3, <1>4, <2>2, <3>1 DEF ToldIsListed
  <2>3. QED
    BY <1>2, <2>1, <2>2
<1>5. ASSUME looper.pc = "tell", looper.operate = "plugin", NEW i, i = looper.item
      PROVE  InList(i)'
  BY <1>3, <1>5 DEF ToldIsListed
<1>6. QED
  BY <1>1, <1>4, <1>5 DEF ToldIsListed, InList

LEMMA TakeTold ==
    ASSUME IInv, ToldIsListed, TakeMessage, healthd' = healthd, messages # <<>>
    PROVE  ToldIsListed'
<1> DEFINE h == Head(messages)
<1>1. /\ looper.pc = "take" /\ messages' = Tail(messages) /\ disks' = disks
      /\ looper' = [pc |-> IF h.operate = "plugout" THEN "delete" ELSE "tell",
                    operate |-> h.operate, item |-> h.item]
  BY DEF TakeMessage
<1>2. /\ 1 \in DOMAIN messages /\ messages[1] = h
      /\ \A k \in DOMAIN messages' :
            k \in Nat /\ k + 1 \in DOMAIN messages /\ messages'[k] = messages[k + 1]
  BY <1>1, TailFacts DEF IInv, Types, ListTypes
<1> HIDE DEF h
<1>3. \A i : InList(i)' <=> InList(i)
  BY <1>1 DEF InList
<1>4. looper'.pc = "delete" => h.operate = "plugout" /\ looper'.item = h.item
  BY <1>1
<1>5. ASSUME NEW k \in DOMAIN messages', messages'[k].operate = "plugin", NEW i, i = messages'[k].item
      PROVE  /\ InList(i)'
             /\ \A j \in DOMAIN messages' :
                   j < k /\ messages'[j].operate = "plugout" => messages'[j].item # i
             /\ looper'.pc = "delete" => looper'.item # i
  <2>1. k + 1 \in DOMAIN messages /\ messages[k + 1].operate = "plugin" /\ messages[k + 1].item = i
        /\ 1 < k + 1
    BY <1>2, <1>5
  <2>2. \A j \in DOMAIN messages : j < k + 1 /\ messages[j].operate = "plugout" => messages[j].item # i
    BY <2>1 DEF ToldIsListed
  <2>3. InList(i)'
    BY <1>3, <2>1 DEF ToldIsListed
  <2>4. ASSUME NEW j \in DOMAIN messages', j < k, messages'[j].operate = "plugout"
        PROVE  messages'[j].item # i
    <3>1. j + 1 < k + 1 /\ j + 1 \in DOMAIN messages /\ messages'[j] = messages[j + 1]
      BY <1>2, <2>4
    <3>2. QED
      BY <2>2, <2>4, <3>1
  <2>5. QED
    BY <1>2, <1>4, <2>1, <2>2, <2>3, <2>4
<1>6. ASSUME healthd.pc = "put", healthd.operate = "plugin", NEW i, i = healthd.item
      PROVE  /\ InList(i)'
             /\ \A j \in DOMAIN messages' :
                   messages'[j].operate = "plugout" => messages'[j].item # i
             /\ looper'.pc = "delete" => looper'.item # i
  BY <1>2, <1>3, <1>4, <1>6 DEF ToldIsListed
<1>7. ASSUME looper'.pc = "tell", looper'.operate = "plugin", NEW i, i = looper'.item
      PROVE  InList(i)'
  BY <1>1, <1>2, <1>3, <1>7 DEF ToldIsListed
<1>8. QED
  BY <1>5, <1>6, <1>7 DEF ToldIsListed, InList

\* Only the disk that the message thread deletes leaves the list.
LEMMA DeleteList ==
    ASSUME IInv, DelDiskInfo, alive
    PROVE  /\ looper'.pc = "tell" /\ looper'.operate = "plugout" /\ looper'.item = looper.item
           /\ \A i : InList(i)' <=> (InList(i) /\ i # looper.item)
<1> DEFINE it == looper.item
           same == {k \in DOMAIN disks : items[disks[k]] = items[it]}
           first == CHOOSE k \in same : \A j \in same : k <= j
           m == Len(disks)
<1>1. /\ looper.pc = "delete"
      /\ disks' = IF same = {} THEN disks ELSE RemoveAt(disks, first)
      /\ looper' = [looper EXCEPT !.pc = "tell"]
  BY DEF DelDiskInfo
<1>2. m \in Nat /\ DOMAIN disks = 1 .. m /\ disks \in Seq(Item)
  BY DEF IInv, Types, ListTypes
<1>3. looper'.pc = "tell" /\ looper'.item = it /\ looper'.operate = "plugout"
  <2>1. looper \in [pc : {"delete", "unmount"}, operate : {"plugout"}, item : Item]
    BY <1>1 DEF IInv, Types, LooperTypes
  <2>2. QED
    BY <1>1, <2>1
<1>4. PICK r \in 1 .. m : disks[r] = it /\ first = r /\ same # {}
  <2>1. PICK r \in DOMAIN disks : disks[r] = it
    BY <1>1 DEF IInv, MountInv, LeavingIsOut, InList
  <2>2. r \in same
    BY <2>1
  <2>3. first \in same
    BY <2>2, FirstListed DEF IInv, Types
  <2>4. first = r
    BY <2>1, <2>3 DEF IInv, MountInv, PointsApart
  <2>5. QED
    BY <1>2, <2>1, <2>2, <2>4
<1>5. \A k \in DOMAIN disks : disks[k] = it => k = r
  BY <1>2, <1>4 DEF IInv, MountInv, PointsApart
<1> HIDE DEF same, first, m, it
<1>6. /\ DOMAIN disks' = 1 .. m - 1
      /\ \A k \in 1 .. m - 1 : disks'[k] = IF k < r THEN disks[k] ELSE disks[k + 1]
  BY <1>1, <1>2, <1>4, RemoveAtProperties DEF m
<1>7. ASSUME NEW i, InList(i), i # it
      PROVE  InList(i)'
  <2>1. PICK j \in DOMAIN disks : disks[j] = i /\ j # r
    BY <1>4, <1>7 DEF InList
  <2>2. CASE j < r
    <3>1. j \in DOMAIN disks' /\ disks'[j] = i
      BY <1>2, <1>4, <1>6, <2>1, <2>2
    <3>2. QED
      BY <3>1 DEF InList
  <2>3. CASE j > r
    <3>1. j - 1 \in DOMAIN disks' /\ disks'[j - 1] = i
      BY <1>2, <1>4, <1>6, <2>1, <2>3
    <3>2. QED
      BY <3>1 DEF InList
  <2>4. QED
    BY <1>2, <1>4, <2>1, <2>2, <2>3
<1>8. ASSUME NEW i, InList(i)'
      PROVE  InList(i) /\ i # it
  <2>1. PICK k \in DOMAIN disks' : disks'[k] = i
    BY <1>8 DEF InList
  <2>2. (IF k < r THEN k ELSE k + 1) \in DOMAIN disks /\ (IF k < r THEN k ELSE k + 1) # r
        /\ disks[IF k < r THEN k ELSE k + 1] = i
    BY <1>2, <1>4, <1>6, <2>1
  <2>3. QED
    BY <1>5, <2>2 DEF InList
<1>9. QED
  BY <1>3, <1>7, <1>8 DEF it

LEMMA DeleteTold ==
    ASSUME IInv, ToldIsListed, DelDiskInfo, healthd' = healthd, alive, alive' = alive
    PROVE  ToldIsListed'
<1>1. messages' = messages /\ looper.pc = "delete"
  BY DEF DelDiskInfo
<1>2. looper'.pc = "tell" /\ looper'.operate = "plugout"
      /\ \A i : InList(i)' <=> (InList(i) /\ i # looper.item)
  BY DeleteList
<1>3. ASSUME NEW k \in DOMAIN messages, messages[k].operate = "plugin", NEW i, i = messages[k].item
      PROVE  InList(i)'
  BY <1>1, <1>2, <1>3 DEF ToldIsListed
<1>4. ASSUME healthd.pc = "put", healthd.operate = "plugin", NEW i, i = healthd.item
      PROVE  InList(i)'
  BY <1>1, <1>2, <1>4 DEF ToldIsListed
<1>5. QED
  BY <1>1, <1>2, <1>3, <1>4 DEF ToldIsListed, InList

LEMMA ToldStep ==
    ASSUME IInv, ToldIsListed, [Next]_vars
    PROVE  ToldIsListed'
<1>1. CASE Kernel \/ Screen \/ UNCHANGED vars
  <2>1. UNCHANGED <<disks, messages, healthd, looper>> /\ (alive' => alive)
    BY <1>1 DEF Kernel, Screen, vars, lists
  <2>2. \A i : InList(i) => InList(i)'
    BY <2>1 DEF InList
  <2>3. QED
    BY <2>1, <2>2, FramedTold
<1>2. CASE Healthd
  <2>1. alive' = alive
    BY <1>2 DEF Healthd
  <2>2. CASE AddDiskInfo
    <3>1. looper' = looper
      BY <1>2, <2>2 DEF Healthd, AddDiskInfo, SignalMessage
    <3>2. QED
      BY <2>1, <2>2, <3>1, AddTold
  <2>3. CASE PutMessage
    <3>1. looper' = looper
      BY <1>2, <2>3 DEF Healthd, PutMessage, SignalMessage
    <3>2. QED
      BY <2>1, <2>3, <3>1, PutTold
  <2>4. CASE BootCheck \/ PlugIn \/ PlugOut \/ Mount \/ SignalMessage
    <3>1. UNCHANGED <<disks, messages>>
      BY <2>4 DEF BootCheck, PlugIn, PlugOut, Mount, SignalMessage, lists
    <3>2. healthd'.pc = "put" /\ healthd'.operate = "plugin" => healthd' = healthd
      BY <2>4 DEF BootCheck, PlugIn, PlugOut, Mount, SignalMessage, Idle
    <3>3. looper' = looper \/ looper'.pc = "take"
      BY <1>2, <2>4 DEF Healthd, BootCheck, PlugIn, PlugOut, Mount, SignalMessage
    <3>4. \A i : InList(i) => InList(i)'
      BY <3>1 DEF InList
    <3>5. QED
      BY <2>1, <3>1, <3>2, <3>3, <3>4, FramedTold
  <2>5. QED
    BY <1>2, <2>2, <2>3, <2>4 DEF Healthd
<1>3. CASE Looper
  <2>1. healthd' = healthd /\ alive
    BY <1>3 DEF Looper
  <2>2. CASE DelDiskInfo
    BY <2>1, <2>2, DeleteTold DEF DelDiskInfo
  <2>3. CASE TakeMessage /\ messages # <<>>
    BY <2>1, <2>3, TakeTold
  <2>4. CASE TestList \/ Block \/ TellScreen \/ UnMount \/ (TakeMessage /\ messages = <<>>)
    <3>1. UNCHANGED <<disks, messages>> /\ (alive' => alive)
      BY <2>1, <2>4 DEF TestList, Block, TellScreen, UnMount, TakeMessage, lists
    <3>2. looper' = looper \/ looper'.pc \in {"block", "take", "wait", "pop", "unmount"}
      <4>1. CASE TellScreen /\ looper.operate = "plugout"
        <5>1. looper \in [pc : {"tell"}, operate : Operate, item : Item]
          BY <4>1 DEF IInv, Types, LooperTypes, TellScreen
        <5>2. QED
          BY <4>1, <5>1 DEF TellScreen
      <4>2. CASE TellScreen /\ looper.operate # "plugout"
        BY <4>2 DEF TellScreen
      <4>3. QED
        BY <2>4, <4>1, <4>2 DEF TestList, Block, UnMount, TakeMessage
    <3>3. \A i : InList(i) => InList(i)'
      BY <3>1 DEF InList
    <3>4. QED
      BY <2>1, <3>1, <3>2, <3>3, FramedTold
  <2>5. QED
    BY <1>3, <2>2, <2>3, <2>4 DEF Looper
<1>4. QED
  BY <1>1, <1>2, <1>3 DEF Next

\* What happens to the messages of the screens.
LEMMA QueueAppend ==
    ASSUME NEW S, NEW q \in Seq(S), NEW m
    PROVE  /\ \A t : Has(q, t) => Has(Append(q, m), t)
           /\ Has(Append(q, m), m.type)
           /\ LeadsAway(q) => LeadsAway(Append(q, m))
           /\ Outdone(q) /\ m.type # "mount" => Outdone(Append(q, m))
           /\ m.type = "unmount" => Outdone(Append(q, m))
           /\ m.type = "page" /\ m.to # "disk" => LeadsAway(Append(q, m))
<1> DEFINE a == Append(q, m)
           n == Len(q)
<1>1. /\ n \in Nat /\ DOMAIN q = 1 .. n /\ DOMAIN a = 1 .. n + 1 /\ a[n + 1] = m
      /\ \A k \in DOMAIN q : k \in DOMAIN a /\ a[k] = q[k]
      /\ \A k \in DOMAIN q : k < n + 1 /\ k \in Nat
      /\ \A k \in DOMAIN a : k \in DOMAIN q \/ k = n + 1
      /\ n + 1 \in DOMAIN a
  BY AppendFacts
<1> HIDE DEF a, n
<1>2. \A t : Has(q, t) => Has(a, t)
  BY <1>1 DEF Has
<1>3. Has(a, m.type) /\ (LeadsAway(q) => LeadsAway(a))
      /\ (m.type = "page" /\ m.to # "disk" => LeadsAway(a))
  BY <1>1 DEF Has, LeadsAway
<1>4. Outdone(q) /\ m.type # "mount" => Outdone(a)
  BY <1>1 DEF Outdone
<1>5. m.type = "unmount" => Outdone(a)
  BY <1>1 DEF Outdone
<1>6. QED
  BY <1>2, <1>3, <1>4, <1>5 DEF a

LEMMA QueueTail ==
    ASSUME NEW S, NEW q \in Seq(S), q # <<>>
    PROVE  /\ \A t : Has(q, t) /\ Head(q).type # t => Has(Tail(q), t)
           /\ LeadsAway(q) /\ ~(Head(q).type = "page" /\ Head(q).to # "disk") => LeadsAway(Tail(q))
           /\ Outdone(q) => Outdone(Tail(q)) /\ (Head(q).type = "mount" => Has(Tail(q), "unmount"))
<1> DEFINE a == Tail(q)
<1>1. /\ 1 \in DOMAIN q /\ q[1] = Head(q)
      /\ \A k \in DOMAIN a : k \in Nat /\ k + 1 \in DOMAIN q /\ a[k] = q[k + 1]
      /\ \A k \in DOMAIN q : k \in Nat /\ (k = 1 \/ 1 < k)
      /\ \A k \in DOMAIN q : 1 < k => k - 1 \in DOMAIN a /\ a[k - 1] = q[k]
  BY TailFacts
<1> HIDE DEF a
<1>2. \A t : Has(q, t) /\ Head(q).type # t => Has(a, t)
  BY <1>1 DEF Has
<1>3. LeadsAway(q) /\ ~(Head(q).type = "page" /\ Head(q).to # "disk") => LeadsAway(a)
  BY <1>1 DEF LeadsAway
<1>4. ASSUME Outdone(q)
      PROVE  Outdone(a)
  <2>1. ASSUME NEW k \in DOMAIN a, a[k].type = "mount"
        PROVE  \E j \in DOMAIN a : k < j /\ a[j].type = "unmount"
    <3>1. PICK j \in DOMAIN q : k + 1 < j /\ q[j].type = "unmount"
      BY <1>1, <1>4, <2>1 DEF Outdone
    <3>2. k \in Nat /\ j \in Nat /\ 1 < j /\ k < j - 1
      BY <1>1, <2>1, <3>1
    <3>3. QED
      BY <1>1, <3>1, <3>2
  <2>2. QED
    BY <2>1 DEF Outdone
<1>5. Outdone(q) /\ Head(q).type = "mount" => Has(a, "unmount")
  BY <1>1 DEF Outdone, Has
<1>6. QED
  BY <1>2, <1>3, <1>4, <1>5 DEF a

LEMMA HealthdComing ==
    ASSUME IInv, Healthd
    PROVE  /\ AddDiskInfo => PlugInComing' /\ disks' # <<>>
           /\ ~AddDiskInfo => disks' = disks
           /\ PlugInComing => PlugInComing'
           /\ looper.pc = "tell" => looper' = looper
           /\ UNCHANGED <<queue, page, icon, drawn, screen>>
<1>1. looper.pc = "tell" => looper' = looper
  BY DEF Healthd, SignalMessage
<1>2. UNCHANGED <<queue, page, icon, drawn, screen>>
  BY DEF Healthd, shown
<1>3. CASE AddDiskInfo
  <2>1. healthd'.pc = "put" /\ healthd'.operate = "plugin" /\ disks' = Append(disks, Len(items))
    BY <1>3 DEF AddDiskInfo
  <2>2. disks' # <<>>
    <3>1. Len(disks) + 1 \in DOMAIN disks'
      BY <2>1, AppendFacts DEF IInv, Types, ListTypes
    <3>2. QED
      BY <3>1
  <2>3. QED
    BY <1>1, <1>2, <1>3, <2>1, <2>2 DEF PlugInComing
<1>4. CASE ~AddDiskInfo
  <2>1. disks' = disks
    BY <1>4 DEF Healthd, BootCheck, PlugIn, PlugOut, Mount, PutMessage, SignalMessage, lists
  <2>2. CASE PutMessage
    <3> DEFINE new == [operate |-> healthd.operate, item |-> healthd.item]
    <3>1. messages' = Append(messages, new) /\ messages \in Seq(HotplugMessage)
          /\ (looper.pc = "tell" => looper' = looper) /\ new.operate = healthd.operate
      BY <1>1, <2>2 DEF PutMessage, IInv, Types, ListTypes
    <3> HIDE DEF new
    <3>2. /\ Len(messages) + 1 \in DOMAIN messages'
          /\ messages'[Len(messages) + 1].operate = healthd.operate
          /\ \A k \in DOMAIN messages : k \in DOMAIN messages' /\ messages'[k] = messages[k]
      BY <3>1, AppendFacts
    <3>3. QED
      BY <1>1, <1>2, <1>4, <2>1, <3>1, <3>2 DEF PlugInComing
  <2>3. CASE ~PutMessage
    <3>1. messages' = messages /\ (healthd.pc # "put" \/ healthd' = healthd)
      BY <1>4, <2>3 DEF Healthd, BootCheck, PlugIn, PlugOut, Mount, SignalMessage, lists
    <3>2. QED
      BY <1>1, <1>2, <1>4, <2>1, <3>1 DEF PlugInComing
  <2>4. QED
    BY <2>2, <2>3
<1>5. QED
  BY <1>3, <1>4

\* The message thread passes on what it takes.
LEMMA LooperComing ==
    ASSUME IInv, ScreenTypes, Looper
    PROVE  /\ PlugInComing => PlugInComing' \/ Has(queue, "mount")'
           /\ \A t : Has(queue, t) => Has(queue', t)
           /\ LeadsAway(queue) => LeadsAway(queue')
           /\ ~DelDiskInfo => disks' = disks
           /\ DelDiskInfo => looper'.pc = "tell" /\ Leaving'
           /\ looper.pc = "tell" => Has(queue', "mount") \/ Has(queue', "unmount")
           /\ UNCHANGED <<page, icon, drawn, screen, healthd>>
<1>1. UNCHANGED <<page, icon, drawn, screen, healthd>> /\ alive
  BY DEF Looper, shown
<1>2. CASE TellScreen
  <2> DEFINE m == IF looper.operate = "plugout"
                    THEN [type |-> "unmount", data |-> items[looper.item].point]
                    ELSE [type |-> "mount"]
  <2>1. queue' = Append(queue, m) /\ UNCHANGED <<messages, disks>> /\ looper.pc = "tell"
        /\ queue \in Seq(SystemMessage)
    BY <1>2 DEF TellScreen, lists, ScreenTypes
  <2>2. m.type = IF looper.operate = "plugout" THEN "unmount" ELSE "mount"
    OBVIOUS
  <2> HIDE DEF m
  <2>3. /\ \A t : Has(queue, t) => Has(queue', t)
        /\ Has(queue', m.type) /\ (LeadsAway(queue) => LeadsAway(queue'))
    BY <2>1, QueueAppend
  <2>4. ~DelDiskInfo
    BY <2>1 DEF DelDiskInfo
  <2>5. PlugInComing => PlugInComing' \/ Has(queue', "mount")
    BY <1>1, <2>1, <2>2, <2>3 DEF PlugInComing
  <2>6. QED
    BY <1>1, <2>1, <2>2, <2>3, <2>4, <2>5
<1>3. CASE DelDiskInfo
  <2>1. UNCHANGED <<queue, messages>> /\ looper.pc = "delete"
    BY <1>3 DEF DelDiskInfo
  <2>2. looper'.pc = "tell" /\ looper'.operate = "plugout"
    BY <1>1, <1>3, DeleteList
  <2>3. QED
    BY <1>1, <1>3, <2>1, <2>2 DEF PlugInComing, Leaving
<1>4. CASE TakeMessage
  <2>1. UNCHANGED <<queue, disks>> /\ looper.pc = "take"
    BY <1>4 DEF TakeMessage
  <2>2. ~DelDiskInfo
    BY <2>1 DEF DelDiskInfo
  <2>3. PlugInComing => PlugInComing'
    <3>1. CASE messages = <<>>
      BY <1>1, <1>4, <2>1, <3>1 DEF TakeMessage, PlugInComing
    <3>2. CASE messages # <<>>
      <4>1. /\ messages' = Tail(messages)
            /\ looper'.pc = (IF Head(messages).operate = "plugout" THEN "delete" ELSE "tell")
            /\ looper'.operate = Head(messages).operate
        BY <1>4, <3>2 DEF TakeMessage
      <4>2. ASSUME NEW k \in DOMAIN messages, messages[k].operate = "plugin"
            PROVE  PlugInComing'
        <5>1. (k = 1 /\ messages[k] = Head(messages)) \/ \E j \in DOMAIN messages' : messages'[j] = messages[k]
          BY <3>2, <4>1, TailFacts DEF IInv, Types, ListTypes
        <5>2. QED
          BY <4>1, <4>2, <5>1 DEF PlugInComing
      <4>3. QED
        BY <1>1, <2>1, <4>2 DEF PlugInComing
    <3>3. QED
      BY <3>1, <3>2
  <2>4. QED
    BY <1>1, <2>1, <2>2, <2>3
<1>5. CASE TestList \/ Block \/ UnMount
  <2>1. UNCHANGED <<queue, disks, messages>> /\ looper.pc \notin {"tell", "delete"}
    BY <1>5 DEF TestList, Block, UnMount, lists
  <2>2. QED
    BY <1>1, <2>1 DEF PlugInComing, DelDiskInfo
<1>6. QED
  BY <1>2, <1>3, <1>4, <1>5 DEF Looper

\* The icon lights up when there is a disk.
LEMMA IconComesStep ==
    ASSUME IInv, ScreenInv, [Next]_vars
    PROVE  IconComes'
<1>0. IconComes /\ ScreenTypes
  BY DEF ScreenInv
<1>1. CASE Kernel \/ UNCHANGED vars
  BY <1>0, <1>1 DEF IconComes, PlugInComing, Kernel, vars, lists, shown
<1>2. CASE Healthd
  BY <1>0, <1>2, HealthdComing DEF IconComes
<1>3. CASE Looper
  <2>1. disks' # <<>> => disks # <<>>
    <3>1. CASE DelDiskInfo
      BY <3>1 DEF DelDiskInfo
    <3>2. CASE ~DelDiskInfo
      BY <1>0, <1>3, <3>2, LooperComing
    <3>3. QED
      BY <3>1, <3>2
  <2>2. QED
    BY <1>0, <1>3, <2>1, LooperComing DEF IconComes
<1>4. CASE Screen
  <2>1. UNCHANGED <<disks, messages, healthd, looper>>
    BY <1>4 DEF Screen, lists
  <2>2. PlugInComing' <=> PlugInComing
    BY <2>1 DEF PlugInComing
  <2>3. CASE SwitchPage
    BY <1>0, <2>1, <2>2, <2>3, QueueTail DEF IconComes, SwitchPage, ScreenTypes
  <2>4. CASE DiskMounted
    BY <2>4 DEF IconComes, DiskMounted
  <2>5. CASE DiskUnmounted
    <3>1. CASE disks = <<>>
      BY <2>1, <3>1 DEF IconComes
    <3>2. CASE disks # <<>>
      <4>1. Len(disks) # 0
        BY <3>2 DEF IInv, Types, ListTypes
      <4>2. icon' = icon /\ queue' = Tail(queue) /\ queue # <<>> /\ Head(queue).type = "unmount"
        BY <2>5, <4>1 DEF DiskUnmounted, GetDiskNum
      <4>3. QED
        BY <1>0, <2>1, <2>2, <4>2, QueueTail DEF IconComes, ScreenTypes
    <3>3. QED
      BY <3>1, <3>2
  <2>6. CASE RefreshPages \/ PressKey \/ SendSwitch \/ ChooseDisk \/ OpenDisk
    <3>1. icon' = icon /\ (queue' = queue \/ \E m : queue' = Append(queue, m))
      BY <2>6 DEF RefreshPages, PressKey, SendSwitch, ChooseDisk, OpenDisk, shown
    <3>2. Has(queue, "mount") => Has(queue', "mount")
      BY <1>0, <3>1, QueueAppend DEF ScreenTypes
    <3>3. QED
      BY <1>0, <2>1, <2>2, <3>1, <3>2 DEF IconComes
  <2>7. QED
    BY <1>4, <2>3, <2>4, <2>5, <2>6 DEF Screen
<1>5. QED
  BY <1>1, <1>2, <1>3, <1>4 DEF Next

\* It goes out when there is none.
LEMMA IconGoesStep ==
    ASSUME IInv, ScreenInv, [Next]_vars
    PROVE  IconGoes'
<1>0. IconGoes /\ ScreenTypes /\ ToldIsListed
  BY DEF ScreenInv
<1>1. CASE Kernel \/ UNCHANGED vars
  BY <1>0, <1>1 DEF IconGoes, Leaving, Kernel, vars, lists, shown
<1>2. CASE Healthd
  <2>1. CASE AddDiskInfo
    BY <1>2, <2>1, HealthdComing DEF IconGoes
  <2>2. CASE ~AddDiskInfo
    <3>1. disks' = disks /\ UNCHANGED <<queue, icon>> /\ (looper.pc = "tell" => looper' = looper)
      BY <1>2, <2>2, HealthdComing
    <3>2. QED
      BY <1>0, <3>1 DEF IconGoes, Leaving
  <2>3. QED
    BY <2>1, <2>2
<1>3. CASE Looper
  <2>1. icon' = icon /\ (~DelDiskInfo => disks' = disks)
    BY <1>0, <1>3, LooperComing
  <2>2. CASE DelDiskInfo
    BY <1>0, <1>3, <2>2, LooperComing DEF IconGoes
  <2>3. CASE TellScreen
    <3> DEFINE m == IF looper.operate = "plugout"
                      THEN [type |-> "unmount", data |-> items[looper.item].point]
                      ELSE [type |-> "mount"]
    <3>1. queue' = Append(queue, m) /\ looper.pc = "tell" /\ queue \in Seq(SystemMessage)
          /\ disks' = disks
      BY <1>0, <2>3 DEF TellScreen, lists, ScreenTypes
    <3>2. CASE looper.operate = "plugout"
      <4>1. m.type = "unmount"
        BY <3>2
      <4> HIDE DEF m
      <4>2. Has(queue', "unmount") /\ Outdone(queue')
        <5>1. Has(Append(queue, m), m.type) /\ (m.type = "unmount" => Outdone(Append(queue, m)))
          BY <3>1, QueueAppend
        <5>2. QED
          BY <3>1, <4>1, <5>1
      <4>3. QED
        BY <4>2 DEF IconGoes
    <3>3. CASE looper.operate # "plugout"
      <4>1. looper.operate = "plugin"
        BY <3>1, <3>3, LooperCases DEF IInv, Types, Operate
      <4>2. InList(looper.item)
        BY <1>0, <3>1, <4>1 DEF ToldIsListed
      <4>3. disks # <<>>
        BY <4>2 DEF InList, IInv, Types, ListTypes
      <4>4. QED
        BY <3>1, <4>3 DEF IconGoes
    <3>4. QED
      BY <3>2, <3>3
  <2>4. CASE TestList \/ Block \/ TakeMessage \/ UnMount
    <3>1. looper.pc # "tell" /\ queue' = queue /\ ~DelDiskInfo
      BY <2>4 DEF TestList, Block, TakeMessage, UnMount, DelDiskInfo
    <3>2. QED
      BY <1>0, <2>1, <3>1 DEF IconGoes
  <2>5. QED
    BY <1>3, <2>2, <2>3, <2>4 DEF Looper
<1>4. CASE Screen
  <2>1. UNCHANGED <<disks, looper>>
    BY <1>4 DEF Screen, lists
  <2>2. SUFFICES ASSUME disks = <<>>, ~(Leaving /\ looper.pc = "tell")
                 PROVE  (icon' => Has(queue', "unmount")) /\ Outdone(queue')
    BY <2>1 DEF IconGoes, Leaving
  <2>3. (icon => Has(queue, "unmount")) /\ Outdone(queue) /\ queue \in Seq(SystemMessage)
    BY <1>0, <2>2 DEF IconGoes, ScreenTypes
  <2>4. CASE SwitchPage \/ DiskMounted
    <3>1. queue # <<>> /\ queue' = Tail(queue)
          /\ \/ icon' = icon /\ Head(queue).type = "page"
             \/ Head(queue).type = "mount"
      BY <2>4 DEF SwitchPage, DiskMounted
    <3>2. /\ \A t : Has(queue, t) /\ Head(queue).type # t => Has(Tail(queue), t)
          /\ Outdone(queue) => Outdone(Tail(queue))
                             /\ (Head(queue).type = "mount" => Has(Tail(queue), "unmount"))
      BY <2>3, <3>1, QueueTail
    <3>3. QED
      BY <2>3, <3>1, <3>2
  <2>5. CASE DiskUnmounted
    <3>1. icon' = FALSE /\ queue # <<>>
          /\ (queue' = Tail(queue) \/ queue' = Append(Tail(queue), Switch("media")))
      BY <2>2, <2>5 DEF DiskUnmounted, GetDiskNum
    <3>2. Outdone(Tail(queue)) /\ Tail(queue) \in Seq(SystemMessage)
      BY <2>3, <3>1, QueueTail, HeadTailProperties
    <3>3. Switch("media").type # "mount"
      BY DEF Switch
    <3>4. QED
      BY <3>1, <3>2, <3>3, QueueAppend
  <2>6. CASE RefreshPages \/ PressKey \/ SendSwitch \/ ChooseDisk \/ OpenDisk
    <3>1. icon' = icon /\ (queue' = queue \/ \E to : queue' = Append(queue, Switch(to)))
      BY <2>6 DEF RefreshPages, PressKey, SendSwitch, ChooseDisk, OpenDisk, shown
    <3>2. ASSUME NEW to, queue' = Append(queue, Switch(to))
          PROVE  (icon' => Has(queue', "unmount")) /\ Outdone(queue')
      <4>1. Switch(to).type # "mount"
        BY DEF Switch
      <4>2. QED
        BY <2>3, <3>1, <3>2, <4>1, QueueAppend
    <3>3. QED
      BY <2>3, <3>1, <3>2
  <2>7. QED
    BY <1>4, <2>4, <2>5, <2>6 DEF Screen
<1>5. QED
  BY <1>1, <1>2, <1>3, <1>4 DEF Next

\* The page of the disks is drawn again when the list has changed.
LEMMA DrawnComesStep ==
    ASSUME IInv, ScreenInv, [Next]_vars
    PROVE  DrawnComes'
<1>0. DrawnComes /\ ScreenTypes
  BY DEF ScreenInv
<1>1. CASE Kernel \/ UNCHANGED vars
  BY <1>0, <1>1 DEF DrawnComes, PlugInComing, Kernel, vars, lists, shown
<1>2. CASE Healthd
  BY <1>0, <1>2, HealthdComing DEF DrawnComes
<1>3. CASE Looper
  <2>1. CASE DelDiskInfo
    BY <1>0, <1>3, <2>1, LooperComing DEF DrawnComes
  <2>2. CASE ~DelDiskInfo
    BY <1>0, <1>3, <2>2, LooperComing DEF DrawnComes
  <2>3. QED
    BY <2>1, <2>2
<1>4. CASE Screen
  <2>1. UNCHANGED <<disks, messages, healthd, looper>> /\ queue \in Seq(SystemMessage)
    BY <1>0, <1>4 DEF Screen, lists, ScreenTypes
  <2>2. PlugInComing' <=> PlugInComing
    BY <2>1 DEF PlugInComing
  <2>3. CASE SwitchPage
    <3>1. page' = Head(queue).to /\ queue' = Tail(queue) /\ queue # <<>> /\ screen' = screen
          /\ Head(queue).type = "page"
          /\ (Head(queue).to = "disk" /\ page # "disk" => drawn' = Len(disks))
          /\ (Head(queue).to = "disk" /\ page = "disk" => drawn' = drawn)
      BY <2>3 DEF SwitchPage, GetDiskNum
    <3>2. QED
      BY <1>0, <2>1, <2>2, <3>1, QueueTail DEF DrawnComes
  <2>4. CASE DiskMounted
    BY <2>1, <2>4 DEF DrawnComes, DiskMounted, GetDiskNum
  <2>5. CASE DiskUnmounted
    <3>1. CASE disks = <<>>
      <4>1. page' = page /\ queue # <<>>
            /\ (page = "disk" => queue' = Append(Tail(queue), Switch("media")))
        BY <2>5, <3>1 DEF DiskUnmounted, GetDiskNum, MediaPages
      <4>2. Tail(queue) \in Seq(SystemMessage) /\ Switch("media").type = "page"
            /\ Switch("media").to # "disk"
        BY <2>1, <4>1, HeadTailProperties DEF Switch
      <4>3. page = "disk" => LeadsAway(queue')
        BY <4>1, <4>2, QueueAppend
      <4>4. QED
        BY <4>1, <4>3 DEF DrawnComes
    <3>2. CASE disks # <<>>
      BY <2>1, <2>5, <3>2 DEF DrawnComes, DiskUnmounted
    <3>3. QED
      BY <3>1, <3>2
  <2>6. CASE RefreshPages
    <3>1. page' = page /\ (queue' = queue \/ \E m : queue' = Append(queue, m))
          /\ screen.pc = "refresh" /\ drawn' = IF Len(disks) # 0 /\ page = "disk" THEN Len(disks) ELSE drawn
      BY <2>6 DEF RefreshPages, GetDiskNum
    <3>2. (\A t : Has(queue, t) => Has(queue', t)) /\ (LeadsAway(queue) => LeadsAway(queue'))
      BY <2>1, <3>1, QueueAppend
    <3>3. disks # <<>> => Len(disks) # 0
      BY DEF IInv, Types, ListTypes
    <3>4. QED
      BY <1>0, <2>1, <2>2, <3>1, <3>2, <3>3 DEF DrawnComes
  <2>7. CASE PressKey \/ SendSwitch \/ ChooseDisk \/ OpenDisk
    <3>1. UNCHANGED <<page, drawn>> /\ (queue' = queue \/ \E m : queue' = Append(queue, m))
          /\ screen.pc # "refresh"
      BY <2>7 DEF PressKey, SendSwitch, ChooseDisk, OpenDisk, shown
    <3>2. (\A t : Has(queue, t) => Has(queue', t)) /\ (LeadsAway(queue) => LeadsAway(queue'))
      BY <2>1, <3>1, QueueAppend
    <3>3. QED
      BY <1>0, <2>1, <2>2, <3>1, <3>2 DEF DrawnComes
  <2>8. QED
    BY <1>4, <2>3, <2>4, <2>5, <2>6, <2>7 DEF Screen
<1>5. QED
  BY <1>1, <1>2, <1>3, <1>4 DEF Next

LEMMA ScreenStep ==
    ASSUME IInv, IInv', ScreenInv, [Next]_vars
    PROVE  ScreenInv'
<1>1. ScreenTypes'
  BY ScreenTypesInv DEF ScreenInv
<1>2. ToldIsListed'
  BY ToldStep DEF ScreenInv
<1>3. QED
  BY <1>1, <1>2, IconComesStep, IconGoesStep, DrawnComesStep DEF ScreenInv

-----------------------------------------------------------------------------
(* The kernel's events.                                                    *)

\* Nothing is plugged out until healthd reads that a disk was removed.
LEMMA CleanStep ==
    ASSUME IInv, Clean, [Next]_vars, ~PlugOut
    PROVE  Clean'
<1>1. CASE Kernel \/ Screen \/ UNCHANGED vars
  BY <1>1 DEF Kernel, Screen, vars, lists, Clean, Leaving
<1>2. CASE Healthd
  <2>1. looper' = looper \/ looper'.pc = "take"
    BY <1>2 DEF Healthd, SignalMessage
  <2>2. looper'.pc # "delete" /\ ~Leaving'
    BY <2>1 DEF Clean, Leaving
  <2>3. CASE PutMessage
    <3> DEFINE new == [operate |-> healthd.operate, item |-> healthd.item]
    <3>1. messages' = Append(messages, new) /\ messages \in Seq(HotplugMessage)
          /\ new.operate = "plugin" /\ healthd'.pc = "signal"
      BY <2>3 DEF PutMessage, IInv, Types, ListTypes, Clean
    <3> HIDE DEF new
    <3>2. \A k \in DOMAIN messages' : messages'[k].operate = "plugin"
      BY <3>1, AppendFacts DEF Clean
    <3>3. QED
      BY <2>2, <3>1, <3>2 DEF Clean
  <2>4. CASE ~PutMessage
    <3>1. messages' = messages
          /\ (healthd' = healthd \/ (healthd'.pc = "put" => healthd'.operate = "plugin"))
      BY <1>2, <2>4 DEF Healthd, BootCheck, PlugIn, Mount, AddDiskInfo, SignalMessage, lists, Idle
    <3>2. QED
      BY <2>2, <3>1 DEF Clean
  <2>5. QED
    BY <2>3, <2>4
<1>3. CASE Looper
  <2>1. healthd' = healthd /\ alive
    BY <1>3 DEF Looper
  <2>2. CASE TakeMessage
    <3>1. CASE messages = <<>>
      BY <2>1, <2>2, <3>1 DEF TakeMessage, Clean, Leaving
    <3>2. CASE messages # <<>>
      <4> DEFINE h == Head(messages)
      <4>1. /\ messages' = Tail(messages) /\ messages \in Seq(HotplugMessage)
            /\ looper'.pc = (IF h.operate = "plugout" THEN "delete" ELSE "tell")
            /\ looper'.operate = h.operate
        BY <2>2, <3>2 DEF TakeMessage, IInv, Types, ListTypes
      <4>2. h = messages[1] /\ 1 \in DOMAIN messages
            /\ \A k \in DOMAIN messages' : k + 1 \in DOMAIN messages /\ messages'[k] = messages[k + 1]
        BY <3>2, <4>1, TailFacts
      <4> HIDE DEF h
      <4>3. h.operate = "plugin" /\ \A k \in DOMAIN messages' : messages'[k].operate = "plugin"
        BY <4>2 DEF Clean
      <4>4. QED
        BY <2>1, <4>1, <4>3 DEF Clean, Leaving
    <3>3. QED
      BY <3>1, <3>2
  <2>3. CASE TestList \/ Block \/ TellScreen
    <3>1. messages' = messages /\ (looper'.pc \in {"block", "take", "wait", "pop"})
      BY <2>3 DEF TestList, Block, TellScreen, lists, Clean, Leaving
    <3>2. QED
      BY <2>1, <3>1 DEF Clean, Leaving
  <2>4. CASE DelDiskInfo \/ UnMount
    BY <2>4 DEF DelDiskInfo, UnMount, Clean, Leaving
  <2>5. QED
    BY <1>3, <2>2, <2>3, <2>4 DEF Looper
<1>4. QED
  BY <1>1, <1>2, <1>3 DEF Next

\* Plug and Unplug put an event behind the others.
LEMMA KernelEvents ==
    ASSUME IInv, EventsInv, Kernel
    PROVE  AddedIsPlugged' /\ AddedOnce' /\ FoundComesFirst'
<1> DEFINE n == Len(uevents)
<1>0. UNCHANGED <<messages, healthd, looper, booted>> /\ uevents \in Seq(Uevent)
  BY DEF Kernel, lists, IInv, Types, KernelTypes
<1>1. PICK d \in Disk, o \in {"add", "remove"} :
          /\ uevents' = Append(uevents, Event(o, d))
          /\ o = "add" => d \notin plugged /\ plugged' = plugged \cup {d}
          /\ o = "remove" => plugged' = plugged \ {d}
  <2>1. PICK d \in Disk : Plug(d) \/ Unplug(d)
    BY DEF Kernel
  <2>2. CASE Plug(d)
    BY <2>2 DEF Plug
  <2>3. CASE Unplug(d)
    BY <2>3 DEF Unplug
  <2>4. QED
    BY <2>1, <2>2, <2>3
<1>2. /\ n \in Nat /\ DOMAIN uevents = 1 .. n /\ DOMAIN uevents' = 1 .. n + 1
      /\ uevents'[n + 1] = Event(o, d)
      /\ \A k \in DOMAIN uevents : k \in DOMAIN uevents' /\ uevents'[k] = uevents[k] /\ k < n + 1 /\ k \in Nat
      /\ \A k \in DOMAIN uevents' : k \in DOMAIN uevents \/ k = n + 1
  BY <1>0, <1>1, AppendFacts
<1>3. n + 1 \in DOMAIN uevents' /\ uevents'[n + 1].op = o /\ uevents'[n + 1].dev = d
  BY <1>2 DEF Event
<1>4. \A k, l \in DOMAIN uevents' : k < l => k \in DOMAIN uevents
  BY <1>2
<1>5. ASSUME NEW e PROVE Event("remove", e)' = Event("remove", e)
  BY DEF Event
<1> HIDE DEF n
<1>6. ASSUME NEW k \in DOMAIN uevents', uevents'[k].op # "remove", NEW e, e = uevents'[k].dev
      PROVE  \/ e \in plugged'
             \/ \E j \in DOMAIN uevents' : k < j /\ uevents'[j] = Event("remove", e)
  <2>1. CASE k = n + 1
    BY <1>1, <1>3, <1>6, <2>1
  <2>2. CASE k \in DOMAIN uevents
    <3>1. e \in plugged \/ \E j \in DOMAIN uevents : k < j /\ uevents[j] = Event("remove", e)
      BY <1>2, <1>6, <2>2 DEF EventsInv, AddedIsPlugged
    <3>2. CASE \E j \in DOMAIN uevents : k < j /\ uevents[j] = Event("remove", e)
      BY <1>2, <3>2
    <3>3. CASE e \in plugged
      BY <1>1, <1>2, <1>3, <2>2, <3>3
    <3>4. QED
      BY <3>1, <3>2, <3>3
  <2>3. QED
    BY <1>2, <2>1, <2>2
<1>7. AddedIsPlugged'
  BY <1>6 DEF AddedIsPlugged, Event
<1>8. ASSUME NEW j \in DOMAIN uevents', NEW k \in DOMAIN uevents', j < k,
             NEW e, e = uevents'[k].dev, uevents'[j].dev = e
      PROVE  \/ uevents'[k].op = "remove"
             \/ uevents'[j].op = "static" /\ uevents'[k].op = "add"
             \/ \E l \in DOMAIN uevents' :
                   j <= l /\ l < k /\ uevents'[l] = Event("remove", e)
  <2>1. j \in DOMAIN uevents /\ uevents'[j] = uevents[j]
    BY <1>2, <1>4, <1>8
  <2>2. CASE k \in DOMAIN uevents
    <3>1. \/ uevents[k].op = "remove"
          \/ uevents[j].op = "static" /\ uevents[k].op = "add"
          \/ \E l \in DOMAIN uevents : j <= l /\ l < k /\ uevents[l] = Event("remove", e)
      BY <1>2, <1>8, <2>1, <2>2 DEF EventsInv, AddedOnce
    <3>2. QED
      BY <1>2, <2>1, <2>2, <3>1
  <2>3. CASE k = n + 1 /\ o = "add"
    <3>1. e = d /\ d \notin plugged /\ uevents'[k].op = "add"
      BY <1>1, <1>3, <1>8, <2>3
    <3>2. uevents[j] \in Uevent
      BY <1>0, <2>1
    <3>3. CASE uevents[j].op = "static"
      BY <2>1, <3>1, <3>3
    <3>4. CASE uevents[j].op = "remove"
      <4>1. uevents[j] = Event("remove", e)
        BY <1>8, <2>1, <3>2, <3>4 DEF Uevent, Event
      <4>2. j <= j
        BY <1>2, <2>1
      <4>3. QED
        BY <1>8, <2>1, <4>1, <4>2
    <3>5. CASE uevents[j].op = "add"
      <4>1. PICK l \in DOMAIN uevents : j < l /\ uevents[l] = Event("remove", e)
        BY <1>8, <2>1, <3>1, <3>5 DEF EventsInv, AddedIsPlugged
      <4>2. l \in DOMAIN uevents' /\ j <= l /\ l < k /\ uevents'[l] = Event("remove", e)
        BY <1>2, <2>1, <2>3, <4>1
      <4>3. QED
        BY <4>2
    <3>6. QED
      BY <3>2, <3>3, <3>4, <3>5 DEF Uevent
  <2>4. CASE k = n + 1 /\ o = "remove"
    BY <1>3, <2>4
  <2>5. QED
    BY <1>2, <2>2, <2>3, <2>4
<1>9. AddedOnce'
  BY <1>8 DEF AddedOnce, Event
<1>10. Clean' <=> Clean
  BY <1>0 DEF Clean, Leaving
<1>11. FoundComesFirst'
  BY <1>0, <1>2, <1>3, <1>4, <1>10 DEF EventsInv, FoundComesFirst
<1>12. QED
  BY <1>7, <1>9, <1>11

\* healthd reads the first event.
LEMMA TailEvents ==
    ASSUME IInv, EventsInv, uevents # <<>>, uevents' = Tail(uevents),
           UNCHANGED <<plugged, booted>>, Clean => Clean' \/ Head(uevents).op = "remove"
    PROVE  AddedIsPlugged' /\ AddedOnce' /\ FoundComesFirst'
<1>1. uevents \in Seq(Uevent)
  BY DEF IInv, Types, KernelTypes
<1>2. /\ 1 \in DOMAIN uevents /\ uevents[1] = Head(uevents)
      /\ \A k \in DOMAIN uevents' :
            k \in Nat /\ k + 1 \in DOMAIN uevents /\ uevents'[k] = uevents[k + 1]
      /\ \A k \in DOMAIN uevents : k \in Nat /\ (k = 1 \/ 1 < k)
      /\ \A k \in DOMAIN uevents : 1 < k => k - 1 \in DOMAIN uevents' /\ uevents'[k - 1] = uevents[k]
  BY <1>1, TailFacts
<1>3. ASSUME NEW k \in DOMAIN uevents', uevents'[k].op # "remove", NEW e, e = uevents'[k].dev
      PROVE  \/ e \in plugged
             \/ \E j \in DOMAIN uevents' : k < j /\ uevents'[j] = Event("remove", e)
  <2>1. e \in plugged \/ \E j \in DOMAIN uevents : k + 1 < j /\ uevents[j] = Event("remove", e)
    BY <1>2, <1>3 DEF EventsInv, AddedIsPlugged
  <2>2. ASSUME NEW j \in DOMAIN uevents, k + 1 < j, uevents[j] = Event("remove", e)
        PROVE  j - 1 \in DOMAIN uevents' /\ k < j - 1 /\ uevents'[j - 1] = Event("remove", e)
    <3>1. k \in Nat /\ j \in Nat /\ 1 < j /\ k < j - 1
      BY <1>2, <2>2
    <3>2. QED
      BY <1>2, <2>2, <3>1
  <2>3. QED
    BY <2>1, <2>2
<1>4. AddedIsPlugged'
  BY <1>3 DEF AddedIsPlugged, Event
<1>5. ASSUME NEW j \in DOMAIN uevents', NEW k \in DOMAIN uevents', j < k,
             NEW e, e = uevents'[k].dev, uevents'[j].dev = e
      PROVE  \/ uevents'[k].op = "remove"
             \/ uevents'[j].op = "static" /\ uevents'[k].op = "add"
             \/ \E l \in DOMAIN uevents' :
                   j <= l /\ l < k /\ uevents'[l] = Event("remove", e)
  <2>1. j \in Nat /\ k \in Nat /\ j + 1 < k + 1
    BY <1>2, <1>5
  <2>2. \/ uevents[k + 1].op = "remove"
        \/ uevents[j + 1].op = "static" /\ uevents[k + 1].op = "add"
        \/ \E l \in DOMAIN uevents : j + 1 <= l /\ l < k + 1 /\ uevents[l] = Event("remove", e)
    BY <1>2, <1>5, <2>1 DEF EventsInv, AddedOnce
  <2>3. ASSUME NEW l \in DOMAIN uevents, j + 1 <= l, l < k + 1, uevents[l] = Event("remove", e)
        PROVE  l - 1 \in DOMAIN uevents' /\ j <= l - 1 /\ l - 1 < k /\ uevents'[l - 1] = Event("remove", e)
    <3>1. (l \in Nat /\ 1 < l) \/ l = 1
      BY <1>2, <2>3
    <3>2. l # 1
      <4>1. 1 \in Nat /\ 0 < j
        BY <1>1, <1>5, <1>2
      <4>2. QED
        BY <2>1, <2>3, <4>1
    <3>3. l \in Nat /\ 1 < l /\ j <= l - 1 /\ l - 1 < k
      BY <2>1, <2>3, <3>1, <3>2
    <3>4. QED
      BY <1>2, <2>3, <3>3
  <2>4. QED
    BY <1>2, <1>5, <2>2, <2>3
<1>6. AddedOnce'
  BY <1>5 DEF AddedOnce, Event
<1>7. FoundComesFirst'
  <2>1. ASSUME NEW k \in DOMAIN uevents', uevents'[k].op = "static"
        PROVE  booted /\ Clean' /\ \A j \in DOMAIN uevents' : j < k => uevents'[j].op = "static"
    <3>1. k + 1 \in DOMAIN uevents /\ uevents[k + 1].op = "static" /\ k \in Nat
      BY <1>2, <2>1
    <3>2. booted /\ Clean /\ \A j \in DOMAIN uevents : j < k + 1 => uevents[j].op = "static"
      BY <3>1 DEF EventsInv, FoundComesFirst
    <3>3. Head(uevents).op = "static"
      <4>1. 1 < k + 1
        <5>1. 0 < k
          BY <1>1, <1>2, <2>1
        <5>2. QED
          BY <3>1, <5>1
      <4>2. QED
        BY <1>2, <3>2, <4>1
    <3>4. Clean'
      BY <3>2, <3>3
    <3>5. \A j \in DOMAIN uevents' : j < k => uevents'[j].op = "static"
      <4>1. \A j \in DOMAIN uevents' : j < k => j + 1 < k + 1
        BY <1>2, <3>1
      <4>2. QED
        BY <1>2, <3>2, <4>1
    <3>6. QED
      BY <3>2, <3>4, <3>5
  <2>2. QED
    BY <2>1 DEF FoundComesFirst
<1>8. QED
  BY <1>4, <1>6, <1>7

\* The events of the disks found at start come before the others.
LEMMA BootEvents ==
    ASSUME IInv, EventsInv, BootCheck, looper' = looper
    PROVE  AddedIsPlugged' /\ AddedOnce' /\ FoundComesFirst'
<1> DEFINE c == Cardinality(plugged)
<1>0. /\ ~booted /\ booted' /\ UNCHANGED <<plugged, messages, healthd, looper>>
      /\ uevents \in Seq(Uevent) /\ plugged \in SUBSET Disk
  BY DEF BootCheck, lists, IInv, Types, KernelTypes
<1>1. PICK found \in SetToSeqs(plugged) :
         uevents' = [k \in DOMAIN found |-> Event("static", found[k])] \o uevents
  BY DEF BootCheck
<1> DEFINE st == [k \in DOMAIN found |-> Event("static", found[k])]
<1>2. c \in Nat /\ found \in [1 .. c -> plugged]
      /\ \A j, k \in 1 .. c : j # k => found[j] # found[k]
  BY <1>0, DiskAssumption, FS_Subset, FS_CardinalityType DEF SetToSeqs
<1>3. st \in Seq(Uevent) /\ Len(st) = c
      /\ \A k \in 1 .. c : st[k].op = "static" /\ st[k].dev = found[k] /\ found[k] \in plugged
  <2>1. st \in Seq(Uevent)
    BY <1>0, StaticEvents
  <2>2. DOMAIN st = 1 .. c
    BY <1>2
  <2>3. \A k \in 1 .. c : st[k].op = "static" /\ st[k].dev = found[k] /\ found[k] \in plugged
    BY <1>2 DEF Event
  <2> HIDE DEF st, c
  <2>4. QED
    BY <1>2, <2>1, <2>2, <2>3, LenProperties
<1> HIDE DEF c, st
<1>4. /\ DOMAIN uevents = 1 .. Len(uevents) /\ Len(uevents) \in Nat
      /\ DOMAIN uevents' = 1 .. c + Len(uevents)
      /\ \A k \in 1 .. c + Len(uevents) :
            uevents'[k] = IF k <= c THEN st[k] ELSE uevents[k - c]
  BY <1>0, <1>1, <1>2, <1>3, ConcatProperties DEF st
<1>5. \A k \in DOMAIN uevents' :
         \/ k \in 1 .. c /\ uevents'[k].op = "static" /\ uevents'[k].dev = found[k]
         \/ /\ k - c \in DOMAIN uevents /\ ~(k \in 1 .. c) /\ c < k
            /\ uevents'[k] = uevents[k - c]
  BY <1>2, <1>3, <1>4
<1>6. \A k \in DOMAIN uevents :
         k \in Nat /\ k + c \in DOMAIN uevents' /\ uevents'[k + c] = uevents[k]
  BY <1>2, <1>4
<1>7. \A k \in DOMAIN uevents : uevents[k].op \in {"add", "remove"}
  <2>1. \A k \in DOMAIN uevents : uevents[k].op \in {"add", "remove", "static"}
    <3>1. \A k \in DOMAIN uevents : uevents[k] \in Uevent
      BY <1>0, <1>4
    <3>2. QED
      BY <3>1 DEF Uevent
  <2>2. QED
    BY <1>0, <2>1 DEF EventsInv, FoundComesFirst
<1>8. ASSUME NEW k \in DOMAIN uevents', uevents'[k].op # "remove", NEW e, e = uevents'[k].dev
      PROVE  \/ e \in plugged
             \/ \E j \in DOMAIN uevents' : k < j /\ uevents'[j] = Event("remove", e)
  <2>1. CASE k \in 1 .. c
    BY <1>3, <1>5, <1>8, <2>1
  <2>2. CASE k \notin 1 .. c
    <3>1. k - c \in DOMAIN uevents /\ uevents'[k] = uevents[k - c]
      BY <1>5, <2>2
    <3>2. e \in plugged \/ \E j \in DOMAIN uevents : k - c < j /\ uevents[j] = Event("remove", e)
      BY <1>8, <3>1 DEF EventsInv, AddedIsPlugged
    <3>3. ASSUME NEW j \in DOMAIN uevents, k - c < j PROVE k < j + c
      BY <1>2, <1>4, <3>3
    <3>4. QED
      BY <1>6, <3>2, <3>3
  <2>3. QED
    BY <2>1, <2>2
<1>9. AddedIsPlugged'
  BY <1>0, <1>8 DEF AddedIsPlugged, Event
<1>10. ASSUME NEW j \in DOMAIN uevents', NEW k \in DOMAIN uevents', j < k,
              NEW e, e = uevents'[k].dev, uevents'[j].dev = e
       PROVE  \/ uevents'[k].op = "remove"
              \/ uevents'[j].op = "static" /\ uevents'[k].op = "add"
              \/ \E l \in DOMAIN uevents' :
                    j <= l /\ l < k /\ uevents'[l] = Event("remove", e)
  <2>1. j \in Nat /\ k \in Nat /\ j # k
    BY <1>2, <1>4, <1>10
  <2>2. CASE k \in 1 .. c
    <3>1. j \in 1 .. c
      BY <1>2, <1>4, <1>10, <2>1, <2>2
    <3>2. QED
      BY <1>2, <1>5, <1>10, <2>1, <2>2, <3>1
  <2>3. CASE k \notin 1 .. c /\ j \in 1 .. c
    BY <1>5, <1>7, <2>3
  <2>4. CASE k \notin 1 .. c /\ j \notin 1 .. c
    <3>1. /\ j - c \in DOMAIN uevents /\ uevents'[j] = uevents[j - c]
          /\ k - c \in DOMAIN uevents /\ uevents'[k] = uevents[k - c] /\ j - c < k - c
      BY <1>2, <1>5, <1>10, <2>1, <2>4
    <3>2. \/ uevents[k - c].op = "remove"
          \/ uevents[j - c].op = "static" /\ uevents[k - c].op = "add"
          \/ \E l \in DOMAIN uevents : j - c <= l /\ l < k - c /\ uevents[l] = Event("remove", e)
      BY <1>10, <3>1 DEF EventsInv, AddedOnce
    <3>3. ASSUME NEW l \in DOMAIN uevents, j - c <= l, l < k - c PROVE j <= l + c /\ l + c < k
      BY <1>2, <1>4, <2>1, <3>3
    <3>4. QED
      BY <1>6, <3>1, <3>2, <3>3
  <2>5. QED
    BY <2>2, <2>3, <2>4
<1>11. AddedOnce'
  BY <1>10 DEF AddedOnce, Event
<1>12. FoundComesFirst'
  <2>1. Clean'
    BY <1>0 DEF EventsInv, NothingBefore, Clean, Leaving
  <2>2. ASSUME NEW k \in DOMAIN uevents', uevents'[k].op = "static",
               NEW j \in DOMAIN uevents', j < k
        PROVE  uevents'[j].op = "static"
    <3>1. k \in 1 .. c
      BY <1>5, <1>7, <2>2
    <3>2. j \in 1 .. c
      BY <1>2, <1>4, <2>2, <3>1
    <3>3. QED
      BY <1>5, <3>2
  <2>3. QED
    BY <1>0, <2>1, <2>2 DEF FoundComesFirst
<1>13. QED
  BY <1>9, <1>11, <1>12

LEMMA EventsStep ==
    ASSUME IInv, EventsInv, [Next]_vars
    PROVE  EventsInv'
<1>1. AddedIsPlugged' /\ AddedOnce' /\ FoundComesFirst'
  <2>1. CASE Kernel
    BY <2>1, KernelEvents
  <2>2. CASE Healthd /\ BootCheck
    <3>1. looper' = looper
      BY <2>2 DEF Healthd, SignalMessage, BootCheck
    <3>2. QED
      BY <2>2, <3>1, BootEvents
  <2>3. CASE Healthd /\ PlugIn
    <3>1. uevents # <<>> /\ uevents' = Tail(uevents) /\ UNCHANGED <<plugged, booted>> /\ ~PlugOut
      BY <2>3 DEF PlugIn, PlugOut
    <3>2. QED
      BY <3>1, CleanStep, TailEvents
  <2>4. CASE Healthd /\ PlugOut
    <3>1. uevents # <<>> /\ uevents' = Tail(uevents) /\ UNCHANGED <<plugged, booted>>
          /\ Head(uevents).op = "remove"
      BY <2>4 DEF PlugOut
    <3>2. QED
      BY <3>1, TailEvents
  <2>5. CASE ~Kernel /\ ~BootCheck /\ ~PlugIn /\ ~PlugOut
    <3>1. UNCHANGED <<plugged, uevents, booted>>
      BY <2>5 DEF Next, Healthd, Looper, Screen, vars, kernel, Mount, AddDiskInfo, PutMessage,
             SignalMessage
    <3>2. Clean => Clean'
      BY <2>5, CleanStep
    <3>3. AddedIsPlugged' /\ AddedOnce'
      BY <3>1 DEF EventsInv, AddedIsPlugged, AddedOnce, Event
    <3>4. QED
      BY <3>1, <3>2, <3>3 DEF EventsInv, FoundComesFirst
  <2>6. CASE ~Healthd /\ (BootCheck \/ PlugIn \/ PlugOut)
    BY <2>1, <2>5, <2>6 DEF Next, Looper, Screen, vars, kernel, BootCheck, PlugIn, PlugOut
  <2>7. QED
    BY <2>1, <2>2, <2>3, <2>4, <2>5, <2>6
<1>2. NothingBefore'
  <2> SUFFICES ASSUME ~booted'
               PROVE  disks' = <<>> /\ messages' = <<>> /\ healthd'.pc = "idle" /\ Clean'
    BY DEF NothingBefore
  <2>1. ~booted /\ ~BootCheck
    BY DEF Next, Kernel, Healthd, Looper, Screen, vars, BootCheck, PlugIn, PlugOut, Mount,
           AddDiskInfo, PutMessage, SignalMessage
  <2>2. disks = <<>> /\ messages = <<>> /\ healthd.pc = "idle" /\ Clean
    BY <2>1 DEF EventsInv, NothingBefore
  <2>3. ~PlugOut /\ ~Healthd
    BY <2>1, <2>2 DEF Healthd, PlugIn, PlugOut, Mount, AddDiskInfo, PutMessage, SignalMessage
  <2>4. UNCHANGED <<disks, messages, healthd>>
    <3>1. CASE Looper
      BY <2>2, <3>1 DEF Looper, TestList, Block, TakeMessage, DelDiskInfo, TellScreen, UnMount,
             Clean, Leaving, lists
    <3>2. CASE ~Looper
      BY <2>3, <3>2 DEF Next, Kernel, Screen, vars, lists
    <3>3. QED
      BY <3>1, <3>2
  <2>5. QED
    BY <2>2, <2>3, <2>4, CleanStep
<1>3. QED
  BY <1>1, <1>2 DEF EventsInv

-----------------------------------------------------------------------------
(* A disk that is plugged out twice.                                       *)

LEMMA HandledStays ==
    ASSUME IInv, [Next]_vars, alive, NEW i, Handled(i)
    PROVE  Handled(i)'
<1>1. CASE Kernel \/ Healthd \/ Screen \/ UNCHANGED vars
  <2>1. freed' = freed
    BY <1>1 DEF Kernel, Healthd, Screen, vars, lists, BootCheck, PlugIn, PlugOut, Mount,
           AddDiskInfo, PutMessage, SignalMessage
  <2>2. looper' = looper \/ (looper.pc = "wait")
    BY <1>1 DEF Kernel, Healthd, Screen, vars, SignalMessage
  <2>3. QED
    BY <2>1, <2>2 DEF Handled, Leaving
<1>2. CASE Looper
  <2>1. CASE DelDiskInfo
    BY <2>1, DeleteList DEF Handled, Leaving, DelDiskInfo
  <2>2. CASE TellScreen
    <3>1. looper \in [pc : {"tell"}, operate : Operate, item : Item] /\ freed' = freed
      BY <2>2 DEF TellScreen, lists, IInv, Types, LooperTypes
    <3>2. looper.operate = "plugout" => looper'.pc = "unmount" /\ looper'.item = looper.item
      BY <2>2, <3>1 DEF TellScreen
    <3>3. QED
      BY <3>1, <3>2 DEF Handled, Leaving
  <2>3. CASE UnMount
    BY <2>3 DEF Handled, Leaving, UnMount
  <2>4. CASE TestList \/ Block \/ TakeMessage
    <3>1. freed' = freed /\ looper.pc \in {"pop", "block", "take"}
      BY <2>4 DEF TestList, Block, TakeMessage, lists
    <3>2. QED
      BY <3>1 DEF Handled, Leaving
  <2>5. QED
    BY <1>2, <2>1, <2>2, <2>3, <2>4 DEF Looper
<1>3. QED
  BY <1>1, <1>2 DEF Next

\* It is used freed in the end: until then the two messages are on their way.
LEMMA DoomedStays ==
    ASSUME IInv, [Next]_vars, alive, alive', Doomed
    PROVE  Doomed'
<1> DEFINE n == Len(messages)
<1>0. n \in Nat /\ DOMAIN messages = 1 .. n /\ messages \in Seq(HotplugMessage)
  BY DEF IInv, Types, ListTypes
<1>1. CASE Healthd /\ PutMessage
  <2> DEFINE new == [operate |-> healthd.operate, item |-> healthd.item]
  <2>1. healthd.pc = "put" /\ messages' = Append(messages, new) /\ freed' = freed /\ looper' = looper
        /\ new.operate = healthd.operate /\ new.item = healthd.item
    BY <1>1 DEF PutMessage, Healthd, SignalMessage
  <2> HIDE DEF new
  <2>2. /\ messages'[n + 1] = new /\ n + 1 \in DOMAIN messages'
        /\ \A k \in DOMAIN messages : k \in DOMAIN messages' /\ messages'[k] = messages[k]
    BY <1>0, <2>1, AppendFacts
  <2>3. \A i, k : Lost(i, k) => Lost(i, k)'
    BY <2>1, <2>2 DEF Lost, Handled, Leaving
  <2>4. CASE \E k \in DOMAIN messages :
                messages[k].operate = "plugout" /\ Lost(messages[k].item, k)
    <3>1. PICK k \in DOMAIN messages : messages[k].operate = "plugout" /\ Lost(messages[k].item, k)
      BY <2>4
    <3>2. ASSUME NEW i, i = messages[k].item PROVE Lost(i, k)'
      BY <2>3, <3>1, <3>2
    <3>3. k \in DOMAIN messages' /\ messages'[k].operate = "plugout" /\ messages'[k].item = messages[k].item
      BY <2>2, <3>1
    <3>4. QED
      BY <3>2, <3>3 DEF Doomed
  <2>5. CASE healthd.operate = "plugout" /\ Lost(healthd.item, n + 1)
    <3>1. ASSUME NEW i, i = healthd.item, NEW k, k = n + 1 PROVE Lost(i, k)'
      BY <2>3, <2>5, <3>1
    <3>2. ASSUME NEW i, i = healthd.item, NEW k, k = n + 1
          PROVE  k \in DOMAIN messages' /\ messages'[k].operate = "plugout" /\ messages'[k].item = i
      BY <2>1, <2>2, <2>5, <3>2
    <3>3. QED
      BY <3>1, <3>2 DEF Doomed
  <2>6. QED
    BY <2>1, <2>4, <2>5 DEF Doomed
<1>2. CASE Looper /\ TakeMessage
  <2> DEFINE h == Head(messages)
  <2>1. messages # <<>> /\ looper.pc = "take"
    BY <1>2 DEF TakeMessage
  <2>2. /\ messages' = Tail(messages) /\ healthd' = healthd
        /\ looper' = [pc |-> IF h.operate = "plugout" THEN "delete" ELSE "tell",
                      operate |-> h.operate, item |-> h.item]
        /\ alive' = ~(h.operate = "plugout" /\ h.item \in freed)
    BY <1>2, <2>1 DEF TakeMessage, Looper
  <2>3. /\ 1 \in DOMAIN messages /\ messages[1] = h
        /\ DOMAIN messages' = 1 .. n - 1 /\ Len(messages') = n - 1
        /\ \A k \in DOMAIN messages : k \in Nat /\ (k = 1 \/ 1 < k)
        /\ \A k \in DOMAIN messages : 1 < k => k - 1 \in DOMAIN messages' /\ messages'[k - 1] = messages[k]
    <3>1. Len(Tail(messages)) = n - 1
      BY <1>0, <2>1
    <3>2. QED
      BY <1>0, <2>1, <2>2, <3>1, TailFacts
  <2> HIDE DEF h
  <2>4. looper'.item = h.item /\ (h.operate = "plugout" => looper'.pc = "delete")
    BY <2>2
  <2>5. h.operate = "plugout" => h.item \notin freed
    BY <2>2
  <2>6. ASSUME NEW i, NEW k \in Nat, Lost(i, k), 1 < k
        PROVE  Lost(i, k - 1)'
    <3>1. CASE Handled(i)
      BY <3>1, HandledStays DEF Lost
    <3>2. CASE ~Handled(i)
      <4>1. PICK j \in DOMAIN messages : j < k /\ messages[j].operate = "plugout" /\ messages[j].item = i
        BY <2>6, <3>2 DEF Lost
      <4>2. CASE j = 1
        BY <2>3, <2>4, <4>1, <4>2 DEF Lost, Handled
      <4>3. CASE 1 < j
        <5>1. j - 1 \in DOMAIN messages' /\ messages'[j - 1] = messages[j] /\ j - 1 < k - 1
          BY <2>3, <4>1, <4>3
        <5>2. QED
          BY <4>1, <5>1 DEF Lost
      <4>4. QED
        BY <2>3, <4>2, <4>3
    <3>3. QED
      BY <3>1, <3>2
  <2>7. CASE \E k \in DOMAIN messages :
                messages[k].operate = "plugout" /\ Lost(messages[k].item, k)
    <3>1. PICK k \in DOMAIN messages : messages[k].operate = "plugout" /\ Lost(messages[k].item, k)
      BY <2>7
    <3>2. k # 1
      <4>1. SUFFICES ASSUME k = 1 PROVE FALSE
        OBVIOUS
      <4>2. Handled(messages[k].item)
        BY <1>0, <3>1, <4>1 DEF Lost
      <4>3. QED
        BY <2>1, <2>3, <2>5, <3>1, <4>1, <4>2 DEF Handled, Leaving
    <3>3. k \in Nat /\ 1 < k
      BY <2>3, <3>2
    <3>4. ASSUME NEW l, l = k - 1, NEW i, i = messages[k].item
          PROVE  /\ l \in DOMAIN messages' /\ messages'[l].operate = "plugout" /\ messages'[l].item = i
                 /\ Lost(i, l)'
      BY <2>3, <2>6, <3>1, <3>3, <3>4
    <3>5. QED
      BY <3>4 DEF Doomed
  <2>8. CASE healthd.pc = "put" /\ healthd.operate = "plugout" /\ Lost(healthd.item, n + 1)
    <3>1. 1 < n + 1 /\ n + 1 \in Nat /\ (n + 1) - 1 = n
      BY <1>0, <2>3
    <3>2. ASSUME NEW i, i = healthd.item, NEW l, l = n
          PROVE  Lost(i, l)'
      <4>1. ASSUME NEW k \in Nat, k = n + 1, k - 1 = l
            PROVE  Lost(i, k - 1)'
        <5>1. Lost(i, k) /\ 1 < k
          BY <2>8, <3>1, <3>2, <4>1
        <5>2. QED
          BY <2>6, <5>1
      <4>2. QED
        BY <3>1, <3>2, <4>1
    <3>3. ASSUME NEW l, l = Len(messages') + 1 PROVE l = n
      BY <1>0, <2>3, <3>3
    <3>4. QED
      BY <2>2, <2>8, <3>2, <3>3 DEF Doomed
  <2>9. QED
    BY <2>7, <2>8 DEF Doomed
<1>3. CASE \/ Kernel \/ Screen \/ UNCHANGED vars
           \/ (Healthd /\ ~PutMessage) \/ (Looper /\ ~TakeMessage)
  <2>1. messages' = messages /\ (healthd.pc = "put" => healthd' = healthd)
    BY <1>3 DEF Kernel, Healthd, Looper, Screen, vars, lists, BootCheck, PlugIn, PlugOut,
           Mount, AddDiskInfo, SignalMessage, TestList, Block, DelDiskInfo, TellScreen, UnMount
  <2>2. \A i : Handled(i) => Handled(i)'
    BY HandledStays
  <2>3. \A i, k : Lost(i, k) => Lost(i, k)'
    BY <2>1, <2>2 DEF Lost
  <2>4. CASE \E k \in DOMAIN messages :
                messages[k].operate = "plugout" /\ Lost(messages[k].item, k)
    <3>1. PICK k \in DOMAIN messages : messages[k].operate = "plugout" /\ Lost(messages[k].item, k)
      BY <2>4
    <3>2. ASSUME NEW i, i = messages[k].item PROVE Lost(i, k)'
      BY <2>3, <3>1, <3>2
    <3>3. QED
      BY <2>1, <3>1, <3>2 DEF Doomed
  <2>5. CASE healthd.pc = "put" /\ healthd.operate = "plugout" /\ Lost(healthd.item, n + 1)
    <3>1. ASSUME NEW i, i = healthd.item, NEW l, l = n + 1 PROVE Lost(i, l)'
      BY <2>3, <2>5, <3>1
    <3>2. QED
      BY <2>1, <2>5, <3>1 DEF Doomed
  <2>6. QED
    BY <2>4, <2>5 DEF Doomed
<1>4. QED
  BY <1>1, <1>2, <1>3 DEF Next

-----------------------------------------------------------------------------
(* The disks that stay in the list.                                        *)

LEMMA ItemsStay ==
    ASSUME IInv, [Next]_vars, NEW i \in Item
    PROVE  items'[i] = items[i]
<1>1. CASE items' # items
  <2>1. \E e : items' = Append(items, e)
    BY <1>1 DEF Next, Kernel, Healthd, Looper, Screen, vars, lists, BootCheck, PlugIn, PlugOut,
           Mount, AddDiskInfo, PutMessage, SignalMessage, TestList, Block, TakeMessage,
           DelDiskInfo, TellScreen, UnMount
  <2>2. QED
    BY <2>1, AppendFacts DEF IInv, Types, ListTypes, Item
<1>2. QED
  BY <1>1

\* Only AddDiskInfo puts a disk into the list; an announcement is lost only when
\* the disk is taken out.
LEMMA StayingStep ==
    ASSUME IInv, [Next]_vars, alive, NEW i, Staying(i)'
    PROVE  \/ Staying(i) /\ InList(i)'
           \/ Healthd /\ AddDiskInfo /\ i = Len(items)
<1>0. InList(i)' /\ ~Announced(i)'
  BY DEF Staying
<1>1. CASE Healthd /\ AddDiskInfo
  <2>1. messages' = messages /\ looper' = looper /\ healthd.pc = "list" /\ disks' = Append(disks, Len(items))
    BY <1>1 DEF AddDiskInfo, Healthd, SignalMessage
  <2>2. InList(i) \/ i = Len(items)
    BY <1>0, <2>1, AppendFacts DEF InList, IInv, Types, ListTypes
  <2>3. ~Announced(i)
    BY <1>0, <2>1 DEF Announced
  <2>4. QED
    BY <1>0, <1>1, <2>2, <2>3 DEF Staying
<1>2. CASE Healthd /\ PutMessage
  <2> DEFINE new == [operate |-> healthd.operate, item |-> healthd.item]
             n == Len(messages)
  <2>1. healthd.pc = "put" /\ messages' = Append(messages, new) /\ looper' = looper /\ disks' = disks
        /\ new.operate = healthd.operate /\ new.item = healthd.item
        /\ messages \in Seq(HotplugMessage)
    BY <1>2 DEF PutMessage, Healthd, SignalMessage, IInv, Types, ListTypes
  <2> HIDE DEF new
  <2>2. /\ messages'[n + 1] = new /\ n + 1 \in DOMAIN messages'
        /\ \A k \in DOMAIN messages : k \in DOMAIN messages' /\ messages'[k] = messages[k]
    BY <2>1, AppendFacts
  <2>3. ~Announced(i)
    BY <1>0, <2>1, <2>2 DEF Announced
  <2>4. QED
    BY <1>0, <2>1, <2>3 DEF Staying, InList
<1>3. CASE Looper /\ TakeMessage
  <2>0. disks' = disks /\ healthd' = healthd /\ looper.pc = "take"
    BY <1>3 DEF TakeMessage, Looper
  <2>1. CASE messages = <<>>
    BY <1>0, <1>3, <2>0, <2>1 DEF TakeMessage, Staying, InList, Announced
  <2>2. CASE messages # <<>>
    <3> DEFINE h == Head(messages)
    <3>1. /\ messages' = Tail(messages) /\ messages \in Seq(HotplugMessage)
          /\ looper' = [pc |-> IF h.operate = "plugout" THEN "delete" ELSE "tell",
                        operate |-> h.operate, item |-> h.item]
      BY <1>3, <2>2 DEF TakeMessage, IInv, Types, ListTypes
    <3>2. /\ 1 \in DOMAIN messages /\ messages[1] = h
          /\ \A k \in DOMAIN messages : k \in Nat /\ (k = 1 \/ 1 < k)
          /\ \A k \in DOMAIN messages : 1 < k => k - 1 \in DOMAIN messages' /\ messages'[k - 1] = messages[k]
      BY <2>2, <3>1, TailFacts
    <3> HIDE DEF h
    <3>3. h.operate = "plugout" => looper'.pc = "delete" /\ looper'.item = h.item
      BY <3>1
    <3>4. ~Announced(i)
      BY <1>0, <2>0, <3>2, <3>3 DEF Announced
    <3>5. QED
      BY <1>0, <2>0, <3>4 DEF Staying, InList
  <2>3. QED
    BY <2>1, <2>2
<1>4. CASE Looper /\ DelDiskInfo
  <2>1. InList(i) /\ i # looper.item
    BY <1>0, <1>4, DeleteList
  <2>2. messages' = messages /\ healthd' = healthd
    BY <1>4 DEF DelDiskInfo, Looper
  <2>3. QED
    BY <1>0, <2>1, <2>2 DEF Staying, Announced
<1>5. CASE \/ Kernel \/ Screen \/ UNCHANGED vars
           \/ Healthd /\ ~AddDiskInfo /\ ~PutMessage
           \/ Looper /\ ~TakeMessage /\ ~DelDiskInfo
  <2>1. /\ messages' = messages /\ disks' = disks
        /\ healthd.pc = "put" => healthd' = healthd
        /\ looper.pc = "delete" => looper' = looper
    <3>1. CASE Kernel \/ Screen \/ UNCHANGED vars
      BY <3>1 DEF Kernel, Screen, vars, lists
    <3>2. CASE Healthd /\ ~AddDiskInfo /\ ~PutMessage
      BY <3>2 DEF Healthd, lists, BootCheck, PlugIn, PlugOut, Mount, SignalMessage
    <3>3. CASE Looper /\ ~TakeMessage /\ ~DelDiskInfo
      BY <3>3 DEF Looper, lists, TestList, Block, TellScreen, UnMount
    <3>4. QED
      BY <1>5, <3>1, <3>2, <3>3
  <2>2. QED
    BY <1>0, <2>1 DEF Staying, Announced, InList
<1>6. QED
  BY <1>1, <1>2, <1>3, <1>4, <1>5 DEF Next

\* healthd begins to mount a disk when it is added and its name is not mounted.
LEMMA HeldStep ==
    ASSUME IInv, IInv', [Next]_vars, NEW d, Held(d)'
    PROVE  \/ Held(d)
           \/ Healthd /\ PlugIn /\ Head(uevents).dev = d /\ ~IsMounted(d)
<1>1. CASE Healthd
  <2>1. CASE PlugIn
    BY <1>1, <2>1 DEF PlugIn, Held, Idle
  <2>2. CASE Mount
    <3>1. healthd.pc = "mount"
      BY <2>2 DEF Mount
    <3>2. CASE healthd' = Idle
      BY <3>2 DEF Held, Idle
    <3>3. CASE items' = Append(items, [dev |-> healthd.dev, point |-> healthd.point])
               /\ healthd' = [pc |-> "list"]
      <4> DEFINE e == [dev |-> healthd.dev, point |-> healthd.point]
      <4>1. e.dev = healthd.dev /\ items \in Seq(DiskInfo) /\ e \in DiskInfo
        BY <3>1, HealthdCases DEF IInv, Types, ListTypes, DiskInfo
      <4> HIDE DEF e
      <4>2. Len(items') = Len(items) + 1 /\ items'[Len(items) + 1] = e
        BY <3>3, <4>1, AppendFacts DEF e
      <4>3. QED
        BY <3>1, <3>3, <4>1, <4>2 DEF Held
    <3>4. QED
      BY <2>2, <3>2, <3>3 DEF Mount
  <2>3. CASE ~PlugIn /\ ~Mount
    BY <1>1, <2>3 DEF Healthd, Held, BootCheck, PlugOut, AddDiskInfo, PutMessage, SignalMessage,
           lists, Idle
  <2>4. QED
    BY <2>1, <2>2, <2>3
<1>2. CASE ~Healthd
  <2>1. healthd' = healthd /\ items' = items
    BY <1>2 DEF Next, Kernel, Looper, Screen, vars, lists, TestList, Block, TakeMessage,
           DelDiskInfo, TellScreen, UnMount
  <2>2. QED
    BY <2>1 DEF Held
<1>3. QED
  BY <1>1, <1>2

\* A disk that is plugged in stays so until its removal is read.
LEMMA RemovalStep ==
    ASSUME IInv, [Next]_vars, NEW d \in Disk, d \in plugged \/ Removal(d),
           ~(Healthd /\ PlugOut /\ Head(uevents).dev = d)
    PROVE  d \in plugged' \/ Removal(d)'
<1>0. uevents \in Seq(Uevent)
  BY DEF IInv, Types, KernelTypes
<1>1. CASE Kernel
  <2>1. PICK e \in Disk : Plug(e) \/ Unplug(e)
    BY <1>1 DEF Kernel
  <2>2. PICK v : uevents' = Append(uevents, v) /\ (d \in plugged /\ d \notin plugged' => v = Event("remove", d))
    BY <2>1 DEF Plug, Unplug
  <2>3. /\ \A k \in DOMAIN uevents : k \in DOMAIN uevents' /\ uevents'[k] = uevents[k]
        /\ uevents'[Len(uevents) + 1] = v /\ Len(uevents) + 1 \in DOMAIN uevents'
    BY <1>0, <2>2, AppendFacts
  <2>4. QED
    BY <2>2, <2>3 DEF Removal, Event
<1>2. CASE Healthd /\ BootCheck
  <2>1. PICK found \in SetToSeqs(plugged) :
           uevents' = [k \in DOMAIN found |-> Event("static", found[k])] \o uevents
    BY <1>2 DEF BootCheck
  <2> DEFINE st == [k \in DOMAIN found |-> Event("static", found[k])]
  <2>2. st \in Seq(Uevent) /\ plugged' = plugged
    BY <1>2, StaticEvents DEF BootCheck, IInv, Types, KernelTypes
  <2> HIDE DEF st
  <2>3. \A k \in DOMAIN uevents : k + Len(st) \in DOMAIN uevents' /\ uevents'[k + Len(st)] = uevents[k]
    <3>1. uevents' = st \o uevents
      BY <2>1 DEF st
    <3>2. /\ Len(uevents') = Len(st) + Len(uevents) /\ DOMAIN uevents' = 1 .. Len(st) + Len(uevents)
          /\ \A k \in 1 .. Len(st) + Len(uevents) :
                uevents'[k] = IF k <= Len(st) THEN st[k] ELSE uevents[k - Len(st)]
      BY <1>0, <2>2, <3>1, ConcatProperties
    <3>3. QED
      BY <1>0, <2>2, <3>2
  <2>4. QED
    BY <2>2, <2>3 DEF Removal, Event
<1>3. CASE Healthd /\ (PlugIn \/ PlugOut)
  <2>1. uevents # <<>> /\ uevents' = Tail(uevents) /\ plugged' = plugged
        /\ (Head(uevents).op # "remove" \/ Head(uevents).dev # d)
    BY <1>3 DEF PlugIn, PlugOut
  <2>2. /\ uevents[1] = Head(uevents)
        /\ \A k \in DOMAIN uevents : k \in Nat /\ (k = 1 \/ 1 < k)
        /\ \A k \in DOMAIN uevents : 1 < k => k - 1 \in DOMAIN uevents' /\ uevents'[k - 1] = uevents[k]
    BY <1>0, <2>1, TailFacts
  <2>3. Event("remove", d).op = "remove" /\ Event("remove", d).dev = d
    BY DEF Event
  <2>4. Head(uevents) # Event("remove", d)
    BY <2>1, <2>3
  <2>5. Removal(d) => Removal(d)'
    BY <2>2, <2>4 DEF Removal, Event
  <2>6. QED
    BY <2>1, <2>5
<1>4. CASE \/ Looper \/ Screen \/ UNCHANGED vars
           \/ Healthd /\ ~BootCheck /\ ~PlugIn /\ ~PlugOut
  <2>1. UNCHANGED <<plugged, uevents>>
    BY <1>4 DEF Looper, Screen, vars, kernel, Healthd, Mount, AddDiskInfo, PutMessage, SignalMessage
  <2>2. QED
    BY <2>1 DEF Removal, Event
<1>5. QED
  BY <1>1, <1>2, <1>3, <1>4 DEF Next

\* The kernel says that a disk is there only after its removal; what is read of a
\* disk was its next event.
LEMMA ReturnsStep ==
    ASSUME IInv, [Next]_vars, NEW d \in Disk, d \in plugged \/ Removal(d), Returns(d)',
           ~(Healthd /\ BootCheck), ~(Healthd /\ PlugOut /\ Head(uevents).dev = d)
    PROVE  Returns(d)
<1>0. uevents \in Seq(Uevent)
  BY DEF IInv, Types, KernelTypes
<1>1. PICK k \in DOMAIN uevents' :
          /\ uevents'[k].dev = d /\ uevents'[k].op # "remove"
          /\ \A j \in DOMAIN uevents' : j < k => uevents'[j].dev # d
  BY DEF Returns
<1>2. CASE Kernel
  <2>1. PICK e \in Disk, o \in {"add", "remove"} :
           uevents' = Append(uevents, Event(o, e)) /\ (o = "add" => e \notin plugged)
    BY <1>2 DEF Kernel, Plug, Unplug
  <2>2. /\ \A l \in DOMAIN uevents : l \in DOMAIN uevents' /\ uevents'[l] = uevents[l] /\ l < Len(uevents) + 1
        /\ uevents'[Len(uevents) + 1] = Event(o, e)
        /\ \A l \in DOMAIN uevents' : l \in DOMAIN uevents \/ l = Len(uevents) + 1
    BY <1>0, <2>1, AppendFacts
  <2>3. CASE k \in DOMAIN uevents
    BY <1>1, <2>2, <2>3 DEF Returns
  <2>4. CASE k = Len(uevents) + 1
    <3>1. d = e /\ o = "add"
      BY <1>1, <2>2, <2>4 DEF Event
    <3>2. PICK l \in DOMAIN uevents : uevents[l] = Event("remove", d)
      BY <2>1, <3>1 DEF Removal
    <3>3. uevents'[l].dev = d /\ l \in DOMAIN uevents' /\ l < k
      BY <2>2, <2>4, <3>2 DEF Event
    <3>4. QED
      BY <1>1, <3>3
  <2>5. QED
    BY <2>2, <2>3, <2>4
<1>3. CASE Healthd /\ (PlugIn \/ PlugOut)
  <2>1. uevents # <<>> /\ uevents' = Tail(uevents)
        /\ (Head(uevents).op # "remove" \/ Head(uevents).dev # d)
    BY <1>3 DEF PlugIn, PlugOut
  <2>2. /\ 1 \in DOMAIN uevents /\ uevents[1] = Head(uevents)
        /\ k \in Nat /\ k + 1 \in DOMAIN uevents /\ uevents'[k] = uevents[k + 1]
        /\ \A l \in DOMAIN uevents : l \in Nat /\ (l = 1 \/ 1 < l)
        /\ \A l \in DOMAIN uevents : 1 < l => l - 1 \in DOMAIN uevents' /\ uevents'[l - 1] = uevents[l]
    BY <1>0, <1>1, <2>1, TailFacts
  <2>3. CASE Head(uevents).dev = d
    <3>1. uevents[1].dev = d /\ uevents[1].op # "remove" /\ \A j \in DOMAIN uevents : ~(j < 1)
      BY <2>1, <2>2, <2>3
    <3>2. QED
      BY <2>2, <3>1 DEF Returns
  <2>4. CASE Head(uevents).dev # d
    <3>1. ASSUME NEW j \in DOMAIN uevents, j < k + 1 PROVE uevents[j].dev # d
      <4>1. CASE j = 1
        BY <2>2, <2>4, <4>1
      <4>2. CASE 1 < j
        <5>1. j - 1 \in DOMAIN uevents' /\ j - 1 < k /\ uevents'[j - 1] = uevents[j]
          BY <2>2, <3>1, <4>2
        <5>2. QED
          BY <1>1, <5>1
      <4>3. QED
        BY <2>2, <4>1, <4>2
    <3>2. QED
      BY <1>1, <2>2, <3>1 DEF Returns
  <2>5. QED
    BY <2>3, <2>4
<1>4. CASE \/ Looper \/ Screen \/ UNCHANGED vars
           \/ Healthd /\ ~BootCheck /\ ~PlugIn /\ ~PlugOut
  <2>1. uevents' = uevents
    BY <1>4 DEF Looper, Screen, vars, kernel, Healthd, Mount, AddDiskInfo, PutMessage, SignalMessage
  <2>2. QED
    BY <2>1 DEF Returns
<1>5. QED
  BY <1>2, <1>3, <1>4 DEF Next

\* What is mounted for a disk stays while it is in the list: the unmount of
\* another disk takes the last mount at another point.
LEMMA OwnStep ==
    ASSUME IInv, [Next]_vars, alive, NEW i \in Item, Own(i),
           (InList(i) /\ InList(i)') \/ (healthd.pc = "list" /\ i = Len(items))
    PROVE  Own(i)'
<1>0. items'[i] = items[i] /\ mounts \in Seq(DiskInfo)
  BY ItemsStay DEF IInv, Types, KernelTypes
<1>1. PICK k \in DOMAIN mounts : mounts[k] = items[i]
  BY DEF Own
<1>2. Leaving => items[looper.item].point # items[i].point
  BY DEF Own
<1>3. CASE Healthd /\ Mount /\ mounts' # mounts
  <2>1. PICK e : mounts' = Append(mounts, e)
    BY <1>3 DEF Mount
  <2>2. k \in DOMAIN mounts' /\ mounts'[k] = mounts[k]
    BY <1>0, <2>1, AppendFacts
  <2>3. looper' = looper
    BY <1>3 DEF Healthd, Mount, SignalMessage
  <2>4. Leaving => items'[looper.item] = items[looper.item]
    BY ItemsStay, LooperCases DEF Leaving, IInv, Types
  <2>5. QED
    BY <1>0, <1>1, <1>2, <2>2, <2>3, <2>4 DEF Own, Leaving
<1>4. CASE Looper /\ UnMount
  <2> DEFINE at == MountsAt(items[looper.item].point)
             last == CHOOSE l \in at : \A j \in at : j <= l
  <2>1. Leaving /\ ~Leaving'
    BY <1>4 DEF UnMount, Leaving
  <2>2. CASE mounts' = mounts
    BY <1>0, <1>1, <2>1, <2>2 DEF Own
  <2>3. CASE at # {} /\ mounts' = RemoveAt(mounts, last)
    <3>1. at \in SUBSET (1 .. Len(mounts)) /\ Len(mounts) \in Nat /\ DOMAIN mounts = 1 .. Len(mounts)
      BY <1>0 DEF MountsAt
    <3>2. \E l \in at : \A j \in at : j <= l
      BY <2>3, <3>1, Greatest
    <3>3. last \in at
      BY <3>2
    <3>4. last \in 1 .. Len(mounts) /\ mounts[last].point = items[looper.item].point
      BY <3>1, <3>3 DEF MountsAt
    <3>5. last # k
      BY <1>1, <1>2, <2>1, <3>4
    <3> HIDE DEF last, at
    <3>6. /\ mounts' \in Seq(DiskInfo) /\ Len(mounts') = Len(mounts) - 1
          /\ \A l \in 1 .. Len(mounts) - 1 :
                mounts'[l] = IF l < last THEN mounts[l] ELSE mounts[l + 1]
      BY <1>0, <2>3, <3>4, RemoveAtProperties
    <3>7. CASE k < last
      <4>1. k \in DOMAIN mounts' /\ mounts'[k] = mounts[k]
        BY <3>1, <3>4, <3>6, <3>7
      <4>2. QED
        BY <1>0, <1>1, <2>1, <4>1 DEF Own
    <3>8. CASE last < k
      <4>1. k - 1 \in 1 .. Len(mounts) - 1 /\ ~(k - 1 < last) /\ (k - 1) + 1 = k
        BY <3>1, <3>4, <3>8
      <4>2. k - 1 \in DOMAIN mounts' /\ mounts'[k - 1] = mounts[k]
        BY <3>6, <4>1
      <4>3. QED
        BY <1>0, <1>1, <2>1, <4>2 DEF Own
    <3>9. QED
      BY <3>1, <3>4, <3>5, <3>7, <3>8
  <2>4. QED
    BY <1>4, <2>2, <2>3 DEF UnMount
<1>5. CASE Looper /\ DelDiskInfo
  <2>1. mounts' = mounts /\ items' = items /\ looper.pc = "delete" /\ looper'.item = looper.item
    BY <1>5, DeleteList DEF DelDiskInfo
  <2>2. PICK l \in DOMAIN disks : disks[l] = looper.item
    BY <2>1 DEF IInv, MountInv, LeavingIsOut, InList
  <2>3. items[looper.item].point # items[i].point
    <3>1. CASE InList(i) /\ InList(i)'
      <4>1. PICK j \in DOMAIN disks : disks[j] = i
        BY <3>1 DEF InList
      <4>2. i # looper.item
        BY <1>5, <3>1, DeleteList
      <4>3. QED
        BY <2>2, <4>1, <4>2 DEF IInv, MountInv, PointsApart
    <3>2. CASE healthd.pc = "list" /\ i = Len(items)
      BY <2>2, <3>2 DEF IInv, MountInv, ListingApart
    <3>3. QED
      BY <3>1, <3>2
  <2>4. QED
    BY <1>1, <2>1, <2>3 DEF Own
<1>6. CASE \/ Kernel \/ Screen \/ UNCHANGED vars
           \/ Healthd /\ mounts' = mounts
           \/ Looper /\ ~UnMount /\ ~DelDiskInfo
  <2>1. mounts' = mounts
    BY <1>6 DEF Kernel, Plug, Unplug, Screen, vars, kernel, Looper, TestList, Block, TakeMessage,
           TellScreen
  <2>2. Leaving' => Leaving /\ looper'.item = looper.item
    <3>1. CASE Kernel \/ Screen \/ UNCHANGED vars \/ Healthd
      <4>1. looper' = looper \/ looper' = [pc |-> "take"]
        BY <3>1 DEF Kernel, Screen, vars, Healthd, SignalMessage
      <4>2. QED
        BY <4>1 DEF Leaving
    <3>2. CASE Looper /\ (TestList \/ Block \/ TakeMessage)
      <4>1. CASE looper' = looper
        BY <4>1 DEF Leaving
      <4>2. CASE looper' # looper
        <5>1. CASE TestList \/ Block
          <6>1. \E p \in {"block", "take", "wait"} : looper' = [pc |-> p]
            <7>1. CASE TestList /\ messages = <<>>
              BY <7>1 DEF TestList
            <7>2. CASE TestList /\ messages # <<>>
              BY <7>2 DEF TestList
            <7>3. CASE Block
              BY <7>3 DEF Block
            <7>4. QED
              BY <5>1, <7>1, <7>2, <7>3
          <6>2. QED
            BY <6>1 DEF Leaving
        <5>2. CASE TakeMessage
          <6> DEFINE h == Head(messages)
          <6>1. looper' = [pc |-> IF h.operate = "plugout" THEN "delete" ELSE "tell",
                           operate |-> h.operate, item |-> h.item]
            BY <4>2, <5>2 DEF TakeMessage
          <6> HIDE DEF h
          <6>2. looper'.pc # "unmount" /\ ~(looper'.pc = "tell" /\ looper'.operate = "plugout")
            BY <6>1
          <6>3. QED
            BY <6>2 DEF Leaving
        <5>3. QED
          BY <3>2, <5>1, <5>2
      <4>3. QED
        BY <4>1, <4>2
    <3>3. CASE Looper /\ TellScreen
      <4>1. looper \in [pc : {"tell"}, operate : Operate, item : Item]
        BY <3>3 DEF TellScreen, IInv, Types, LooperTypes
      <4>2. QED
        BY <3>3, <4>1 DEF TellScreen, Leaving
    <3>4. QED
      BY <1>6, <3>1, <3>2, <3>3 DEF Looper
  <2>3. items' = items
    <3>1. CASE Healthd /\ mounts' = mounts /\ Mount
      <4>1. CASE items' = items
        BY <4>1
      <4>2. CASE mounts' = Append(mounts, [dev |-> healthd.dev, point |-> healthd.point])
        <5>1. Len(mounts') = Len(mounts) + 1 /\ Len(mounts) \in Nat
          BY <1>0, <4>2
        <5>2. QED
          BY <3>1, <5>1
      <4>3. QED
        BY <3>1, <4>1, <4>2 DEF Mount
    <3>2. CASE ~Mount \/ ~Healthd
      BY <1>6, <3>2 DEF Kernel, Screen, vars, lists, Looper, TestList, Block, TakeMessage,
             TellScreen, Healthd, BootCheck, PlugIn, PlugOut, AddDiskInfo, PutMessage, SignalMessage
    <3>3. QED
      BY <1>6, <2>1, <3>1, <3>2
  <2>4. QED
    BY <1>1, <1>2, <2>1, <2>2, <2>3 DEF Own
<1>7. CASE Healthd /\ mounts' # mounts
  BY <1>3, <1>7 DEF Healthd, kernel, BootCheck, PlugIn, PlugOut, AddDiskInfo, PutMessage,
         SignalMessage
<1>8. QED
  BY <1>3, <1>4, <1>5, <1>6, <1>7 DEF Next

\* When healthd reads that a disk was removed, the one of that name that stays is
\* announced; if it had been announced, it is plugged out twice.
LEMMA PlugOutAnnounces ==
    ASSUME IInv, StayingAlone, Healthd, PlugOut, alive, ~Doomed', NEW i, Staying(i),
           items[i].dev = Head(uevents).dev
    PROVE  ~Staying(i)'
<1> DEFINE found == Listed(Head(uevents).dev)
           first == CHOOSE k \in found : \A j \in found : k <= j
           x == disks[first]
<1>1. PICK k \in DOMAIN disks : disks[k] = i
  BY DEF Staying, InList
<1>2. k \in found
  BY <1>1 DEF Listed
<1>3. first \in found
  BY <1>2, FirstListed DEF IInv, Types, Listed
<1>4. x \in Item /\ i \in Item /\ InList(x) /\ items[x].dev = items[i].dev
  <2>1. first \in DOMAIN disks /\ items[disks[first]].dev = Head(uevents).dev
    BY <1>3 DEF Listed
  <2> HIDE DEF first
  <2>2. disks[first] \in Item /\ i \in Item
    BY <1>1, <2>1 DEF IInv, Types, ListTypes
  <2>3. QED
    BY <2>1, <2>2 DEF InList
<1>5. healthd.pc = "idle" /\ healthd' = [pc |-> "put", operate |-> "plugout", item |-> x]
      /\ UNCHANGED <<messages, freed, looper>>
  BY <1>2 DEF PlugOut, Healthd, SignalMessage, lists
<1> HIDE DEF x, first, found
<1>6. healthd'.pc = "put" /\ healthd'.operate = "plugout" /\ healthd'.item = x
  BY <1>5
<1>7. CASE x = i
  BY <1>6, <1>7 DEF Staying, Announced
<1>8. CASE Staying(x)
  BY <1>4, <1>7, <1>8 DEF StayingAlone
<1>9. CASE Announced(x)
  <2>1. CASE looper.pc = "delete" /\ looper.item = x
    <3>1. ASSUME NEW l, NEW y, y = x PROVE Lost(y, l)'
      BY <1>5, <2>1, <3>1 DEF Lost, Handled, Leaving
    <3>2. QED
      BY <1>6, <3>1 DEF Doomed
  <2>2. CASE \E l \in DOMAIN messages : messages[l].operate = "plugout" /\ messages[l].item = x
    <3>1. ASSUME NEW l, l = Len(messages') + 1, NEW y, y = x PROVE Lost(y, l)'
      BY <1>5, <2>2, <3>1, AppendFacts DEF Lost, IInv, Types, ListTypes
    <3>2. QED
      BY <1>6, <3>1 DEF Doomed
  <2>3. QED
    BY <1>5, <1>9, <2>1, <2>2 DEF Announced
<1>10. QED
  BY <1>4, <1>8, <1>9 DEF Staying

LEMMA StayingIsPluggedStep ==
    ASSUME IInv, IInv', EventsInv, StayingIsPlugged, StayingAlone, [Next]_vars, alive, ~Doomed'
    PROVE  StayingIsPlugged'
<1>0. items \in Seq(DiskInfo) /\ DOMAIN items = Item
  BY DEF IInv, Types, ListTypes, Item
<1>1. ASSUME NEW i, Staying(i)', NEW d, d = items'[i].dev
      PROVE  d \in plugged' \/ Removal(d)'
  <2>1. CASE Healthd /\ AddDiskInfo /\ i = Len(items)
    <3>1. UNCHANGED <<uevents, plugged>> /\ healthd.pc = "list" /\ items' = items
      BY <2>1 DEF AddDiskInfo, kernel
    <3>2. Len(items) \in Item
      BY <3>1 DEF Item, IInv, Types, HealthdTypes, ListTypes
    <3>3. d \in Disk /\ Held(d)
      <4>1. items[Len(items)] \in DiskInfo /\ d = items[Len(items)].dev
        BY <1>0, <1>1, <2>1, <3>1, <3>2
      <4>2. QED
        BY <3>1, <4>1 DEF DiskInfo, Held
    <3>4. d \in plugged \/ Removal(d)
      BY <3>3 DEF StayingIsPlugged
    <3>5. QED
      BY <3>1, <3>4 DEF Removal, Event
  <2>2. CASE Staying(i)
    <3>1. i \in Item
      BY <2>2 DEF Staying, InList, IInv, Types, ListTypes
    <3>2. d = items[i].dev
      BY <1>1, <3>1, ItemsStay
    <3>3. d \in Disk /\ (d \in plugged \/ Removal(d))
      <4>1. items[i] \in DiskInfo
        BY <1>0, <3>1
      <4>2. QED
        BY <2>2, <3>1, <3>2, <4>1 DEF StayingIsPlugged, DiskInfo
    <3>4. ~(Healthd /\ PlugOut /\ Head(uevents).dev = d)
      BY <1>1, <2>2, <3>2, PlugOutAnnounces
    <3>5. QED
      BY <3>3, <3>4, RemovalStep
  <2>3. QED
    BY <1>1, <2>1, <2>2, StayingStep
<1>2. ASSUME NEW d \in Disk, Held(d)'
      PROVE  d \in plugged' \/ Removal(d)'
  <2>1. ~(Healthd /\ PlugOut)
    BY <1>2 DEF PlugOut, Held, Idle
  <2>2. CASE Held(d)
    BY <2>1, <2>2, RemovalStep DEF StayingIsPlugged
  <2>3. CASE Healthd /\ PlugIn /\ Head(uevents).dev = d
    <3>1. 1 \in DOMAIN uevents /\ uevents[1] = Head(uevents) /\ Head(uevents).op # "remove"
      <4>1. uevents # <<>> /\ uevents \in Seq(Uevent) /\ Head(uevents).op # "remove"
        BY <2>3 DEF PlugIn, IInv, Types, KernelTypes
      <4>2. QED
        BY <4>1, TailFacts
    <3>2. d \in plugged \/ Removal(d)
      BY <2>3, <3>1 DEF EventsInv, AddedIsPlugged, Removal
    <3>3. QED
      BY <2>1, <3>2, RemovalStep
  <2>4. QED
    BY <1>2, <2>2, <2>3, HeldStep
<1>3. QED
  BY <1>1, <1>2 DEF StayingIsPlugged

LEMMA StayingAloneStep ==
    ASSUME IInv, IInv', StayingAlone, ReturningIsMounted, [Next]_vars, alive
    PROVE  StayingAlone'
<1>1. ASSUME NEW i, Staying(i)'
      PROVE  \/ i \in Item /\ Staying(i) /\ items'[i] = items[i]
             \/ /\ Healthd /\ AddDiskInfo /\ i = Len(items) /\ items' = items
                /\ Held(items[i].dev) /\ ~Held(items[i].dev)'
  <2>1. CASE Staying(i)
    <3>1. i \in Item
      BY <2>1 DEF Staying, InList, IInv, Types, ListTypes
    <3>2. QED
      BY <2>1, <3>1, ItemsStay
  <2>2. CASE Healthd /\ AddDiskInfo /\ i = Len(items)
    BY <2>2 DEF AddDiskInfo, Held
  <2>3. QED
    BY <1>1, <2>1, <2>2, StayingStep
<1>2. ASSUME NEW i, Staying(i)', NEW d, d = items'[i].dev
      PROVE  ~Held(d)'
  <2>1. CASE i \in Item /\ Staying(i) /\ items'[i] = items[i]
    <3>1. ~Held(d)
      BY <1>2, <2>1 DEF StayingAlone
    <3>2. CASE Healthd /\ PlugIn /\ Head(uevents).dev = d /\ ~IsMounted(d)
      <4>1. uevents # <<>> /\ uevents \in Seq(Uevent) /\ Head(uevents).op # "remove"
        BY <3>2 DEF PlugIn, IInv, Types, KernelTypes
      <4>2. 1 \in DOMAIN uevents /\ uevents[1] = Head(uevents) /\ \A k \in DOMAIN uevents : ~(k < 1)
        BY <4>1, TailFacts
      <4>3. Returns(d)
        BY <3>2, <4>1, <4>2 DEF Returns
      <4>4. PICK k \in DOMAIN mounts : mounts[k] = items[i]
        BY <1>2, <2>1, <4>3 DEF ReturningIsMounted, Own
      <4>5. QED
        BY <1>2, <2>1, <3>2, <4>4 DEF IsMounted
    <3>3. QED
      BY <3>1, <3>2, HeldStep
  <2>2. CASE items' = items /\ ~Held(items[i].dev)'
    BY <1>2, <2>2
  <2>3. QED
    BY <1>1, <1>2, <2>1, <2>2
<1>3. ASSUME NEW i, Staying(i)', NEW j, Staying(j)', items'[j].dev = items'[i].dev
      PROVE  j = i
  BY <1>1, <1>3 DEF StayingAlone
<1>4. QED
  BY <1>2, <1>3 DEF StayingAlone

LEMMA ReturningStep ==
    ASSUME IInv, IInv', EventsInv, StayingIsPlugged, StayingAlone, ReturningIsMounted,
           [Next]_vars, alive, ~Doomed'
    PROVE  ReturningIsMounted'
<1>0. items \in Seq(DiskInfo) /\ DOMAIN items = Item /\ (healthd.pc = "list" => Len(items) \in Item)
  BY DEF IInv, Types, ListTypes, HealthdTypes, Item
<1>1. \A i \in Item : items[i].dev \in Disk
  <2>1. \A i \in Item : items[i] \in DiskInfo
    BY <1>0
  <2>2. QED
    BY <2>1 DEF DiskInfo
<1>2. ASSUME NEW i, Staying(i)', NEW d, d = items'[i].dev, Returns(d)'
      PROVE  Own(i)'
  <2>1. CASE Healthd /\ AddDiskInfo /\ i = Len(items)
    <3>1. UNCHANGED <<uevents, items>> /\ healthd.pc = "list"
      BY <2>1 DEF AddDiskInfo, kernel
    <3>2. Returns(d) /\ d = items[i].dev /\ i \in Item
      BY <1>0, <1>2, <2>1, <3>1 DEF Returns
    <3>3. Own(i)
      BY <2>1, <3>1, <3>2 DEF ReturningIsMounted
    <3>4. QED
      BY <2>1, <3>1, <3>2, <3>3, OwnStep
  <2>2. CASE Staying(i) /\ InList(i)'
    <3>1. i \in Item /\ InList(i)
      BY <2>2 DEF Staying, InList, IInv, Types, ListTypes
    <3>2. d = items[i].dev /\ d \in Disk
      BY <1>1, <1>2, <3>1, ItemsStay
    <3>3. d \in plugged \/ Removal(d)
      BY <2>2, <3>1, <3>2 DEF StayingIsPlugged
    <3>4. ~(Healthd /\ PlugOut /\ Head(uevents).dev = d)
      BY <1>2, <2>2, <3>2, PlugOutAnnounces
    <3>5. ~(Healthd /\ BootCheck)
      BY <3>1 DEF EventsInv, NothingBefore, BootCheck, InList
    <3>6. Returns(d)
      BY <1>2, <3>2, <3>3, <3>4, <3>5, ReturnsStep
    <3>7. Own(i)
      BY <2>2, <3>1, <3>2, <3>6 DEF ReturningIsMounted
    <3>8. QED
      BY <2>2, <3>1, <3>7, OwnStep
  <2>3. QED
    BY <1>2, <2>1, <2>2, StayingStep
<1>3. ASSUME healthd.pc \in {"mount", "list"}, NEW d \in Disk, Held(d), Returns(d)'
      PROVE  Returns(d) /\ ~(Healthd /\ PlugOut)
  <2>1. ~(Healthd /\ PlugOut)
    BY <1>3 DEF PlugOut
  <2>2. ~(Healthd /\ BootCheck)
    BY <1>3 DEF EventsInv, NothingBefore, BootCheck
  <2>3. d \in plugged \/ Removal(d)
    BY <1>3 DEF StayingIsPlugged
  <2>4. QED
    BY <1>3, <2>1, <2>2, <2>3, ReturnsStep
<1>4. ASSUME healthd'.pc = "list", NEW i, i = Len(items'), NEW d, d = items'[i].dev, Returns(d)'
      PROVE  Own(i)'
  <2>1. CASE healthd.pc = "list" /\ items' = items
    <3>1. i \in Item /\ d \in Disk /\ Held(d) /\ d = items[i].dev
      BY <1>0, <1>1, <1>4, <2>1 DEF Held
    <3>2. Returns(d)
      BY <1>3, <1>4, <2>1, <3>1
    <3>3. Own(i)
      BY <1>4, <2>1, <3>1, <3>2 DEF ReturningIsMounted
    <3>4. QED
      BY <1>4, <2>1, <3>1, <3>3, OwnStep
  <2>2. CASE Healthd /\ Mount
    <3> DEFINE e == [dev |-> healthd.dev, point |-> healthd.point]
    <3>1. healthd.pc = "mount" /\ uevents' = uevents /\ looper' = looper
      BY <2>2 DEF Mount, Healthd, SignalMessage
    <3>2. mounts' = Append(mounts, e) /\ items' = Append(items, e)
      BY <1>4, <2>2 DEF Mount, Idle
    <3>3. e.dev = healthd.dev /\ mounts \in Seq(DiskInfo)
      BY DEF IInv, Types, KernelTypes
    <3> HIDE DEF e
    <3>4. i = Len(items) + 1 /\ items'[i] = e /\ d = healthd.dev
      BY <1>0, <1>4, <3>2, <3>3, AppendFacts
    <3>5. Len(mounts) + 1 \in DOMAIN mounts' /\ mounts'[Len(mounts) + 1] = e
      BY <3>2, <3>3, AppendFacts
    <3>6. Returns(d)
      BY <1>4, <3>1 DEF Returns
    <3>7. ~Leaving
      BY <3>1, <3>4, <3>6 DEF ReturningIsMounted, Clean
    <3>8. ~Leaving'
      BY <3>1, <3>7 DEF Leaving
    <3>9. QED
      BY <3>4, <3>5, <3>8 DEF Own
  <2>3. CASE ~(Healthd /\ Mount)
    <3>1. CASE Healthd
      <4>1. healthd' # Idle
        BY <1>4 DEF Idle
      <4>2. ~PlugIn /\ ~PlugOut /\ ~SignalMessage
        BY <1>4, <4>1 DEF PlugIn, PlugOut, SignalMessage
      <4>3. ~AddDiskInfo /\ ~PutMessage
        BY <1>4 DEF AddDiskInfo, PutMessage
      <4>4. BootCheck
        BY <2>3, <3>1, <4>2, <4>3 DEF Healthd
      <4>5. healthd' = healthd /\ items' = items
        BY <4>4 DEF BootCheck, lists
      <4>6. QED
        BY <1>4, <2>1, <4>5
    <3>2. CASE ~Healthd
      <4>1. healthd' = healthd /\ items' = items
        BY <3>2 DEF Next, Kernel, Looper, Screen, vars, lists, TestList, Block, TakeMessage,
               DelDiskInfo, TellScreen, UnMount
      <4>2. QED
        BY <1>4, <2>1, <4>1
    <3>3. QED
      BY <3>1, <3>2
  <2>4. QED
    BY <2>2, <2>3
<1>5. ASSUME healthd'.pc = "mount", NEW d, d = healthd'.dev, Returns(d)'
      PROVE  Clean'
  <2>1. CASE Healthd /\ PlugIn
    <3>1. /\ uevents # <<>> /\ uevents' = Tail(uevents) /\ uevents \in Seq(Uevent)
          /\ Head(uevents).op \in {"add", "static"} /\ d = Head(uevents).dev /\ ~PlugOut
      BY <1>5, <2>1 DEF PlugIn, PlugOut, Idle, IInv, Types, KernelTypes
    <3>2. /\ 1 \in DOMAIN uevents /\ uevents[1] = Head(uevents)
          /\ \A k \in DOMAIN uevents' :
                k \in Nat /\ k + 1 \in DOMAIN uevents /\ uevents'[k] = uevents[k + 1]
          /\ \A k \in DOMAIN uevents : k \in Nat /\ (k = 1 \/ 1 < k)
          /\ \A k \in DOMAIN uevents : 1 < k => k - 1 \in DOMAIN uevents' /\ uevents'[k - 1] = uevents[k]
      BY <3>1, TailFacts
    <3>3. PICK k \in DOMAIN uevents' :
              /\ uevents'[k].dev = d /\ uevents'[k].op # "remove"
              /\ \A j \in DOMAIN uevents' : j < k => uevents'[j].dev # d
      BY <1>5 DEF Returns
    <3>4. 1 < k + 1 /\ k + 1 \in DOMAIN uevents /\ k \in Nat
      <4>1. k \in 1 .. Len(uevents) - 1
        BY <3>1, <3>3, TailFacts
      <4>2. QED
        BY <3>2, <3>3, <4>1
    <3>5. \/ Head(uevents).op = "static"
          \/ \E l \in DOMAIN uevents : 1 <= l /\ l < k + 1 /\ uevents[l] = Event("remove", d)
      <4>1. uevents[1].dev = d /\ uevents[k + 1].dev = d /\ uevents[k + 1].op # "remove"
        BY <3>1, <3>2, <3>3
      <4>2. QED
        BY <3>2, <3>4, <4>1 DEF EventsInv, AddedOnce
    <3>6. ASSUME NEW l \in DOMAIN uevents, l < k + 1, uevents[l] = Event("remove", d)
          PROVE  FALSE
      <4>1. uevents[l].op = "remove" /\ uevents[l].dev = d
        BY <3>6 DEF Event
      <4>2. l # 1
        BY <3>1, <3>2, <4>1
      <4>3. l \in Nat /\ 1 < l /\ l - 1 < k
        BY <3>2, <3>4, <3>6, <4>2
      <4>4. QED
        BY <3>2, <3>3, <4>1, <4>3
    <3>7. Clean
      BY <3>2, <3>5, <3>6 DEF EventsInv, FoundComesFirst
    <3>8. QED
      BY <3>1, <3>7, CleanStep
  <2>2. CASE ~(Healthd /\ PlugIn)
    <3>1. healthd' = healthd
      <4>1. CASE Healthd
        <5>1. healthd' # Idle /\ healthd'.pc # "list"
          BY <1>5 DEF Idle
        <5>2. ~PlugOut /\ ~Mount /\ ~SignalMessage
          BY <1>5, <5>1 DEF PlugOut, Mount, SignalMessage
        <5>3. ~AddDiskInfo /\ ~PutMessage
          BY <1>5 DEF AddDiskInfo, PutMessage
        <5>4. QED
          BY <2>2, <4>1, <5>2, <5>3 DEF Healthd, BootCheck
      <4>2. CASE ~Healthd
        BY <4>2 DEF Next, Kernel, Looper, Screen, vars
      <4>3. QED
        BY <4>1, <4>2
    <3>2. d \in Disk /\ Held(d)
      BY <1>5, <3>1, HealthdCases DEF Held, IInv, Types
    <3>3. Returns(d) /\ ~PlugOut
      BY <1>3, <1>5, <3>1, <3>2 DEF PlugOut
    <3>4. Clean
      BY <1>5, <3>1, <3>3 DEF ReturningIsMounted
    <3>5. QED
      BY <3>3, <3>4, CleanStep
  <2>3. QED
    BY <2>1, <2>2
<1>6. QED
  BY <1>2, <1>4, <1>5 DEF ReturningIsMounted

-----------------------------------------------------------------------------
LEMMA InitRest == Init => RestInv
<1> SUFFICES ASSUME Init PROVE RestInv
  OBVIOUS
<1>1. ScreenInv
  BY DEF Init, ScreenInv, ScreenTypes, ToldIsListed, IconComes, IconGoes, DrawnComes, Outdone,
         Pages, Idle
<1>2. EventsInv
  BY DEF Init, EventsInv, AddedIsPlugged, AddedOnce, FoundComesFirst, NothingBefore, Clean,
         Leaving, Idle
<1>3. StayingIsPlugged /\ StayingAlone /\ ReturningIsMounted
  BY DEF Init, StayingIsPlugged, StayingAlone, ReturningIsMounted, Item, Held, Idle
<1>4. QED
  BY <1>1, <1>2, <1>3 DEF RestInv, PluggedInv

LEMMA NextRest == IInv /\ IInv' /\ RestInv /\ [Next]_vars => RestInv'
<1> SUFFICES ASSUME IInv, IInv', RestInv, [Next]_vars PROVE RestInv'
  OBVIOUS
<1>1. ScreenInv' /\ EventsInv'
  BY ScreenStep, EventsStep DEF RestInv, PluggedInv
<1>2. ASSUME alive', ~Doomed'
      PROVE  StayingIsPlugged' /\ StayingAlone' /\ ReturningIsMounted'
  <2>1. alive
    BY <1>2 DEF Next, Kernel, Healthd, Looper, Screen, vars
  <2>2. ~Doomed
    BY <1>2, <2>1, DoomedStays
  <2>3. EventsInv /\ StayingIsPlugged /\ StayingAlone /\ ReturningIsMounted
    BY <2>1, <2>2 DEF RestInv, PluggedInv
  <2>4. QED
    BY <1>2, <2>1, <2>3, StayingIsPluggedStep, StayingAloneStep, ReturningStep
<1>3. QED
  BY <1>1, <1>2 DEF RestInv, PluggedInv

\* While the program lives and plugs no disk out twice, a disk that stays in the
\* list is plugged in or its removal comes, it is the only one of its name, and
\* its own mount is there whenever the kernel's next event of it says it is added.
THEOREM RestInvariance == Spec => [](IInv /\ RestInv)
<1>1. Init => IInv /\ RestInv
  BY InitIInv, InitRest
<1>2. IInv /\ RestInv /\ [Next]_vars => (IInv /\ RestInv)'
  BY NextIInv, NextRest
<1>3. QED
  BY <1>1, <1>2, PTL DEF Spec

\* When every thread waits and nothing is to be done, the icon and the page agree
\* with the list of disks, and every disk of the list is plugged in.
THEOREM RestAgrees == Spec => []AgreesAtRest
<1>1. IInv /\ RestInv => AgreesAtRest
  <2> SUFFICES ASSUME IInv, RestInv, Quiet
               PROVE  IconAgrees /\ DrawnUpToDate /\ ListedIsPlugged
    BY DEF AgreesAtRest
  <2>1. /\ alive /\ uevents = <<>> /\ healthd.pc = "idle" /\ messages = <<>>
        /\ looper.pc \in {"block", "wait"} /\ queue = <<>> /\ screen.pc = "loop"
    BY DEF Quiet
  <2>2. ~PlugInComing /\ ~Leaving /\ ~Has(queue, "mount") /\ ~Has(queue, "unmount")
        /\ ~LeadsAway(queue)
    BY <2>1 DEF PlugInComing, Leaving, Has, LeadsAway
  <2>3. IconAgrees
    BY <2>1, <2>2 DEF RestInv, ScreenInv, IconComes, IconGoes, IconAgrees
  <2>4. DrawnUpToDate
    BY <2>1, <2>2 DEF RestInv, ScreenInv, DrawnComes, DrawnUpToDate, GetDiskNum
  <2>5. ListedIsPlugged
    <3>1. ~Doomed
      BY <2>1 DEF Doomed
    <3>2. StayingIsPlugged /\ \A d : ~Removal(d)
      BY <2>1, <3>1 DEF RestInv, PluggedInv, Removal
    <3>3. ASSUME NEW k \in DOMAIN disks
          PROVE  items[disks[k]].dev \in plugged
      <4>1. disks[k] \in Item /\ Staying(disks[k])
        BY <2>1 DEF IInv, Types, ListTypes, Staying, InList, Announced
      <4>2. QED
        BY <3>2, <4>1 DEF StayingIsPlugged
    <3>4. QED
      BY <3>3 DEF ListedIsPlugged
  <2>6. QED
    BY <2>3, <2>4, <2>5
<1>2. QED
  BY <1>1, RestInvariance, PTL
=============================================================================
