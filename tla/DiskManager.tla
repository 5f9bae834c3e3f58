------------------------------ MODULE DiskManager ------------------------------
(***************************************************************************)
(* Hot-plugging of disks (Common/disk_manager/DiskManager.c), the list it  *)
(* is built on (Common/dblist/dbList.c) and the screens that follow it     *)
(* (Layer/usb/lv_ui_usb.c, Common/message, Media/lv_pro_media.c).          *)
(*                                                                         *)
(* Three threads.  healthd reads the kernel's events one at a time, mounts *)
(* the disk, puts it into the list of disks and puts a message into the    *)
(* blocking list of hot-plug messages.  The message thread takes a disk    *)
(* that is gone out of the list, tells the screens, unmounts and frees it. *)
(* The user-interface thread takes one system message a round: it draws    *)
(* the icon and the page of the disks and switches pages.                  *)
(*                                                                         *)
(* A disk is known by its device name; no name is a prefix of another one. *)
(* Directories made for mount points, labels and file systems are left     *)
(* out, and the file page and the players that it opens are one page.      *)
(***************************************************************************)
EXTENDS Naturals, SequencesExt

CONSTANTS
    Disk,       \* device names
    NumPoints,  \* mount points
    MaxPlugs,   \* bound: how often the user plugs a disk in
    MaxQueue    \* bound: system messages when the user presses a key

ASSUME DiskAssumption ==
    IsFiniteSet(Disk) /\ NumPoints \in Nat \ {0} /\ MaxPlugs \in Nat /\ MaxQueue \in Nat

VARIABLES
    plugged,    \* the disks that are in
    plugs,      \* how often one was plugged in
    uevents,    \* the kernel's events that healthd has not read
    mounts,     \* /proc/mounts: disks and their mount points, oldest first
    booted,     \* the disks found at start have been looked at
    items,      \* every DiskInfo_t that was allocated: disk and mount point
    freed,      \* the ones that have been freed
    disks,      \* disk_info_list
    messages,   \* hotplug_message_list
    healthd,    \* what the healthd thread is doing
    looper,     \* what the message thread is doing
    queue,      \* m_system_msg_queue
    page,       \* current_page_id
    usbIndex,   \* media_usb_index
    icon,       \* the icon shows a disk
    drawn,      \* the number of disks the disk page shows
    screen,     \* what the user-interface thread is doing
    alive       \* FALSE: the program has used NULL or freed memory

kernel == <<plugged, plugs, uevents, mounts>>
lists == <<items, freed, disks, messages>>
shown == <<page, usbIndex, icon, drawn>>
vars == <<kernel, booted, lists, healthd, looper, queue, shown, screen, alive>>

Point == 1 .. NumPoints
Event(op, d) == [op |-> op, dev |-> d]
IsMounted(d) == \E k \in DOMAIN mounts : mounts[k].dev = d
Idle == [pc |-> "idle"]
MediaPages == {"disk", "file"}

-----------------------------------------------------------------------------
Init ==
    /\ plugged \in SUBSET Disk
    /\ plugs = 0 /\ uevents = <<>> /\ mounts = <<>>
    /\ booted = FALSE
    /\ items = <<>> /\ freed = {} /\ disks = <<>> /\ messages = <<>>
    /\ healthd = Idle
    /\ looper = [pc |-> "pop"]
    /\ queue = <<>>
    /\ page = "media" /\ usbIndex = 1 /\ icon = FALSE /\ drawn = 0
    /\ screen = [pc |-> "loop"]
    /\ alive = TRUE

-----------------------------------------------------------------------------
(* The user and the kernel.                                                *)

\* The name may come again while a file system of that name is still mounted:
\* an SD card has the name of its slot.
Plug(d) ==
    /\ d \notin plugged /\ plugs < MaxPlugs
    /\ plugged' = plugged \cup {d} /\ plugs' = plugs + 1
    /\ uevents' = Append(uevents, Event("add", d))
    /\ UNCHANGED mounts

Unplug(d) ==
    /\ d \in plugged
    /\ plugged' = plugged \ {d}
    /\ uevents' = Append(uevents, Event("remove", d))
    /\ UNCHANGED <<plugs, mounts>>

Kernel ==
    /\ \E d \in Disk : Plug(d) \/ Unplug(d)
    /\ UNCHANGED <<booted, lists, healthd, looper, queue, shown, screen, alive>>

-----------------------------------------------------------------------------
(* The healthd thread.                                                     *)

\* The disks that are in when healthd starts are handled before its events.
BootCheck ==
    /\ ~booted
    /\ booted' = TRUE
    /\ \E found \in SetToSeqs(plugged) :
          uevents' = [k \in DOMAIN found |-> Event("static", found[k])]
                     \o uevents
    /\ UNCHANGED <<plugged, plugs, mounts, lists, healthd>>

\* The mount points that no disk of the list has.
FreePoints ==
    {p \in Point : \A k \in DOMAIN disks : items[disks[k]].point # p}

\* DiskManager_GetMountPoint: the first of them.
MountPoint == CHOOSE p \in FreePoints : \A q \in FreePoints : p <= q

\* An added disk gets a mount point, unless its name is mounted already.
PlugIn ==
    /\ booted /\ healthd.pc = "idle" /\ uevents # <<>>
    /\ Head(uevents).op \in {"add", "static"}
    /\ LET d == Head(uevents).dev IN
       healthd' = IF IsMounted(d) \/ FreePoints = {} THEN Idle
                  ELSE [pc |-> "mount", dev |-> d, point |-> MountPoint]
    /\ uevents' = Tail(uevents)
    /\ UNCHANGED <<plugged, plugs, mounts, booted, lists>>

\* Mutant: the disk is listed although mounting failed.
MountUnchecked ==
    /\ healthd.pc = "mount"
    /\ items' = Append(items, [dev |-> healthd.dev, point |-> healthd.point])
    /\ healthd' = [pc |-> "list"]
    /\ \/ /\ healthd.dev \in plugged
          /\ mounts' = Append(mounts, [dev   |-> healthd.dev,
                                       point |-> healthd.point])
       \/ UNCHANGED mounts
    /\ UNCHANGED <<plugged, plugs, uevents, booted, freed, disks, messages>>

\* Mounting fails when the disk is gone and may fail in any case.
Mount ==
    /\ healthd.pc = "mount"
    /\ \/ /\ healthd.dev \in plugged
          /\ mounts' = Append(mounts, [dev   |-> healthd.dev,
                                       point |-> healthd.point])
          /\ items' = Append(items, [dev   |-> healthd.dev,
                                     point |-> healthd.point])
          /\ healthd' = [pc |-> "list"]
       \/ healthd' = Idle /\ UNCHANGED <<mounts, items>>
    /\ UNCHANGED <<plugged, plugs, uevents, booted, freed, disks,
                   messages>>

AddDiskInfo ==
    /\ healthd.pc = "list"
    /\ disks' = Append(disks, Len(items))
    /\ healthd' = [pc |-> "put", operate |-> "plugin", item |-> Len(items)]
    /\ UNCHANGED <<kernel, booted, items, freed, messages>>

\* DiskManager_UnMountDevice: the first disk of the list with that name.
Listed(d) == {k \in DOMAIN disks : items[disks[k]].dev = d}

PlugOut ==
    /\ booted /\ healthd.pc = "idle" /\ uevents # <<>>
    /\ Head(uevents).op = "remove"
    /\ LET found == Listed(Head(uevents).dev) IN
       healthd' = IF found = {} THEN Idle
                  ELSE [pc |-> "put", operate |-> "plugout",
                        item |-> disks[CHOOSE k \in found :
                                           \A j \in found : k <= j]]
    /\ uevents' = Tail(uevents)
    /\ UNCHANGED <<plugged, plugs, mounts, booted, lists>>

\* __db_list_put_tail: the message is in the list, then its reader is woken.
PutMessage ==
    /\ healthd.pc = "put"
    /\ messages' = Append(messages, [operate |-> healthd.operate,
                                     item    |-> healthd.item])
    /\ healthd' = [pc |-> "signal"]
    /\ UNCHANGED <<kernel, booted, items, freed, disks>>

\* The signal is lost when nobody waits.
SignalMessage ==
    /\ healthd.pc = "signal"
    /\ healthd' = Idle
    /\ looper' = IF looper.pc = "wait" THEN [pc |-> "take"] ELSE looper
    /\ UNCHANGED <<kernel, booted, lists>>

Healthd ==
    /\ alive
    /\ \/ /\ BootCheck \/ PlugIn \/ PlugOut \/ Mount \/ AddDiskInfo \/ PutMessage
          /\ UNCHANGED looper
       \/ SignalMessage
    /\ UNCHANGED <<queue, shown, screen, alive>>

-----------------------------------------------------------------------------
(* The message thread.                                                     *)

\* __db_list_pop: it looks at the list, and waits without looking again.
TestList ==
    /\ looper.pc = "pop"
    /\ looper' = [pc |-> IF messages = <<>> THEN "block" ELSE "take"]
    /\ UNCHANGED <<mounts, lists, queue, alive>>

Block ==
    /\ looper.pc = "block"
    /\ looper' = [pc |-> "wait"]
    /\ UNCHANGED <<mounts, lists, queue, alive>>

\* The message that is taken, NULL when the list is empty, is used untested;
\* so is the disk of a message that a disk was unplugged.
TakeMessage ==
    /\ looper.pc = "take"
    /\ IF messages = <<>> THEN alive' = FALSE /\ UNCHANGED <<looper, messages>>
       ELSE LET m == Head(messages) IN
            /\ messages' = Tail(messages)
            /\ alive' = ~(m.operate = "plugout" /\ m.item \in freed)
            /\ looper' = [pc   |-> IF m.operate = "plugout" THEN "delete"
                                   ELSE "tell",
                          operate |-> m.operate, item |-> m.item]
    /\ UNCHANGED <<mounts, items, freed, disks, queue>>

\* The first disk of the list with the same name and mount point.
DelDiskInfo ==
    /\ looper.pc = "delete"
    /\ LET same == {k \in DOMAIN disks :
                        items[disks[k]] = items[looper.item]} IN
       disks' = IF same = {} THEN disks
                ELSE RemoveAt(disks, CHOOSE k \in same :
                                         \A j \in same : k <= j)
    /\ looper' = [looper EXCEPT !.pc = "tell"]
    /\ UNCHANGED <<mounts, items, freed, messages, queue, alive>>

\* The registered callback, usb_manager_callback, sends a system message.
TellScreen ==
    /\ looper.pc = "tell"
    /\ queue' = Append(queue,
          IF looper.operate = "plugout"
            THEN [type |-> "unmount", data |-> items[looper.item].point]
            ELSE [type |-> "mount"])
    /\ looper' = IF looper.operate = "plugout"
                   THEN [looper EXCEPT !.pc = "unmount"] ELSE [pc |-> "pop"]
    /\ UNCHANGED <<mounts, lists, alive>>

\* umount takes away the last mount at the mount point.  It fails, twice, when
\* a file is open; the disk is freed in any case.
MountsAt(p) == {k \in DOMAIN mounts : mounts[k].point = p}

UnMount ==
    /\ looper.pc = "unmount"
    /\ LET at == MountsAt(items[looper.item].point) IN
       \/ /\ at # {}
          /\ mounts' = RemoveAt(mounts, CHOOSE k \in at : \A j \in at : j <= k)
       \/ UNCHANGED mounts
    /\ freed' = freed \cup {looper.item}
    /\ looper' = [pc |-> "pop"]
    /\ UNCHANGED <<items, disks, messages, queue, alive>>

Looper ==
    /\ alive
    /\ TestList \/ Block \/ TakeMessage \/ DelDiskInfo \/ TellScreen \/ UnMount
    /\ UNCHANGED <<plugged, plugs, uevents, booted, healthd, shown, screen>>

-----------------------------------------------------------------------------
(* The user-interface thread.  A round handles one system message and then *)
(* the user's keys; a change of page is a message to itself.               *)

GetDiskNum == Len(disks)
Switch(to) == [type |-> "page", to |-> to]

\* __switch_page; the disk page is drawn when it is made.
SwitchPage ==
    /\ screen.pc = "loop" /\ queue # <<>> /\ Head(queue).type = "page"
    /\ page' = Head(queue).to
    /\ drawn' = IF Head(queue).to = "disk" /\ page # "disk"
                  THEN GetDiskNum ELSE drawn
    /\ queue' = Tail(queue)
    /\ UNCHANGED <<usbIndex, icon, screen, alive>>

\* MSG_TYPE_USB_MOUNT.
DiskMounted ==
    /\ screen.pc = "loop" /\ queue # <<>> /\ Head(queue).type = "mount"
    /\ icon' = TRUE
    /\ drawn' = IF page = "disk" THEN GetDiskNum ELSE drawn
    /\ queue' = Tail(queue)
    /\ UNCHANGED <<page, usbIndex, screen, alive>>

\* Mutant: the icon goes out while there is another disk.
DiskUnmountedUncounted ==
    /\ screen.pc = "loop" /\ queue # <<>> /\ Head(queue).type = "unmount"
    /\ icon' = FALSE
    /\ queue' = IF GetDiskNum = 0 /\ page \in MediaPages
                  THEN Append(Tail(queue), Switch("media")) ELSE Tail(queue)
    /\ screen' = [pc |-> "refresh", index |-> Head(queue).data]
    /\ UNCHANGED <<page, usbIndex, drawn, alive>>

\* MSG_TYPE_USB_UNMOUNT, first in com_message_process.
DiskUnmounted ==
    /\ screen.pc = "loop" /\ queue # <<>> /\ Head(queue).type = "unmount"
    /\ IF GetDiskNum = 0
         THEN /\ icon' = FALSE
              /\ queue' = IF page \in MediaPages
                            THEN Append(Tail(queue), Switch("media"))
                            ELSE Tail(queue)
         ELSE icon' = icon /\ queue' = Tail(queue)
    /\ screen' = [pc |-> "refresh", index |-> Head(queue).data]
    /\ UNCHANGED <<page, usbIndex, drawn, alive>>

\* ... then in media_disk_message_process, which counts the disks again.
RefreshPages ==
    /\ screen.pc = "refresh"
    /\ drawn' = IF GetDiskNum # 0 /\ page = "disk" THEN GetDiskNum ELSE drawn
    /\ queue' = IF GetDiskNum # 0 /\ page = "file" /\ screen.index = usbIndex
                  THEN Append(queue, Switch("disk")) ELSE queue
    /\ screen' = [pc |-> "loop"]
    /\ UNCHANGED <<page, usbIndex, icon, alive>>

\* A key that leads to another page; on the media page only while there is a
\* disk, which is asked for before the change is sent.
KeyPages == [media |-> {"disk"}, disk |-> {"media"}, file |-> {"disk", "file"}]

PressKey ==
    /\ screen.pc = "loop" /\ Len(queue) < MaxQueue
    /\ \E to \in KeyPages[page] :
          /\ page = "media" => GetDiskNum > 0
          /\ screen' = [pc |-> "send", to |-> to]
    /\ UNCHANGED <<queue, shown, alive>>

SendSwitch ==
    /\ screen.pc = "send"
    /\ queue' = Append(queue, Switch(screen.to))
    /\ screen' = [pc |-> "loop"]
    /\ UNCHANGED <<shown, alive>>

\* A disk is chosen on the disk page by its place there; what the list has in
\* that place, perhaps nothing, is used untested.
ChooseDisk ==
    /\ screen.pc = "loop" /\ Len(queue) < MaxQueue /\ page = "disk"
    /\ \E k \in 1 .. drawn :
          IF k > GetDiskNum
            THEN alive' = FALSE /\ UNCHANGED screen
            ELSE screen' = [pc |-> "open", item |-> disks[k]] /\ UNCHANGED alive
    /\ UNCHANGED <<queue, shown>>

OpenDisk ==
    /\ screen.pc = "open"
    /\ alive' = (screen.item \notin freed)
    /\ usbIndex' = items[screen.item].point
    /\ screen' = [pc |-> "send", to |-> "file"]
    /\ UNCHANGED <<queue, page, icon, drawn>>

Screen ==
    /\ alive
    /\ \/ SwitchPage \/ DiskMounted \/ DiskUnmounted \/ RefreshPages
       \/ PressKey \/ SendSwitch \/ ChooseDisk \/ OpenDisk
    /\ UNCHANGED <<kernel, booted, lists, healthd, looper>>

-----------------------------------------------------------------------------
Next == Kernel \/ Healthd \/ Looper \/ Screen

Spec == Init /\ [][Next]_vars

-----------------------------------------------------------------------------
(* Properties.                                                             *)

\* Every thread waits and there is nothing to be done.
Quiet ==
    /\ alive /\ booted
    /\ uevents = <<>> /\ healthd.pc = "idle"
    /\ messages = <<>> /\ looper.pc \in {"block", "wait"}
    /\ queue = <<>> /\ screen.pc = "loop"

\* The icon tells whether there is a disk (com_message_process).
IconAgrees == icon <=> disks # <<>>

\* The disk page shows the disks of the list (lv_pro_disk_ui_fresh).
DrawnUpToDate == page = "disk" => drawn = GetDiskNum

\* Every disk of the list is in (DiskManager_UnMountDevice).  The converse
\* fails: lv_ui_usb.c:32, a disk pulled out while in use is not mounted again.
ListedIsPlugged == \A k \in DOMAIN disks : items[disks[k]].dev \in plugged

\* Whatever was plugged in and out, though a name came and went several times
\* before healthd looked, and in whatever order the threads took notice: once the
\* message list is empty and no thread has work left, the list, the icon and the
\* page agree with what is plugged in.  (A message that is slept on, and a disk that
\* is freed twice, are not at rest in this sense.)
AgreesAtRest == Quiet => IconAgrees /\ DrawnUpToDate /\ ListedIsPlugged

\* A disk of the list has not been freed, and something is mounted where the list
\* says, although the mount point of a disk is free as soon as it is out of the
\* list, before it is unmounted (hotplug_message_process_loop).
ListedIsMounted ==
    \A k \in DOMAIN disks :
        disks[k] \notin freed /\ MountsAt(items[disks[k]].point) # {}
==============================================================================
