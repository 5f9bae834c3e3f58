# Formal model of screen_mirror

TLA+ modules, TLC configurations and TLAPS proofs for the concurrent core of
the projector application in `src/lv_projector` and of the casting library in
`src/screenmirror_lib`. Paths below are relative to
`lv_projector/src/AWCast/src/wfd_player/playback/` unless they say otherwise.

## 1. The system

The repository is the firmware application of a projector: LVGL pages on a
launcher, and behind them casting receivers (Miracast, DLNA, USB and wireless
casting), a local media player, settings, disk hot-plug and over-the-air
update. Most of it is screens on one thread over vendor libraries. The parts
with a protocol of their own, threads, queues, rings, locks and a clock, are the
Miracast player (`AWCast/src/wfd_player`), the Wi-Fi Direct control that makes
and destroys its sessions (`AWCast/src/libwfd2`) and the casting library's
engine.

### 1.1 Components of the player, from the network to the screen

**Miracast session** (`WFDPlayer2.cpp`). State: the RTP receiver, a queue of
datagrams, the demultiplexer, the player, an exit flag and `bPlayerSetup`.
Setup starts the receiver; the demux thread waits for data, feeds the
demultiplexer, creates the player's streams once it knows them, and starts the
player; Stop sets the flag, stops the receiver, joins both threads, and destroys
player, parser and buffers. Start and Stop are called once each. Hard: a Stop at
any point of the search, the replay or a request for a block; a datagram that
passes through two queues. Correct when Stop always returns, no call reaches what
has been destroyed, and each datagram is handled once and in its turn.

**Transport stream demultiplexer** (`tsdemux`). State: per program identifier
the PES packet being taken apart and the block being filled; reference-counted
buffers. Operation: handle one 188-byte packet. Sequential; hard in frames that
do not keep to packets, lost packets, blocks that end anywhere, and buffers that
several packets refer to. Correct when data reach the decoder once and in order,
frames are told apart, and each buffer is freed once.

**Stream manager** (`streamManager.c`). A ring of `nMaxFrameNum` frames
between the demux thread and the audio decoder thread. State: the frames, the
read and write positions, the byte count, the block lent to the demux thread
(`pMem`), the block that a reset has given up on (`lostBaby`). The demux thread
borrows a block (RequestBuffer), fills it without any lock, and submits it
(AddStream); `audioDecComponent.c` wraps both in `streamManagerMutex`. The
decoder thread peeks (GetFrameInfo), takes (RequestStream) under the manager's
own mutex, and copies the frame after that mutex has been released. A slot's
block is freed only when the writer comes round again; `MIN_PREVERSE_RATIO`
keeps the writer some slots behind the reader. Hard: the unlocked copy, the
block being filled while a reset runs, full and empty that look alike, the byte
count kept incrementally by six operations, and a crashed decoder, for which
the demux thread itself throws frames away.

**Player** (`player.c`). State: its status, the components, whether the time
base is set, the end-of-stream and crash flags. Start, Stop, Pause, Reset (a
seek), Clear: each posts commands to the components one after the other and
waits for each reply. Callbacks of the components set the clock and aggregate
end of stream and crashes.

**Message loop** (`baseComponent.c`). Each component is a thread with a queue
of four messages. A command carries a semaphore that the handler posts. The
thread keeps itself busy with CONTINUE messages, which it posts to its own
queue only if that is empty; when it is not, the message that is there is
trusted to keep the thread going. Posting to a full queue aborts the program.
Hard: one handler that forgets to continue puts its thread to sleep for ever;
looking at the queue and posting to it are two steps; a second reply to one
command makes a later command return before it has been carried out.

**Video decoder component** (`videoDecComponent.c`). State: its status, the
crash flag, `bResolutionChange`, the decoding engine. At a change of resolution
it stops continuing itself; the render thread reopens the engine and sends it a
CONTINUE. Hard: two threads use one engine, and the player may stop, pause or
seek at every point of that exchange.

**Video render component** (`videoRenderComponent_newDisplay.c`). State: its
status, whether the display's buffers have been given to the decoder, the
picture held, whether the first time stamp has been notified. Loop: give
buffers, ask for a picture, wait until it is due or a message comes, show it.

**Media clock** (`avtimer.c`). State: started or not, speed, media time and
system time of the last call. Read by render and decoder threads, set by the
player and the renderer, all under its mutex. Hard: each call drops a fraction
of a microsecond; a change of speed must not turn the clock back.

**Audio decoder component** (`audioDecComponent.c`). State: its status, the
crash flag, the decoder and its ring of PCM data, the stream manager. A start
creates the decoder, which may fail and leaves the component stopped in a started
player; a stop destroys it. Its thread decodes while there is room.

**Audio render component** (`audioRenderComponent.c`). State: its status, the
data it has requested and not released, whether the first piece has been sent,
the format it has given the sound device. Loop: set the device, take PCM data
straight out of the decoder, look for a change of rate, ask the clock whether the
data is late, write it. Hard: it enters the decoder without a lock, so that only
the order of the player's commands keeps the decoder there; the device is set,
started, paused and stopped from six places. Correct when the decoder outlives
every call, the device is started again after every pause, seek and change of
rate, and is never given a format while it plays.

**Sound device** (`libwfd2/tina_sink/soundControl_alsa.c`). State: stopped,
started or paused, and the format. It aborts the program when it is set while not
stopped; it reports success when it cannot be opened.

Estimators of bit rate and frame rate keep statistics. The **platform layer**
(`platform`, `awsink`, `layerControl`) drives the vendor's display.

### 1.2 The casting library (`screenmirror_lib/src/core`)

**Engine** (`mirror_engine.c`, `state_machine.c`). A global engine that the
application's threads drive: init, exit, start and stop discovery, connect,
disconnect, callbacks. The state is kept twice, in the engine and in a state
machine with a table of legal changes. Calls run under the engine's mutex and
tell the application's callback after they have released it. Hard: two copies
of one state, callbacks of two threads in the other order, calls that lock
twice. **Event system** (`event_system.c`): subscribers called under its lock;
nothing subscribes in the repository.

### 1.3 The rest

**Miracast control** (`libwfd2/miracast2.cpp`). State, shared by four kinds of
threads: the state (invalid, initialised, started, connected), the flag
`connecting`, the player, the message queue, the flags for the main thread. The
application calls Init, Start, Disconnect, Stop and DeInit under the lock. The
P2P thread turns the supplicant's events into messages; the main thread waits for
messages, sets up sessions and resets them, and listens again when nobody does;
each session's threads report its status. Hard: SETUP and the P2P thread hold no
lock; the main thread tests the state and acts on it later; the pointer to the
player is read again at each step; DeInit joins a thread that may be waiting for
the lock; a message that finds the queue full is dropped without a word. Correct
when threads are joined before what they use goes, no player is lost or used
after its life, the state tells of the session, and the device can be found
again after each group.

**Message queue** (`WFDMessageQueue`): a list of at most 64 messages under a
mutex, with a semaphore. **Casting services** (`AWCast/awcast.c`) call Miracast,
DLNA and AirPlay in a fixed order, the last two in binary libraries.

**Disk manager** (`Common/disk_manager`, on the lists of `Common/dblist`). State:
the list of disks, a blocking list of hot-plug messages, the kernel's mounts.
The thread `healthd` reads the kernel's events, mounts a new disk, lists it and
sends a message; the message thread takes a disk that has gone out of the list,
calls the screens back, unmounts and frees it. Hard: both threads and the user
interface use the list and the disks in it, and the user may plug faster than
they follow. Correct when at rest what is listed is plugged in and mounted, and
no listed disk has been freed. **System messages** (`Common/message`), a queue
to the user-interface thread, and the **page manager** (`Common/page_manager`),
which makes one page and destroys the last, carry this to the icon and to the
pages of disks and files, which should show in the end what the list has.

Settings, update, Bluetooth, network, file explorer, factory test and launcher
are screens, file access or shell commands.

`PROJECT.json` lists every component with its status, and the hazards of the
code at their lines with the properties that cover them.

## 2. Modules

| module | models | kind |
| --- | --- | --- |
| `StreamManager` | `streamManager.c` and both its users in `audioDecComponent.c`, `player.c` | detailed |
| `StreamFifo` | what the ring promises: frames in order, and a place among them | abstract |
| `MCStreamManager` | addresses and allocator for TLC | instance |
| `StreamManagerProofs` | invariance, memory safety, the unlocked copy, the refinement of `StreamFifo` | proofs |
| `MirrorEngine` | `mirror_engine.c`, `state_machine.c` | detailed |
| `Player` | `player.c`, `baseComponent.c`: the commands and the message loop | shared |
| `PlayerProofs` | the exchange of a command and its reply, and the place of a command in its list, step by step | lemmas |
| `VideoPlayback` | `Player` with the two video components | detailed |
| `VideoPlaybackProofs` | queues and replies, states, the clock, the threads kept going, for every capacity from three on | proofs |
| `AudioPlayback` | `Player` with the two audio components and the sound device | detailed |
| `AudioPlaybackProofs` | states, the sound device and the decoder under the renderer, for any amount of data | proofs |
| `WfdSession` | `WFDPlayer2.cpp`, `ts_buffer.c`, the search in `ts_prog_parser.c`, `push_es_data` of `tsdemux.c` | detailed |
| `TsDemux` | `tsdemux.c`: PES packets into frames and blocks | detailed |
| `WfdSessionProofs` | who lives, the order of the datagrams and the references to them, for any number of datagrams, streams and blocks | proofs |
| `MiracastControl` | `miracast2.cpp`: calls, main thread, P2P events, sessions' reports | detailed |
| `MiracastControlProofs` | threads, players, the order of the messages and the state, for any capacity and number of groups and players | proofs |
| `AvTimer` | `avtimer.c` | detailed |
| `EngineClockDemuxProofs` | the engine for any number of threads; the clock's drift and monotony; the order of the demultiplexer's data and the bits of its blocks, for all sizes | proofs |
| `DiskManager` | `DiskManager.c`, `dbList.c`, the callback of `lv_ui_usb.c`, the messages and pages about disks | detailed |
| `DiskManagerProofs` | listed disks stay mounted; list, icon, page and plugs agree at rest, for any number of disks and plugs | proofs |

Layers: `MiracastControl` sees a session as new, running, playing or over;
`WfdSession` is the inside of one, and sees the player as created, started or
destroyed; `Player` with the components is the inside of that, and `StreamManager`
what an audio decoder component keeps its input in.

### StreamManager

The variables are the fields of the C structures, plus the heap, the demux
thread's place in its code (`idle`, `again` and `flush` while it looks for room,
`fill` while it writes to the block) and the decoder's (`idle`, `peek` between
GetFrameInfo and RequestStream, `copy` while it copies without the mutex,
`crashed`, `resetting` between the reset and the clearing of `bCrashFlag`, `dead`
after the assertion that ends the process). Each action is one critical section.
RequestBuffer keeps its reallocation inside the step although the code has left
the manager's mutex by then: it touches only `pMem` and `nMemSize`, which every
caller guards with `streamManagerMutex`.

The allocator is a constant operator: it returns any of a set of free addresses,
or none, and the instance for TLC uses the lowest free ones so that addresses do
not multiply the states. FilledBlockPrivate and the free() bookkeeping
(`badFree`) are about these addresses.

One stream is modelled; the manager has one structure per stream and shares
nothing between them. Rewind is called by the decoder after a change of audio
stream. ReturnStream has no caller in the build; it is kept, for the frame that
was taken last, because SizeExact and RingIsFifo speak of it too.

`StreamFifo` is the ring without slots, blocks and wrapping: the frames that are
kept, in the order of submission, and a place among them. Taking and throwing away
move the place forward, giving back and rewinding move it back, a frame put behind
the others may push out the oldest, if that has been taken. In the mapping, a slot's
frame is kept until the writer comes round to it; so once the ring is in use
everywhere the oldest frame is in the slot that is written next. The frame that the
decoder works on is the one in its slot: that it is not written over is part of what
is shown, except after a crash (section 5).

### MirrorEngine

One action per library call: what it does under the lock, then `emit`, the time
between the release of the lock and the callback, and Deliver, the callback,
which asks for the state. Exit with work left keeps the lock and calls a
function that locks again. Assumed: init and exit are called while no other call
is in progress (init tests the global pointer without a lock), and a callback
calls nothing but get_state.

### Player, VideoPlayback, AudioPlayback

The player's commands are lists of messages still to be posted and waited for
(`todo`). Each thread has a phase: `get` waits for a message, `check` and `post`
are the two halves of BaseCompContinue, and the others are the points of the work
handlers between which other threads can act. `owed` is the reply that a handler
posts after it has continued; most handlers reply first, and the order matters.
A stream's components share no state with the other stream's but the clock, so
each pair is composed with the player alone; `CallReset` and the other commands
post to the two components in the order in which the code posts to those of one
stream. `player.straight` is a history: the player has only been started, perhaps
is being stopped.

One command is in progress at a time: WFDPlayer2's demux thread starts the player,
and Stop joins that thread before it stops it. The program starts a player once
and never resets it; Pause, Reset (a seek) and repeated starts are the player's
public operations, and are checked as such.

VideoPlayback has no audio, hence the clock is set by the renderer alone. A
picture is a count, `fbm` the state of the library's frame buffers. Not modelled:
end of stream (nothing in the program sets it for a video stream), 3D streams,
deinterlacing and rotation, window changes, hiding the video, and a failing
allocation in ReopenVideoEngine. The decoding library and the display are
external: a decoding step finds nothing, a picture, a new resolution or a fatal
error. Without a picture the renderer reads the decoder's flag and then counts its
messages (`asked`, `look`): two steps, and the decoder may act in between. The display may fail to return a buffer, not for ever.

In AudioPlayback PCM data is a count of pieces; the renderer requests some of
what there is, drops it if it is late, or writes it piece by piece. A decoding
step yields a piece at some rate, nothing, or a crash; creating and initialising
the decoder may fail. The stream's rate is known from the start. End of stream,
balance and mute are left out: nothing sets the first, the others keep no state
that a step depends on. A write to the device takes something or nothing, the latter
when it does not play or `snd_pcm_prepare` fails after an error; the renderer then waits
for a message. `__Write` does not return a negative number: every error either ends in
that 0 or is tried again. The sound device behaves as `soundControl_alsa.c`; the one
that the build links is made by TSoundDeviceCreate of a library without source,
with the same interface. A failing stop of the device is not modelled.
ResetAfterFailure says whether a player whose decoder did not start may be rewound:
it is what finding `audio_reset` needs.

### WfdSession

Three threads and two queues. `caller` is the place of the thread that calls
Setup, Start and Stop in its code; `sink` the thread inside startWFDSink, which
feeds datagrams; `demux` the demux thread, through its three loops: the search
for the program (`search`, `pop`), the replay of the datagrams of the search
(`replay`), and the main loop (`feed`, `take`). While a datagram is handled
(`handle`), `back` says which loop goes on. `request` and `fill` are the points
of push_es_data at which a block is asked for and written.

A datagram is the set of pids it has packets of; which pieces of streams come
out of it is free, up to MaxPieces, because the parsing of packets is not
modelled. `ref` is the counter of each buffer, 0 once it is freed; each buffer
has an address of its own, so that a use after the end of its life shows. The
parser keeps Keep packets of each pid (five in the build, one in the runs, so
that a few datagrams are enough to go past it). `owner` is who has each of the
player's blocks. A session is an object of its own and one is modelled;
`miracast2.cpp` calls Setup, Start and Stop in this order from one thread under
a lock. External, and modelled as used here: the receiver, the queues
(`CdxQueue`, one step each), the player's answer to a request (granted, or
refused while it has data of that stream buffered; a failed allocation is not
modelled) and its use of the blocks.

### MiracastControl

Each action is what a thread does between two points at which another may act:
a call under the lock is one step, or two where it waits in between (Start waits
for the supplicant, Disconnect stops a session), and whoever needs the lock
waits meanwhile. `main` is where the main thread is: `loop`, `relisten` between its
look at the state and its request to listen, `reset` and `resetting` before and
under the lock, `wait` for the peer's address, `new`, `setup` and `start` for the
three steps of SETUP. `p2p` is the message that the P2P thread has decided to post
and not yet posted. `fault` stops everything when an object is used that is gone.
A session that fails to start is left without threads, or, when the module for the
content protection cannot be made, with them; that memory runs out between the creation
of its two threads (`ts_demux_open`) is not modelled.
`hist` remembers what the code admits: a connection `raced` with a stop, a session
`failed` to start, a message was `dropped`, the end of a group was `missed`.

The application's calls come one at a time in the order Init, Start, Stop, DeInit,
which is how the page calls them through `awcast.c`; a DeInit after DeInit changes
nothing. The detached threads of `awcast.c` that remove and reset services may
overlap with the page's calls and are not modelled. QUIT and RESET_FROM_MANAGER are
never posted. Messages that only call the application back are left out, as are
the video format, the content protection's keys, and the configuration of the
supplicant. The supplicant is external: it ends the listening at some time, forms a
group while listening, announces its peer, or not, and ends the group at any time.
The sessions' threads are external too, and report between Start and Stop.

### AvTimer

All calls of the clock with their integer divisions, together with an ideal
clock in thousandths of a microsecond. Left out: SetPlayRate and
PtsToSystemTime, which nothing calls, and single-precision rounding in GetTime
(a few thousandths of a microsecond between two reads some 20 ms apart).
AvTimerStart has no guard in the code; `TimerNext` starts a stopped clock only, which
is how the player and the renderer use it (`ClockAgrees` in VideoPlayback is
about that), because Start on a running clock forgets the time passed.

### TsDemux

The filter is a record with the fields of `filter_t`: `total` and `payload` are
`pes_total_size` without the header and `pes_payload_size`, `isNew` is
`is_new_frame`, `pts` says whether `pts` is valid, `data`, `bits` and `free` are
the block (`es_valid_size`, `es_ctrl_bits`, `es_buffer_free_size`). Payload is
the case MPEGTS_PESPAYLOAD, FillBlock a round of the loop of push_es_data with
SUBMIT_INCOMPLETE_PES_PAYLOAD off, as it is built, and FillBlocks the loop; `out` is what
has been given to updatedatacb. The sender is external: it
makes PES packets whose lengths are known or not, and may leave the end of a
frame to the next one, which is what the code calls an abnormal payload. It cuts PES
packets anywhere, and cuts their headers off from their data. A byte is its frame, its
place, the PES packet it travels in, and whether it is 0, 1 or another, because the search
for the start code tells no more; a frame begins with a start code of three or four bytes,
which its other bytes do not imitate, but for a last 1 that the next packet may carry.
HandlePacket handles one packet with one piece; each block has a size of its own, which
depends on the byte that it is asked for (`size`). `cut` is a history: the frames whose
start codes a packet cuts, or comes too short before (`CutsCode`). WfdSession has the same blocks from the other side:
there the pieces are free, and the request may be given up.

### DiskManager

`items` are the `DiskInfo_t` that were allocated, `disks` is `disk_info_list`,
`messages` `hotplug_message_list`; `healthd`, `looper` and `screen` say what the
three threads are doing. Every step that another thread can see is an action: the
mount, the entry in the list, the message and its signal; the look at the list and
the wait in `__db_list_pop`; the removal from the list, the callback and the
unmounting; the two handlers of one system message, of which each counts the
disks. A key is one step, and the change of page it asks for another. Mounting
fails when the disk is gone and may fail in any case; umount fails while a file
is open. `alive` is FALSE once NULL or freed memory has been used, and nothing
happens then (section 5). Left out: registering, which
is done at start; static disks, which nothing registers; labels and file systems; the
directories made for mount points.

## 3. Runs

Every passing run checks deadlock too, except `engine_calls`, where a thread
that exits with work left stops the library for good (section 5),
`ts_demux`, where the sender has sent all its frames, and `disk_manager`, where the user
has plugged in all there is.

A type invariant or an inductive invariant that is proved is not run again, but for
the session's type invariant: that no count of references falls below zero is worth a
run. The components without proofs (section 6) are checked for the properties of the
system alone.

| run | bounds | shows |
| --- | --- | --- |
| `stream_ring` | 4 slots, 2 preserved, times 1 and 2, no crash | the frame peeked at and the frame being copied stay valid; the byte count is exact; no submission makes the ring look empty; the ring implements the FIFO |
| `stream_blocks` | 4 slots, 2 preserved, block sizes 1 and 2, crashes, an allocator that runs out, fairness | each block has one owner and is freed once; the block being filled is private; a demux thread without room gets some |
| `engine_calls` | 3 threads | engine and state machine stay together up to one case; the callback misses no change |
| `video_playback` | queues of 4, 2 pictures, all commands in any order, fairness | queues never overflow, no thread sleeps on work, replies and states match, the engine is not reopened while the decoder is in it, commands return, decoding goes on |
| `audio_playback` | queues of 4, room for 2 pieces, 2 rates, all commands, failing decoders and devices, fairness | the renderer is never inside a decoder that is gone; states and crash flags agree; the device is set and started when it should be; commands return, decoding goes on |
| `miracast_control` | a queue of 2, 2 groups, 2 players, fairness | threads are joined, players neither lost nor used after their life but in the named cases, the state tells of the session, DeInit returns, the device is found again |
| `timer_calls` | 8 instants, 4 calls, 3 speeds | less than a microsecond lost per call; only SetTime goes back |
| `session_calls` | 3 datagrams of 4 kinds, 1 packet kept a pid, 1 stream of 2 blocks, fairness | each datagram handled once and in turn, each buffer counted and given back, player and parser used only while they exist, only lent blocks filled, Stop returns |
| `ts_demux` | 2 frames of 3 or 4 data and up to 3 in the next packet, PES packets in up to 3 pieces cut anywhere, blocks of 2 and 3 in any order, losses | data reach the decoder once and in order; frames are told apart and the first has its time stamp, also after a loss, but in the cases of section 5 |
| `disk_manager` | 2 disks, 2 mount points, 1 plugging in besides those in at the start | at rest list, icon, page and plugs agree; listed disks are mounted and not freed |
| `session_search`, `audio_reset` | as above (`audio_reset` with one rate, and a seek after a failed start) | findings, section 5 |

**Why the bounds are enough.** Four slots with two preserved let the ring wrap,
fill to its limit, be flushed, given back and rewound across the wrap; two block
sizes give every path through RequestBuffer (fits, too small, none). The proofs
cover all larger rings. Three threads are two that change the state and a third
whose event is still on its way. The queue of four is the build's; VideoPlayback
and AudioPlayback have no other bound but the pictures, pieces and rates: the
queues themselves are shown to stay bounded. Three messages would do, two would
not (CapacityAssumption). Two pieces are one being written while the next is
decoded, or both requested at once; two rates are one change. In MiracastControl
the second group and the second player come while the first is being torn down; a
queue of two holds a SETUP and a RESET of one group and is full for the next. With
three of each the run passes too (1.3 million states), and the proofs have no
bound. The clock's system time and calls are bounded; its proofs have neither
bound. Three datagrams let the program be found in the first, the second or the
third, and put one into each queue and one into the demultiplexer's hands; the
streams of a session share nothing but the thread that pushes to them, so one is
enough. With two streams the run passes too (1.4 million states). Two frames are one
and the next. Three data left to the next packet are as long as a start code, so
that a piece of them is searched and one of fewer is not; frames of three and four data
are start codes of both lengths, one with a datum behind it; three pieces are one that
ends in a start code, one that begins there, and one more; blocks of two and three hold
parts of two pieces. The proofs have none of these bounds. Two disks and two mount points let one be in when the other goes,
and the same place be taken again; one further plugging in brings a name back while
its removal is under way.

**Fairness.** In the stream manager the decoder thread runs
(weak on GetFrameInfo), its output is consumed and it therefore takes and copies
frames as long as it is offered any (strong on RequestStream and CopyDone, since
resets intervene), and the demux thread retries its request as its loop does
(weak on RequestBuffer and FlushOldest). No fairness is assumed of AddStream,
crashes or resets. In VideoPlayback
the three threads run (weak fairness of each), and the display does not refuse
its buffers for ever (strong fairness of ShowPicture); commands, changes of
resolution and crashes have none. DecodingGoesOn asks nothing of a player that
has crashed. In AudioPlayback the three threads run, and nothing is assumed of
commands, the decoding library or the device; DecodingGoesOn is
about players whose device has not refused. In MiracastControl a call goes on once
it has begun, which takes that the supplicant is reached some day, the main thread
runs and the P2P thread posts what it has decided to; the application need not
call, groups need not form or end, sessions need not report. In WfdSession the demux thread runs, the caller goes on once it is
inside Stop, and startWFDSink returns some day even if it has not been stopped
(the peer goes): a Stop that comes before `sp.sink` is set does not stop it. The
player need not consume anything.

## 4. Proofs

All theorems hold for every value of the constants that the named assumptions
allow.

**StreamManagerProofs.** OneOwner and NoBadFree are not inductive: AddStream
frees what the slot held, so one must know which slots hold a block. `IInv` adds
SlotsFilledUpToWriter (before the first wrap exactly the slots below the writer
hold a block, afterwards all do), FilledBlockKnown (the block the demux thread
fills is the lent one or the one that a reset disowned, so a submission after a
reset can be told from an ordinary one), CopiedSlotFilled, and
NoFlushWithoutCrash (nobody but the decoder moves the reader, so the slot being
copied is the one just behind it). Invariance gives `TypeCorrect` and
`MemorySafe`. `DecoderReadsIntactFrames` proves FrameStays (CopiedFrameIntact and
PeekedFrameFirst) under the assumption that the decoder does not crash; with
crashes they are false by design, as the flush moves the reader.
`SubmittedFramesReadable` is about the ring's arithmetic: with a preserved slot
the writer never reaches the reader. `RingImplementsFifo` is the refinement of
`StreamFifo`. Its lemmas say where in the ring the kept frames are (`KeptSlotLemma`,
`WrapLemma`), which slots the next frame and the one taken last have
(`NextKeptLemma`, `LastTakenLemma`), and that a stored frame comes behind the others
(`StoreAppends` before the first round, `StorePushesOut` after it). It needs two
preserved slots: then the writer stays off the slot behind the reader while a frame
may be given back (CopiedSlotAhead, an invariant on top of `IInv`). Crashes and
rewinds are allowed. `SizeAlways` (the byte count is what the readable frames add up
to) has the same assumption. The sum is the loop of Rewind, a recursive function on the
slots: an operation is shown to change it as it changes the count by giving a function
that adds up the new lengths, and there is only one (`SumsUnique`, by induction over the
distance from the writer; the provers cannot instantiate the library's induction
theorems, but `InductionLemma` says the same of a set). RingAssumption asks for at least one
preserved slot; the code's own check (`streamManager.c:86`) multiplies by a
fraction and accepts rings of fewer than ten slots, which have none. The build
uses 1024.

**EngineClockDemuxProofs.** The engine's `IInv` adds DiscoveringIsRunning to StatesAgree: without
it a stop of the discovery could leave the two states in an unforeseen pair. A
call either changes nothing or passes through `emit`, which is what
CallbackUpToDate needs (`NoMissedChange`).

The clock's `TimerIInv` bounds how far it is behind the ideal one by the calls made (`TimerLoss`); the lemmas on Elapsed say that a division
loses less than one unit and does not reorder. `TimerNeverBack` covers changes
of speed: the time passed is counted at the old speed first.

The demultiplexer's proofs are about a loop whose rounds depend on the data. The loop is a
recursive function of the rounds; `FillBlocksKeeps` says once that what every round keeps
holds when the loop ends, which it does because each round takes a datum. The rest reasons
about a single round (`Round`: the block stays or is submitted), and `PushKeeps` carries
it to push_es_data. `FlattenAppend` says of the library's FlattenSeq that a block
submitted comes last. So data pushed come out behind the others (`PushOut`), those of a
packet too (`PayloadIs`), and `OrderIInv` is inductive: what came out, what is being sent
and what is left to the next packet follow one another; with HeaderInv, by which a
filter that has seen the packet's header takes it to be no shorter than what is left of
it, nothing that arrives is cut off. DeliveredInOrder follows (`DeliveredInOrderAlways`).

FramesApart speaks of submitted blocks only, so its invariant `BlocksIInv` says the same
of the block being filled and adds what the filter knows of data that have not arrived.
Three of its parts are about sets of blocks (`AllIn`): those that hold the start code of a
known frame at their beginning only and say so (`Headed`), those that begin with a start
code when they say so (`Marked`), and those that have a time stamp then (`Timed`).
`RoundBlocks` reduces "push_es_data keeps every block in the set" to the one block that a
round makes (`PushHeaded`, `PushMarked`, `PushTold`), and `PayloadHeaded`, `PayloadMarked`
and `PayloadTold` carry it over the split of a piece at its start code. What the search finds
depends on the sender: `SenderInv` says that what is left of a PES packet holds no start
code but its own frame's, whole if it holds its beginning, and no 0 of another frame.
So in a piece without a stray 1 that does not cut it the search finds it where it is
(`SearchFinds`, `PieceSearch`), and what it finds is never the frame before. Where a piece
cuts it the frame is in `cut` and nothing is claimed of its own blocks; the invariant says
what the others keep:

- HeadedInv: while the start code of a frame whose header arrived is still to come, and
  not cut, the filter looks for it, across losses; and none of that frame has come out
  before its header, by the order already proved (`StartAhead`);
- MarkedInv: without losses, the filter looks for a frame only while one is to come, or in
  the packet of a cut one;
- ToldInv: when every frame keeps to its packet, a packet begins with its start code
  (`StartLeads`), the time stamp is there when the filter looks for a frame, and the
  length that the filter counts down is that of its block and of what is to come.

`RoundCounts` is the arithmetic of that count over blocks of any size: a block is said to
end a frame only with the packet's last datum. `TsBlocksAlways` is the invariant's theorem
and `FramesApartAlways` the property's; both hold for every number and size of frames,
packets and blocks, wherever they are cut. `TsAssumption` asks only that blocks have room.

**WfdSessionProofs.** `IInv` ties the three threads together. ThreadsInStep says
what the others may be doing at each point of the caller's code, DemuxHas what
the demux thread has by the time it gets to a point of its own (a started player
and a parser once it handles datagrams, a stream and a piece left of it once it
requests a block). QueuesTyped comes in because what is taken from a queue
becomes the datagram being handled. From it follow `NoUseAfterStop`, that player
and parser are destroyed only behind the demux thread, and `WritesLentBlocks`,
that until the session is told to end push_es_data fills only what it has been
lent: a block is handed over together with the mark that it is being filled.

`InTurn` is about order. Counted back from the datagram received last there are,
without a gap, those of the receiver's queue, those of the search's queue, and the one
being handled; and the main loop begins when the search's queue is empty.
`HandledInTurn` follows. `RefInv` counts: a buffer has one reference for each packet
that the parser keeps of it, one in the receiver's queue and one in the hand of the main
loop. It needs that queue by numbers (what is kept or in hand has left it), and, while
Stop drains, that the parser has given all of its back (`OnlyQueued`). The sums over
packets are handled by what changes one summand (`FeedRefs`, `TakeRefs`,
`HandledRefs`, `DrainRefs`). `BuffersAlways` and `SessionTypeCorrect` follow: the type
invariant says that no count falls below zero.

**PlayerProofs.** A command that is awaited is in one of three places: in the
component's queue, alone among CONTINUEs; owed by a handler that continues first, or
that has begun to create the audio decoder; or answered, once. All else in a queue are
CONTINUEs of threads that had seen it empty, the component's own and the renderer's,
hence two at most. `Exchange` says this of one component, whatever its handlers are,
and each kind of step (`CommandStep`, `BeginStep`, `CompleteStep`, `ContinueStep`,
`WorkStep`, `LoopStep`, `WakeStep`, and the player's own) has a lemma that it keeps
`PlayInv`. NoStrayReply and RoomToPost follow (`OneReplyAwaited`, `RoomForPosts`): three
places in a queue are enough. `Plan` lists what each of the six commands does, and
`Doing(s, k)` says that the player is before step k of list s. A step under way may
have been carried out already although its reply has not been taken (`Handled`), so
`Turn(k)`, the step that is still to be carried out, is k or k + 1. `RenAt` and `DecAt`
tabulate what the components are in then. That a handler runs only in its turn
(`TakenTurn`) is what excludes, for instance, the stop of a stopped video decoder, which
would reply twice.

**VideoPlaybackProofs.** StatusAgrees and ClockAgrees speak of the end of a list and are
not inductive; `Row` says for every place in every list what the components and the
clock are in (`ClockIn`: between the renderer's reset and the player's own step a seek
has forgotten the first picture but still has a time base, for instance). One lemma
for each handler shows that it takes one row to the next (`RenRow`, `DecRow`), one that
no other step of a thread leaves the row (`OtherRow`), and three those of the player.
ChainAlive joins the invariant as it stands. RenderRunsWithDecoder follows from the
rows alone: only the end of a seek starts the renderer first. `TokenInv` is for
ReopenAlone: in a straight player the decoder is kept going by one CONTINUE at most,
or decodes, or is about to be reopened and woken, never two of these.

**AudioPlaybackProofs.** The rows again, with the exception that a decoder could not be
started (`Failed`), in a seek only if players are rewound after that; and with who knows
of a crash: from the decoder's stop or reset to the player's own step it alone has
forgotten it (`Forgotten`). `DeviceInv` ties the sound device to the renderer's place in
its work, and gives `DeviceAlways`. `DecoderAlways` needs `HeldInv` (the renderer's data
is part of the decoder's, and there is some exactly while it is at it) and
`RenderRests`: at each step that creates, destroys or empties the decoder, the row says
that the renderer is not started. This last fails for a seek that starts the decoder,
which only a player rewound after a failure has; hence the theorem's assumption
`~ResetAfterFailure`, without which the run `audio_reset` shows the property violated.

**MiracastControlProofs.** `ThreadInv` ties the queue and the flags to the place of
the caller: between Init and DeInit there is a queue, and the main thread exists
only from Start until DeInit has joined it. `PlayerInv` says that the pointer is
never left on a player that is gone; that the main thread, in the middle of SETUP,
finds no player only if the application stopped meanwhile or before (`raced`); and
that a player without threads is left behind only then or when its session failed.
From the two follow `OneThread` and `PlayerUsedAlive`; `MiracastTypes` includes that
the queue stays within its capacity. Without a message lost, there is a RESET between the SETUPs of
two groups (`MessagesInOrder`, `QueueInOrder`): the P2P thread posts the RESET of a
group before it takes the next. By then the player of the group before is gone
(`EndsFreed`, `Freed`), and `Doing` says what the main thread has done of the message it
is at. `NoPlayerLost` and `StateTellsOfSession` follow.

**DiskManagerProofs.** Nothing is assumed but that there are finitely many device
names. ListedIsMounted is not inductive: a mount point is free from the moment its
disk leaves the list, and the next disk may be mounted over it before umount is called,
which takes the last mount there. `MountInv` therefore says of each item (`Holds`) that
something is mounted at its point besides what the message thread is about to unmount
there, of the disk that healthd is mounting or listing that its point is nobody's, and
of an announced disk that it is listed until it is taken out (`ListedStaysMounted`).

AgreesAtRest speaks of a moment without work, so `RestInv` says of every other moment
which message, event or step is still to come. `ScreenInv` does it for the icon and the
page: if there is a disk and no icon, the news of a disk is on its way (`IconComes`); if
there is none, no mount comes to the screen after the last unmount (`IconGoes`); if the
page is out of date, something that draws it comes or leads away from it
(`DrawnComes`). `PluggedInv` does it for the list: a disk that stays in it, that is,
whose unplugging is not announced, is plugged in or its removal is among the kernel's
events. That fails when the wrong one of two disks of a name is plugged out, hence
`StayingAlone`; to know that a name is not listed twice one needs that its mount is
there whenever its next event says that it is added, since healthd then leaves it alone
(`ReturningIsMounted`); and that needs the kernel's order of events (`AddedOnce`,
`FoundComesFirst`). All this holds until a disk is plugged out twice: `Doomed` says that
two messages about one disk are on their way, which stays so until the second is taken
and the program uses freed memory (`DoomedStays`, the finding in section 5). At rest
there are no messages, so nothing is doomed, and `RestAgrees` follows.

**Only model-checked.** Liveness (RoomReturns, CallsReturn, DecodingGoesOn,
StopReturns, DeInitReturns, ListensAgain), which is out of the prover's
reach. Every invariant that a passing run checks is stated by a theorem.

## 5. Findings and observations

- `session_search`: the datagrams of the search are queued for the replay without
  a reference of their own. The parser drops the one it is given and holds only
  the packets it keeps. Stopped during the search, the session destroys the
  parser, and with it these buffers, before it destroys the queued ones; and a
  datagram of which the parser keeps nothing is freed while it is queued and
  replayed later. BuffersAccounted shows that this is the only place where the
  counting goes wrong.
- `audio_reset`: at the end of a seek the renderers are started before the decoders
  (`player.c:819-826`), against the comment at line 812. Mostly the decoder is
  there, only paused; when its start failed before, the seek creates it while the
  renderer runs, which enters a decoder that is not initialised or is destroyed
  again. RenderRunsWithDecoder shows for video that this is the only time that a
  renderer runs without its decoder.

Met on the way, without a run of their own. The casting engine:

- `screenmirror_exit` on an engine that is not idle waits for the mutex that it
  holds (`mirror_engine.c:74`): Exit keeps the lock in the model, for good.
- connect during a discovery, then stop the discovery: the connection being made is
  given up (`mirror_engine.c:187`).
- start_discovery while connecting changes the engine's state; the state machine
  refuses the change and stays behind (`mirror_engine.c:147-148`). StatesAgree
  shows that this is the only difference there can be.
- init and exit test and set the global pointer without a lock (`mirror_engine.c:14`).
- get_device_info succeeds during a discovery (`mirror_engine.c:329`) although
  `screenmirror.h:154` speaks of the connected device.

The disks (of the first three the model reaches the first two with the message thread
waiting, or using NULL, and the third with freed memory used, where it stops):

- A message put and signalled between the look at the list and the wait
  (`dbList.c:140-145`) is slept on until the next one comes.
- The signal of a message already taken ends the next wait, and the NULL that the
  blocking list gives is used (`DiskManager.c:938`).
- Two removals of one name read before the first is handled make two messages with
  one disk, which is freed twice (`DiskManager.c:594`, `958`).
- A disk chosen on a page drawn before it went is NULL, and used
  (`lv_pro_media.c:75`); the disk chosen may be freed before its name is read.
- A disk that cannot be unmounted is freed, its place given to the next one, and its
  name not mounted again as long as the old mount is there (`lv_ui_usb.c:32` says so).
- The place of an SD card is looked for among those of USB disks (`DiskManager.c:440`).
- Messages are never freed: the call is behind an endless loop (`DiskManager.c:964`).
- The first senders of a system message may make two queues (`sys_msg.c:14`).

The demultiplexer. FramesApart says that nothing but the following, and no loss of other
packets, has this effect, of which NoStrayOne excludes the first, `cut` the second and
NothingLeft the last two. A sender that begins every frame with a PES packet of its own
avoids all but the second.

- The search for a start code ends at the first byte 1 that has two bytes in front of
  it (`tsdemux.c:245`); the frame then goes on in the block of the last one.
- Each packet is searched by itself. A start code that a packet cuts is not found
  (`tsdemux.c:238-249`), and a piece of less than three bytes is not searched but taken to
  begin the frame (`tsdemux.c:402`). So the frame goes on in the block of the last one,
  without a bit or a stamp, or the end of the last one is marked as the beginning.
- When the first piece of a PES packet is searched for a start code and has none,
  the next one is, but the time stamp has been forgotten (`tsdemux.c:438`), and the
  frame gets none, although the comment at line 82 promises one.
- Data that the last frame left without a start code in their piece count as the new
  packet's (`tsdemux.c:417-421`), so a block in the middle of a frame may be said to
  end it; for this reason LastIsEnd is about frames that keep to their packets.

Miracast control:

- The main thread tests the state and listens, and handles RESET and SETUP, without
  asking whether Miracast has been stopped meanwhile; so the device may be found, or
  hold a session, after Miracast_Stop has returned (`miracast2.cpp:650`; the comment
  at 1028 says otherwise).
- Disconnect and Stop may delete the player in the middle of SETUP, which reads the
  pointer again at each step; PlayerAlive says that nothing else does.
- A session that fails to start keeps its player. A later RESET stops it, joining
  threads that were never created; if that RESET was dropped, the next SETUP
  overwrites the pointer.
- The P2P thread may post to a queue that DeInit has destroyed (`miracast2.cpp:267`).
- `connecting` stays set if a group ends while Miracast is not initialised; the
  device then does not listen again of its own accord.
- Start holds the lock while it waits for the supplicant, so the request to give up
  cannot reach it.
- `AWCast_restart_MiracastAirplay` may call Start while Miracast is started.

The player:

- The request for a block reads `bCrashFlag` once and then flushes in a loop
  (`audioDecComponent.c:475-486`); a reset meanwhile clears the flag, and frames
  of a decoder that runs again are thrown away. If malloc fails often enough for the
  loop to go on, the writer may even come round to the slot that the decoder copies
  from, outside the mutex, and free its block; `MaySpoil` of `StreamFifo` allows this
  after a crash only.
- A request for a block that is given up because the session is to end reports
  success, so push_es_data writes into the block that it has submitted before
  (`WFDPlayer2.cpp:804`, `tsdemux.c:72`). FilledBlockLent shows that this happens
  at the end only. Given up before any block has been granted, it leaves a block of
  no bytes, and push_es_data loops for ever (`tsdemux.c:67-180`).
- A Stop that comes before `sp.sink` is set does not stop the receiver
  (`WFDPlayer2.cpp:587`); the demux thread waits for `bPlayerSetup` without looking
  at the exit flag (line 379).
- WFD_PlayerSubmitStreamData hands over nothing once the player has been stopped
  (`player.c:1059`); the block that was filled stays lent. When the next thing is a reset,
  it is disowned (`streamManager.c:190`), and as nobody submits it any more, line 413 does
  not free it: the memory is lost. MemorySafety says that no block is shared or freed twice, not
  that none is lost.
- ReturnStream refuses the frame when the ring has become empty
  (`streamManager.c:555`), against its comment at line 539; it has no caller.
- With one preserved slot a frame given back can make the ring look empty, and
  SizeExact and RingIsFifo fail; with two they hold.
- RequestBuffer unlocks a mutex a second time on some paths
  (`streamManager.c:332`, `346`, `361`, `367`).
- AvTimerReset moves a clock that is stopped (`avtimer.c:145`), so Stop on a
  stopped clock adds time.
- Stop leaves `bResolutionChange` set (`videoDecComponent.c:731`): ReopenAlone is
  false for a player that is stopped and started again, or paused at that moment.
  WFDPlayer2 does neither, and ReopenAlone is stated of players that have only been
  started.
- The renderer asks for a picture first and reads the flag afterwards
  (`videoDecComponent.c:453`): a picture decoded in between is thrown away. A
  picture for which no display buffer can be dequeued is queued twice.
- The player forgets a video decoder's crash at Stop and Reset, the decoder does
  not (`videoDecComponent.c:877`); for audio both forget (StatusAgrees).
- Stop, Pause and Reset use eStatus without `playerStatusMutex`, which Start holds
  (`player.c:664`).
- A sound device that cannot be opened reports success
  (`soundControl_alsa.c:416`); the renderer waits in its write loop until the next
  command.

## 6. Plan and what is not modelled

Done: the ring between demux and decoder, the casting engine, video and audio
playback, the session, the Wi-Fi Direct control and the clock, with the proofs
above, the disks, the demultiplexer. Next, in this order:

1. `AvSync`: both pairs under one player: end of stream and crash aggregation and
   the setting of the clock by two renderers (`player.c:1326-1709`).
2. `StreamManagerLocks`: RequestBuffer at the level of lock and unlock, with the
   decoder thread at each point in between, implementing `StreamManager`.
3. The concurrent callers in `awcast.c`, over MiracastControl.

**Not modelled, and why.** Most of the repository's lines are bitmap fonts and
character tables, which are data; then the screens (settings, source, cast,
network, Bluetooth, file explorer, factory test, launcher), straight-line code on
one thread over vendor libraries, whose state is what is drawn; the vendored
supplicant client (`wpa_cli.c`, `wpa_client`), vendor display and sound drivers,
and binary libraries (RTSP, DLNA, AirPlay), which are external. Estimators keep
statistics that nothing decides by. Settings and update are file access and shell
commands. The share of the repository that the models speak of is therefore small
although they cover most of the code that runs concurrently.
