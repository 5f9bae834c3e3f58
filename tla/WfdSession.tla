----------------------------- MODULE WfdSession -----------------------------
(***************************************************************************)
(* A Miracast session (wfd_player/WFDPlayer2.cpp) from Setup to Stop: the  *)
(* caller's thread, the thread that receives datagrams (startWFDSink) and  *)
(* the demux thread, with the reference counts of the datagram buffers     *)
(* (tsdemux/ts_buffer.c), the search for the program (ts_prog_parser.c)    *)
(* and the blocks that the demultiplexer borrows from the player and fills *)
(* (push_es_data).                                                         *)
(*                                                                         *)
(* While it searches, the demux thread moves every datagram to a second    *)
(* queue, so as to demultiplex it once the program is known.  The parser   *)
(* keeps references to the packets it may need and gives back the one that *)
(* it has been handed: the second queue has none of its own.               *)
(*                                                                         *)
(* A session is a new object, so one session is modelled; miracast2.cpp    *)
(* calls Setup, Start and Stop once each and in this order.  The receiver, *)
(* the player's buffers and the queues are external.  A datagram is the    *)
(* set of pids it has packets of (one is kept of each) and holds at most   *)
(* MaxPieces pieces of the streams.                                        *)
(***************************************************************************)
EXTENDS Naturals, Sequences, FiniteSets

CONSTANTS
    MaxFed,     \* datagrams that are received
    Contents,   \* what a datagram may hold: sets of "pat", "pmt", "es"
    Keep,       \* packets of one pid that the parser keeps (5 in the build)
    Stream,     \* the elementary streams
    Block,      \* the blocks of each stream that the player lends
    None,
    MaxPieces   \* bound of the pieces of streams in one datagram

Pid == {"pat", "pmt", "es"}
Buf == 1 .. MaxFed

ASSUME BoundsAssumption == MaxFed \in Nat /\ Keep \in Nat \ {0} /\ MaxPieces \in Nat
ASSUME ContentsAssumption == Contents \subseteq SUBSET Pid /\ {} \notin Contents
ASSUME NoneAssumption == None \notin Block \cup Stream \cup Buf

VARIABLES
    caller,         \* where the caller's thread is
    exitFlag,       \* exit_flag
    exitSem,        \* exit_flag_sem has been posted
    bPlayerSetup,
    player,         \* mPlayer
    sink,           \* the receiver's thread
    sinkSet,        \* sp.sink is not NULL
    fed,            \* datagrams received
    rtpQueue, tppQueue,
    ref,            \* TSBufferS.ref; 0 before and after the buffer's life
    tpp,            \* ctx->tpp exists
    kept,           \* ts_arrs: the buffers whose packets the parser keeps
    demux,          \* the demux thread: pc, the loop it goes back to, its
                    \* buffer, the stream it pushes to, pieces left
    mdBuf,          \* md_buf.buffer of each filter
    filling,        \* es_buffer_free_size # 0
    owner           \* who has each block: the player, the demux thread, nobody

control == <<caller, exitFlag, exitSem, bPlayerSetup, player>>
receiver == <<sink, sinkSet, fed>>
parser == <<tpp, kept>>
filters == <<mdBuf, filling, owner>>
vars == <<control, receiver, rtpQueue, tppQueue, ref, parser, demux, filters>>

Init ==
    /\ caller = "new" /\ exitFlag = FALSE /\ exitSem = FALSE
    /\ bPlayerSetup = FALSE /\ player = "none"
    /\ sink = "off" /\ sinkSet = FALSE /\ fed = 0
    /\ rtpQueue = <<>> /\ tppQueue = <<>>
    /\ ref = [b \in Buf |-> 0]
    /\ tpp = FALSE /\ kept = [p \in Pid |-> {}]
    /\ demux = [pc |-> "off", back |-> "replay", cur |-> None, stream |-> None, left |-> 0]
    /\ mdBuf = [s \in Stream |-> None]
    /\ filling = [s \in Stream |-> FALSE]
    /\ owner = [s \in Stream |-> [b \in Block |-> "nobody"]]

-----------------------------------------------------------------------------
(* The caller.                                                             *)

CallerGoes(from, to) == caller = from /\ caller' = to

Setup ==
    /\ CallerGoes("new", "ready")
    /\ player' = "created" /\ bPlayerSetup' = TRUE
    /\ UNCHANGED <<exitFlag, exitSem, receiver, rtpQueue, tppQueue, ref, parser, demux, filters>>

Start ==
    /\ CallerGoes("ready", "running")
    /\ sink' = "connecting"
    /\ demux' = [demux EXCEPT !.pc = "search"]
    /\ UNCHANGED <<exitFlag, exitSem, bPlayerSetup, player, sinkSet, fed,
                   rtpQueue, tppQueue, ref, parser, filters>>

\* Stop begins: the flag is set, the semaphore waited for.
Stop ==
    /\ CallerGoes("running", "wait")
    /\ exitFlag' = TRUE
    /\ UNCHANGED <<exitSem, bPlayerSetup, player, receiver, rtpQueue, tppQueue,
                   ref, parser, demux, filters>>

\* The semaphore has been posted, or 200 ms have passed.
WaitEnds ==
    /\ CallerGoes("wait", "stopSink")
    /\ exitSem' \in {FALSE, exitSem}
    /\ UNCHANGED <<exitFlag, bPlayerSetup, player, receiver, rtpQueue, tppQueue,
                   ref, parser, demux, filters>>

\* A receiver that has not got as far as to set sp.sink is not stopped.
StopSink ==
    /\ CallerGoes("stopSink", "join")
    /\ sinkSet' = FALSE
    /\ sink' = IF sinkSet THEN "gone" ELSE sink
    /\ UNCHANGED <<exitFlag, exitSem, bPlayerSetup, player, fed, rtpQueue, tppQueue,
                   ref, parser, demux, filters>>

\* Mutant: the demux thread is not waited for.
JoinSinkOnly ==
    /\ CallerGoes("join", "player")
    /\ sink = "gone"
    /\ UNCHANGED <<exitFlag, exitSem, bPlayerSetup, player, receiver, rtpQueue, tppQueue,
                   ref, parser, demux, filters>>

Join ==
    /\ CallerGoes("join", "player")
    /\ sink = "gone" /\ demux.pc = "gone"
    /\ UNCHANGED <<exitFlag, exitSem, bPlayerSetup, player, receiver, rtpQueue, tppQueue,
                   ref, parser, demux, filters>>

DestroyPlayer ==
    /\ CallerGoes("player", "tpp")
    /\ player' = "destroyed"
    /\ UNCHANGED <<exitFlag, exitSem, bPlayerSetup, receiver, rtpQueue, tppQueue,
                   ref, parser, demux, filters>>

-----------------------------------------------------------------------------
(* Reference counts and the search for the program.                        *)

\* Dropping a reference to a buffer that has been freed stays unnoticed here.
Minus(n, k) == IF n >= k THEN n - k ELSE 0

\* The references that the parser holds to buffer b.
KeptRefs(b) == Cardinality({p \in Pid : b \in kept[p]})

TppDestroy ==
    /\ CallerGoes("tpp", "drain")
    /\ tpp' = FALSE
    /\ kept' = [p \in Pid |-> {}]
    /\ ref' = [b \in Buf |-> Minus(ref[b], KeptRefs(b))]
    /\ UNCHANGED <<exitFlag, exitSem, bPlayerSetup, player, receiver, rtpQueue,
                   tppQueue, demux, filters>>

\* TSBufferDestroy of each buffer that is still in a queue.
Drain ==
    /\ caller = "drain"
    /\ IF tppQueue # <<>>
         THEN /\ ref' = [ref EXCEPT ![Head(tppQueue)] = Minus(@, 1)]
              /\ tppQueue' = Tail(tppQueue)
              /\ UNCHANGED <<rtpQueue, bPlayerSetup, caller>>
       ELSE IF rtpQueue # <<>>
         THEN /\ ref' = [ref EXCEPT ![Head(rtpQueue).buf] = Minus(@, 1)]
              /\ rtpQueue' = Tail(rtpQueue)
              /\ UNCHANGED <<tppQueue, bPlayerSetup, caller>>
         ELSE /\ bPlayerSetup' = FALSE /\ caller' = "stopped"
              /\ UNCHANGED <<rtpQueue, tppQueue, ref>>
    /\ UNCHANGED <<exitFlag, exitSem, player, receiver, parser, demux, filters>>

-----------------------------------------------------------------------------
(* The receiver: its connection, its end and the datagrams it feeds.       *)

SinkConnects ==
    /\ sink = "connecting"
    /\ sink' = "streaming" /\ sinkSet' = TRUE
    /\ UNCHANGED <<control, fed, rtpQueue, tppQueue, ref, parser, demux, filters>>

\* The connection fails or the peer ends it; sp.sink stays.
SinkEnds ==
    /\ sink \in {"connecting", "streaming"}
    /\ sink' = "gone"
    /\ UNCHANGED <<control, sinkSet, fed, rtpQueue, tppQueue, ref, parser, demux, filters>>

StreamFeedData(pids) ==
    /\ sink = "streaming" /\ fed < MaxFed
    /\ fed' = fed + 1
    /\ ref' = [ref EXCEPT ![fed + 1] = 1]
    /\ rtpQueue' = Append(rtpQueue, [buf |-> fed + 1, pids |-> pids])
    /\ UNCHANGED <<control, sink, sinkSet, tppQueue, parser, demux, filters>>

-----------------------------------------------------------------------------
(* The demux thread.                                                       *)

DemuxGoes(from, to) == demux.pc = from /\ demux' = [demux EXCEPT !.pc = to]

\* The loop that looks for the program checks the flag, then the queue.
SearchCheck ==
    /\ DemuxGoes("search", IF exitFlag THEN "gone" ELSE "pop")
    /\ tpp' = TRUE
    /\ UNCHANGED <<control, receiver, rtpQueue, tppQueue, ref, kept, filters>>

SearchEmpty ==
    /\ rtpQueue = <<>>
    /\ DemuxGoes("pop", "search")
    /\ UNCHANGED <<control, receiver, rtpQueue, tppQueue, ref, parser, filters>>

\* deliver2Pool keeps the packets of a pid while it has fewer than Keep.
Kept(d, p) ==
    IF p \in d.pids /\ Cardinality(kept[p]) < Keep THEN kept[p] \cup {d.buf} ELSE kept[p]

\* Mutant: the reference that came with the buffer is not given back.
RefsHeld(d) == ref[d.buf] + Cardinality({p \in Pid : Kept(d, p) # kept[p]})

\* One reference for each packet kept; the one that came with it is given back.
RefsAfter(d) == ref[d.buf] + Cardinality({p \in Pid : Kept(d, p) # kept[p]}) - 1

\* doParse: a kept PAT, and then a kept PMT, are all that it takes.
Found(k) == k["pat"] # {} /\ k["pmt"] # {}

\* Mutant: a datagram of the search is handled out of its turn.
PushedInFront(b) == <<b>> \o tppQueue

\* CdxQueuePush of a datagram of the search.
PushedBehind(b) == Append(tppQueue, b)

TppFill ==
    /\ rtpQueue # <<>>
    /\ LET d == Head(rtpQueue) IN
        /\ rtpQueue' = Tail(rtpQueue)
        /\ tppQueue' = PushedBehind(d.buf)
        /\ kept' = [p \in Pid |-> Kept(d, p)]
        /\ ref' = [ref EXCEPT ![d.buf] = RefsAfter(d)]
        /\ DemuxGoes("pop", IF Found(kept') THEN "waitSetup" ELSE "search")
    /\ UNCHANGED <<control, receiver, tpp, filters>>

\* PlayerInitAVandStart; the thread ends when it fails.
PlayerInitAVandStart ==
    /\ bPlayerSetup
    /\ \/ DemuxGoes("waitSetup", "replay") /\ player' = "started"
       \/ DemuxGoes("waitSetup", "gone") /\ UNCHANGED player
    /\ UNCHANGED <<caller, exitFlag, exitSem, bPlayerSetup, receiver, rtpQueue,
                   tppQueue, ref, parser, filters>>

\* The datagrams of the search are handled, whatever becomes of the flag.
Replay ==
    /\ demux.pc = "replay"
    /\ IF tppQueue = <<>>
         THEN demux' = [demux EXCEPT !.pc = "feed"] /\ UNCHANGED tppQueue
         ELSE /\ demux' = [demux EXCEPT !.pc = "handle", !.back = "replay",
                                        !.cur = Head(tppQueue), !.left = MaxPieces]
              /\ tppQueue' = Tail(tppQueue)
    /\ UNCHANGED <<control, receiver, rtpQueue, ref, parser, filters>>

\* Mutant: only an empty queue makes the thread look at the flag.
FeedNoCheck ==
    /\ demux.pc = "feed"
    /\ demux' = [demux EXCEPT !.pc = "take"]
    /\ UNCHANGED <<control, receiver, rtpQueue, tppQueue, ref, parser, filters>>

\* The main loop: the flag, then the queue.
FeedCheck ==
    /\ DemuxGoes("feed", IF exitFlag THEN "gone" ELSE "take")
    /\ exitSem' = (exitSem \/ exitFlag)
    /\ UNCHANGED <<caller, exitFlag, bPlayerSetup, player, receiver, rtpQueue,
                   tppQueue, ref, parser, filters>>

\* The wait for a signal has a time limit, so a signal that is missed or comes
\* for nothing does no more than the limit.
TakeNothing ==
    /\ rtpQueue = <<>>
    /\ DemuxGoes("take", "feed")
    /\ UNCHANGED <<control, receiver, rtpQueue, tppQueue, ref, parser, filters>>

Take ==
    /\ demux.pc = "take" /\ rtpQueue # <<>>
    /\ demux' = [demux EXCEPT !.pc = "handle", !.back = "feed",
                              !.cur = Head(rtpQueue).buf, !.left = MaxPieces]
    /\ rtpQueue' = Tail(rtpQueue)
    /\ UNCHANGED <<control, receiver, tppQueue, ref, parser, filters>>

\* ts_demux_handle_packets is done; only the main loop gives the buffer back.
Handled ==
    /\ demux.pc = "handle"
    /\ demux' = [demux EXCEPT !.pc = demux.back, !.cur = None, !.left = 0]
    /\ ref' = IF demux.back = "feed" THEN [ref EXCEPT ![demux.cur] = Minus(@, 1)] ELSE ref
    /\ UNCHANGED <<control, receiver, rtpQueue, tppQueue, parser, filters>>

-----------------------------------------------------------------------------
(* push_es_data: a piece of a stream goes into the block being filled, or  *)
(* a block is requested for it.                                            *)

Lent(s) == mdBuf[s] # None /\ owner[s][mdBuf[s]] = "demux"

\* The player takes the block over; one that it has not lent it refuses.
Submit(s) ==
    /\ owner' = IF Lent(s) THEN [owner EXCEPT ![s][mdBuf[s]] = "player"] ELSE owner
    /\ filling' = [filling EXCEPT ![s] = FALSE]

\* Mutant: the block that has been submitted goes on being filled.
PushOnto(s) ==
    /\ demux.pc = "handle" /\ demux.left > 0
    /\ demux' = [demux EXCEPT !.pc = IF filling[s] THEN "fill" ELSE "request", !.stream = s]
    /\ \/ UNCHANGED owner
       \/ filling[s] /\ Lent(s) /\ owner' = [owner EXCEPT ![s][mdBuf[s]] = "player"]
    /\ UNCHANGED <<control, receiver, rtpQueue, tppQueue, ref, parser, mdBuf, filling>>

\* The first piece of a frame submits what the last frame has left.
Push(s) ==
    /\ demux.pc = "handle" /\ demux.left > 0
    /\ \/ UNCHANGED <<filling, owner>>
       \/ filling[s] /\ Submit(s)
    /\ demux' = [demux EXCEPT !.pc = IF filling'[s] THEN "fill" ELSE "request", !.stream = s]
    /\ UNCHANGED <<control, receiver, rtpQueue, tppQueue, ref, parser, mdBuf>>

RequestGranted ==
    /\ DemuxGoes("request", "fill")
    /\ \E b \in Block :
          /\ owner[demux.stream][b] = "nobody"
          /\ owner' = [owner EXCEPT ![demux.stream][b] = "demux"]
          /\ mdBuf' = [mdBuf EXCEPT ![demux.stream] = b]
    /\ UNCHANGED <<control, receiver, rtpQueue, tppQueue, ref, parser, filling>>

\* The player refuses while it has data of the stream buffered.
Refused(s) == \E b \in Block : owner[s][b] = "player"

\* A refused request is repeated, or given up when the session is to end: the
\* callback then reports success and leaves md_buf as it was.
RequestGivenUp ==
    /\ demux.pc = "request" /\ Refused(demux.stream) /\ exitFlag
    /\ DemuxGoes("request", "fill")
    /\ UNCHANGED <<control, receiver, rtpQueue, tppQueue, ref, parser, filters>>

\* Mutant: a piece of no bytes asks for another block.
FillPast ==
    /\ demux.pc = "fill"
    /\ LET s == demux.stream
           Then(pc) == demux' = [demux EXCEPT !.pc = pc, !.left = @ - 1]
       IN \/ filling' = [filling EXCEPT ![s] = TRUE] /\ Then("handle") /\ UNCHANGED owner
          \/ Submit(s) /\ Then("handle")
          \/ Submit(s) /\ Then("request")
    /\ UNCHANGED <<control, receiver, rtpQueue, tppQueue, ref, parser, mdBuf>>

\* The piece fits; or it completes the frame or fills the block, which is
\* submitted, and what is left of it asks for another one.
Fill ==
    /\ demux.pc = "fill"
    /\ LET s == demux.stream
           Then(pc) == demux' = [demux EXCEPT !.pc = pc, !.left = @ - 1]
       IN \/ filling' = [filling EXCEPT ![s] = TRUE] /\ Then("handle") /\ UNCHANGED owner
          \/ Submit(s) /\ Then("handle")
          \/ demux.left > 1 /\ Submit(s) /\ Then("request")
    /\ UNCHANGED <<control, receiver, rtpQueue, tppQueue, ref, parser, mdBuf>>

\* The player has used up a block.
PlayerFrees(s, b) ==
    /\ owner[s][b] = "player"
    /\ owner' = [owner EXCEPT ![s][b] = "nobody"]
    /\ UNCHANGED <<control, receiver, rtpQueue, tppQueue, ref, parser, demux, mdBuf, filling>>

-----------------------------------------------------------------------------
CallerNext ==
    \/ Setup \/ Start \/ Stop
    \/ WaitEnds \/ StopSink \/ Join \/ DestroyPlayer \/ TppDestroy \/ Drain

SinkNext ==
    SinkConnects \/ SinkEnds \/ \E pids \in Contents : StreamFeedData(pids)

DemuxNext ==
    \/ SearchCheck \/ SearchEmpty \/ TppFill \/ PlayerInitAVandStart
    \/ Replay \/ FeedCheck \/ TakeNothing \/ Take \/ Handled
    \/ \E s \in Stream : Push(s)
    \/ RequestGranted \/ RequestGivenUp \/ Fill

Next ==
    \/ CallerNext \/ SinkNext \/ DemuxNext
    \/ \E s \in Stream, b \in Block : PlayerFrees(s, b)
    \/ caller = "stopped" /\ UNCHANGED vars

Spec == Init /\ [][Next]_vars

\* Threads run once started.  A receiver that is not stopped ends when the peer
\* goes.  The player need not consume anything, and nobody has to call Stop.
FairSpec ==
    /\ Spec
    /\ WF_vars(CallerNext /\ caller \notin {"new", "ready", "running"})
    /\ WF_vars(SinkEnds) /\ WF_vars(DemuxNext)
-----------------------------------------------------------------------------
(* Properties.                                                             *)

QueuesTyped ==
    /\ fed \in 0 .. MaxFed
    /\ rtpQueue \in Seq([buf : Buf, pids : SUBSET Pid]) /\ tppQueue \in Seq(Buf)

DemuxTyped ==
    /\ demux \in [pc : {"off", "search", "pop", "waitSetup", "replay", "feed", "take",
                         "handle", "request", "fill", "gone"},
                   back : {"replay", "feed"}, cur : Buf \cup {None},
                   stream : Stream \cup {None}, left : 0 .. MaxPieces]
    /\ mdBuf \in [Stream -> Block \cup {None}] /\ filling \in [Stream -> BOOLEAN]
    /\ owner \in [Stream -> [Block -> {"nobody", "demux", "player"}]]

TypeOK ==
    /\ caller \in {"new", "ready", "running", "wait", "stopSink", "join", "player",
                   "tpp", "drain", "stopped"}
    /\ {exitFlag, exitSem, bPlayerSetup, sinkSet, tpp} \subseteq BOOLEAN
    /\ player \in {"none", "created", "started", "destroyed"}
    /\ sink \in {"off", "connecting", "streaming", "gone"}
    /\ ref \in [Buf -> Nat] /\ kept \in [Pid -> SUBSET Buf]
    /\ QueuesTyped /\ DemuxTyped

Handling == demux.pc \in {"handle", "request", "fill"}
InRtpQueue == {rtpQueue[i].buf : i \in DOMAIN rtpQueue}

\* A buffer lives as long as someone counts on it: the queue of received
\* datagrams, the parser or the main loop.  Nothing is freed early, nothing
\* kept for ever, with one exception: nobody counts for the second queue.
ReferencesCounted ==
    caller # "drain" =>
        \A b \in Buf :
            ref[b] = KeptRefs(b)
                     + (IF b \in InRtpQueue THEN 1 ELSE 0)
                     + (IF Handling /\ demux.back = "feed" /\ demux.cur = b THEN 1 ELSE 0)

\* Stop leaves no buffer behind, wherever it met the demux thread.
NothingLeft == caller = "stopped" => \A b \in Buf : ref[b] = 0

\* The counts are right while the session runs and gone when it has stopped.
BuffersAccounted == ReferencesCounted /\ NothingLeft

\* What is being handled, what has been put by and what has been received
\* are consecutive datagrams: none is lost, handled twice or out of turn on
\* its way through two queues.
NextInTurn ==
    caller # "drain" =>
        LET waiting == (IF Handling THEN <<demux.cur>> ELSE <<>>) \o tppQueue
                       \o [i \in DOMAIN rtpQueue |-> rtpQueue[i].buf]
        IN \A i \in DOMAIN waiting : waiting[i] = fed - Len(waiting) + i

\* The demux thread calls the player and the parser only while they exist, and
\* nothing is received into a queue that has been emptied.
UsedWhileAlive ==
    /\ demux.pc \notin {"off", "gone"} => player \in {"created", "started"}
    /\ Handling => player = "started" /\ tpp
    /\ caller = "drain" => ~tpp /\ sink = "gone"

\* Until the session is told to end, only a block that the player has lent is
\* filled.
FilledBlockLent ==
    /\ demux.pc = "fill" /\ ~exitFlag => Lent(demux.stream)
    /\ \A s \in Stream : filling[s] /\ ~exitFlag => Lent(s)

-----------------------------------------------------------------------------
(* The inductive invariant behind the two properties above.                *)

\* Where the caller is once it has waited for the two threads.
Joined == {"player", "tpp", "drain", "stopped"}

\* How far the caller is tells what the other threads may be doing.
ThreadsInStep ==
    /\ caller \in {"new", "ready"} => demux.pc = "off"
    /\ caller = "ready" => player = "created"
    /\ caller \notin {"new", "ready"} \cup Joined =>
           demux.pc # "off" /\ player \in {"created", "started"}
    /\ caller \in Joined => demux.pc = "gone" /\ sink = "gone"
    /\ caller \in {"drain", "stopped"} => ~tpp
    /\ caller \in {"new", "ready", "running"} => ~exitFlag

\* What the demux thread has by the time it gets to a place in its code.
DemuxHas ==
    /\ demux.pc \in {"replay", "feed", "take", "handle", "request", "fill"} =>
           player = "started" /\ tpp
    /\ demux.pc \in {"pop", "waitSetup"} => tpp
    /\ demux.pc \in {"request", "fill"} => demux.stream \in Stream /\ demux.left > 0
    /\ demux.pc = "request" => ~filling[demux.stream]

IInv == QueuesTyped /\ DemuxTyped /\ ThreadsInStep /\ DemuxHas /\ FilledBlockLent

(* The inductive invariant behind NextInTurn.                              *)

\* Counted back from the last datagram received: the queue of the receiver,
\* before it that of the search, before that what is being handled.
CountedBack ==
    LET first == fed - Len(rtpQueue)
        found == first - Len(tppQueue)
    IN  /\ Handling => demux.cur = found
        /\ \A i \in 1 .. Len(tppQueue) : tppQueue[i] = found + i
        /\ \A i \in 1 .. Len(rtpQueue) : rtpQueue[i].buf = first + i

\* The main loop begins when the queue of the search is empty.
SearchReplayed ==
    (demux.pc \in {"feed", "take"} \/ (Handling /\ demux.back = "feed")) => tppQueue = <<>>

InTurn == (caller # "drain" => CountedBack) /\ SearchReplayed

-----------------------------------------------------------------------------
\* TSBufferDestroy asserts that its caller is the last to hold the buffer.
DestroyedByLastHolder ==
    caller = "drain" /\ tppQueue # <<>> => ref[Head(tppQueue)] = 1

\* Stop returns, wherever the other threads are and whether or not the player
\* goes on consuming.
StopReturns == caller = "wait" ~> caller = "stopped"
=============================================================================
