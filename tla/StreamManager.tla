--------------------------- MODULE StreamManager ---------------------------
(***************************************************************************)
(* The elementary-stream buffer of the Miracast player                     *)
(* (AWCast/src/wfd_player/playback/streamManager.c): a ring of frames that *)
(* the demux thread fills and the audio decoder thread drains.             *)
(*                                                                         *)
(* The demux thread borrows a block (RequestBuffer), fills it and submits  *)
(* it (AddStream); the decoder looks at the oldest frame (GetFrameInfo),   *)
(* takes it (RequestStream) and copies it AFTER the manager's mutex is     *)
(* released.  A slot keeps its block until the writer comes round again;   *)
(* MIN_PREVERSE_RATIO keeps the writer a few slots behind the reader.      *)
(*                                                                         *)
(* Every operation below is one critical section of p->mutex.  The part of *)
(* RequestBuffer that runs after its early unlock touches only pMem and    *)
(* nMemSize, which every caller guards with streamManagerMutex, so it is   *)
(* part of the same step; the second unlock is outside this module.        *)
(***************************************************************************)
EXTENDS Integers

CONSTANTS
    MaxFrameNum,    \* nMaxFrameNum: slots of the ring
    PreverseDiv,    \* 1 / MIN_PREVERSE_RATIO: 10 in the build
    MaxBufferSize,  \* nMaxBufferSize, in bytes
    Mem,            \* addresses malloc can return
    NULL,
    Malloc(_),      \* Malloc(used): what malloc may return when used is taken
    RequireSizes,   \* the sizes the demux thread asks for
    PtsValues,      \* presentation times of submitted frames
    SeekTimes,      \* times passed to Rewind ({}: never called)
    CanCrash        \* whether the decoder can report a fatal error

Slots == 0 .. MaxFrameNum - 1
PreserveFrameNum == MaxFrameNum \div PreverseDiv

ASSUME RingAssumption ==
    /\ MaxFrameNum \in Nat \ {0}
    /\ PreverseDiv \in Nat \ {0}
    /\ 1 <= PreserveFrameNum
    /\ MaxFrameNum >= 2
    /\ MaxBufferSize \in Nat

ASSUME HeapAssumption ==
    /\ NULL \notin Mem
    /\ \A used \in SUBSET Mem : Malloc(used) \subseteq Mem \ used

ASSUME InputAssumption ==
    /\ RequireSizes \subseteq Nat \ {0}
    /\ PtsValues \subseteq Int
    /\ SeekTimes \subseteq Int
    /\ CanCrash \in BOOLEAN

VARIABLES
    pFrames,        \* streamFifo.pFrames
    nReadPos,       \* streamFifo.nReadPos
    nWritePos,      \* streamFifo.nWritePos
    nValidDataSize, \* bytes not yet taken
    pMem,           \* the block lent to the demux thread
    nMemSize,       \* its size
    lostBaby,       \* a lent block that a reset gave up on
    heap,           \* blocks malloc'ed and not freed
    badFree,        \* TRUE once free() got a block that was not allocated
    demux,          \* demux thread: pc, the block it fills, its size
    decoder         \* decoder thread: pc, the slot it works on, the block there

smVars == <<pFrames, nReadPos, nWritePos, nValidDataSize>>
memVars == <<pMem, nMemSize, lostBaby, heap, badFree>>
vars == <<smVars, memVars, demux, decoder>>

Block == Mem \cup {NULL}
EmptyFrame == [pData |-> NULL, nLength |-> 0, nPts |-> 0]

-----------------------------------------------------------------------------
(* The ring.                                                               *)

validFrameNum == (nWritePos - nReadPos + MaxFrameNum) % MaxFrameNum

\* Mutant: no slot is preserved.
NeverTooSmall == FALSE

invalidFrameNumTooSmall == MaxFrameNum - validFrameNum <= PreserveFrameNum

Succ(i) == (i + 1) % MaxFrameNum

\* What the frames from a slot up to the writer add up to.
SizeFrom[i \in Slots] ==
    IF i = nWritePos THEN 0 ELSE pFrames[i].nLength + SizeFrom[Succ(i)]

\* Both early returns of RequestBuffer.
Room == ~invalidFrameNumTooSmall /\ nValidDataSize < MaxBufferSize

\* free(b); free(NULL) does nothing.
Free(used, b) == used \ {b}
BadFree(used, b) == b # NULL /\ b \notin used

-----------------------------------------------------------------------------
(* The demux thread: WFD_AudioDecCompRequestStreamBuffer and               *)
(* WFD_AudioDecCompSubmitStreamData.                                       *)

\* The threads when they hold no block and work on no slot.
DemuxAt(pc) == [pc |-> pc, buf |-> NULL, size |-> 0]
DecoderAt(pc) == [pc |-> pc, slot |-> 0, data |-> NULL]

Init ==
    /\ pFrames = [i \in Slots |-> EmptyFrame]
    /\ nReadPos = 0 /\ nWritePos = 0 /\ nValidDataSize = 0
    /\ pMem = NULL /\ nMemSize = 0 /\ lostBaby = NULL
    /\ heap = {} /\ badFree = FALSE
    /\ demux = DemuxAt("idle")
    /\ decoder = DecoderAt("idle")

Fill(buf, size) == demux' = [pc |-> "fill", buf |-> buf, size |-> size]

DecoderDown == decoder.pc \in {"crashed", "resetting"}
HoldsManager == demux.pc \in {"flush", "again"}

\* A failed request returns to the caller, unless the decoder was down when
\* the call began: then the oldest frame is thrown away and it tries again.
RequestFailed ==
    demux' = DemuxAt(IF HoldsManager \/ DecoderDown THEN "flush" ELSE "idle")

\* The block was lent before and not paid back: the same size gets it again.
ReborrowBuffer(size) ==
    /\ pMem # NULL /\ nMemSize = size
    /\ Fill(pMem, size)
    /\ UNCHANGED memVars

\* Otherwise what was lent is freed and a block of the wanted size allocated.
BorrowBuffer(size) ==
    /\ pMem = NULL \/ nMemSize # size
    /\ badFree' = (badFree \/ BadFree(heap, pMem))
    /\ \/ \E b \in Malloc(Free(heap, pMem)) :
              /\ pMem' = b /\ nMemSize' = size
              /\ heap' = Free(heap, pMem) \cup {b}
              /\ Fill(b, size)
       \/ /\ pMem' = NULL
          /\ nMemSize' = (IF pMem = NULL THEN nMemSize ELSE 0)
          /\ heap' = Free(heap, pMem)
          /\ RequestFailed
    /\ UNCHANGED lostBaby

RequestBuffer(size) ==
    /\ demux.pc \in {"idle", "again"}
    /\ IF Room
         THEN ReborrowBuffer(size) \/ BorrowBuffer(size)
         ELSE RequestFailed /\ UNCHANGED memVars
    /\ UNCHANGED <<smVars, decoder>>

\* Mutant: the frame taken stays counted.
TakeUncounted ==
    /\ nReadPos' = Succ(nReadPos)
    /\ UNCHANGED <<pFrames, nWritePos, nValidDataSize>>

TakeOldest ==
    /\ nReadPos' = Succ(nReadPos)
    /\ nValidDataSize' = nValidDataSize - pFrames[nReadPos].nLength
    /\ UNCHANGED <<pFrames, nWritePos>>

\* Mutant: the request is repeated without making room for it.
RetryWithoutFlush ==
    /\ demux.pc = "flush"
    /\ demux' = DemuxAt(IF validFrameNum > 0 THEN "again" ELSE "idle")
    /\ UNCHANGED <<smVars, memVars, decoder>>

FlushOldest ==
    /\ demux.pc = "flush"
    /\ IF validFrameNum > 0
         THEN TakeOldest /\ demux' = DemuxAt("again")
         ELSE UNCHANGED smVars /\ demux' = DemuxAt("idle")
    /\ UNCHANGED <<memVars, decoder>>

Submitted == demux' = DemuxAt("idle")

\* The frame goes in, and the slot's previous block is freed.
StoreFrame(len, pts) ==
    /\ pFrames' = [pFrames EXCEPT ![nWritePos] =
                     [pData |-> demux.buf, nLength |-> len, nPts |-> pts]]
    /\ nWritePos' = Succ(nWritePos)
    /\ nValidDataSize' = nValidDataSize + len
    /\ heap' = Free(heap, pFrames[nWritePos].pData)
    /\ badFree' = (badFree \/ BadFree(heap, pFrames[nWritePos].pData))
    /\ pMem' = NULL /\ nMemSize' = 0
    /\ UNCHANGED <<nReadPos, lostBaby>>

Matches(len) == pMem = demux.buf /\ nMemSize >= len

\* A reset disowned the block while it was being filled.
FreeLostBaby ==
    /\ heap' = (IF lostBaby = demux.buf THEN Free(heap, demux.buf) ELSE heap)
    /\ badFree' = (badFree \/ (lostBaby = demux.buf /\ BadFree(heap, demux.buf)))
    /\ UNCHANGED <<smVars, pMem, nMemSize, lostBaby>>

AddStream(len, pts) ==
    /\ demux.pc = "fill" /\ len <= demux.size
    /\ \/ invalidFrameNumTooSmall /\ UNCHANGED <<smVars, memVars>>
       \/ ~invalidFrameNumTooSmall /\ Matches(len) /\ StoreFrame(len, pts)
       \/ ~invalidFrameNumTooSmall /\ ~Matches(len) /\ FreeLostBaby
    /\ Submitted
    /\ UNCHANGED decoder

\* WFD_PlayerSubmitStreamData gives up when the player has been stopped: the
\* filled block is not handed over and stays lent.
SkipSubmit ==
    /\ demux.pc = "fill"
    /\ Submitted
    /\ UNCHANGED <<smVars, memVars, decoder>>

-----------------------------------------------------------------------------
(* The decoder thread: the stream part of doDecode, and handleReset.       *)

\* Mutant: the index is not compared with the number of valid frames.
GetAnyFrameInfo ==
    /\ decoder.pc = "idle"
    /\ decoder' = [pc |-> "peek", slot |-> nReadPos, data |-> pFrames[nReadPos].pData]
    /\ UNCHANGED <<smVars, memVars, demux>>

GetFrameInfo ==
    /\ decoder.pc = "idle" /\ validFrameNum > 0
    /\ decoder' = [pc |-> "peek", slot |-> nReadPos, data |-> pFrames[nReadPos].pData]
    /\ UNCHANGED <<smVars, memVars, demux>>

\* The decoder's own buffer has no room for the frame.
LeaveFrame ==
    /\ decoder.pc = "peek"
    /\ decoder' = DecoderAt("idle")
    /\ UNCHANGED <<smVars, memVars, demux>>

\* Mutant: the frame is looked up after the reader has moved.
RequestNextStream ==
    /\ decoder.pc = "peek" /\ validFrameNum > 0
    /\ decoder' = [pc |-> "copy", slot |-> Succ(nReadPos),
                   data |-> pFrames[Succ(nReadPos)].pData]
    /\ TakeOldest
    /\ UNCHANGED <<memVars, demux>>

RequestStream ==
    /\ decoder.pc = "peek" /\ validFrameNum > 0
    /\ decoder' = [pc |-> "copy", slot |-> nReadPos, data |-> pFrames[nReadPos].pData]
    /\ TakeOldest
    /\ UNCHANGED <<memVars, demux>>

\* With no frame left RequestStream returns NULL, which doDecode dereferences.
RequestNothing ==
    /\ decoder.pc = "peek" /\ validFrameNum = 0
    /\ decoder' = DecoderAt("dead")
    /\ UNCHANGED <<smVars, memVars, demux>>

\* memcpy out of the slot's block is over.
CopyDone ==
    /\ decoder.pc = "copy"
    /\ decoder' = DecoderAt("idle")
    /\ UNCHANGED <<smVars, memVars, demux>>

Pred(i) == IF i = 0 THEN MaxFrameNum - 1 ELSE i - 1

\* Gives the frame just taken back, which the manager refuses when no other
\* frame is readable; any frame but the last one taken is an abort().
ReturnStream ==
    /\ decoder.pc = "copy"
    /\ \/ /\ validFrameNum = 0
          /\ decoder' = DecoderAt("idle") /\ UNCHANGED smVars
       \/ /\ validFrameNum > 0 /\ decoder.slot = Pred(nReadPos)
          /\ nReadPos' = Pred(nReadPos)
          /\ nValidDataSize' = nValidDataSize + pFrames[decoder.slot].nLength
          /\ decoder' = DecoderAt("idle") /\ UNCHANGED <<pFrames, nWritePos>>
       \/ /\ validFrameNum > 0 /\ decoder.slot # Pred(nReadPos)
          /\ decoder' = DecoderAt("dead") /\ UNCHANGED smVars
    /\ UNCHANGED <<memVars, demux>>

Abs(n) == IF n < 0 THEN -n ELSE n
PtsDiff(t, i) == Abs(t - pFrames[i].nPts)

\* The first slot whose time is nearest to t, among all of them.
IsClosest(find, t) ==
    /\ \A j \in Slots : PtsDiff(t, find) <= PtsDiff(t, j)
    /\ \A j \in 0 .. find - 1 : PtsDiff(t, find) < PtsDiff(t, j)

\* doDecode after a change of audio stream, under streamManagerMutex.
Rewind(t) ==
    /\ decoder.pc = "idle" /\ ~HoldsManager
    /\ \E find \in Slots :
           /\ IsClosest(find, t)
           /\ find # nReadPos /\ pFrames[find].pData # NULL
           /\ nReadPos' = find
           /\ nValidDataSize' = SizeFrom[find]
    /\ UNCHANGED <<pFrames, nWritePos, memVars, demux, decoder>>

\* bCrashFlag = 1: the decode messages stop.
Crash ==
    /\ CanCrash /\ decoder.pc = "idle"
    /\ decoder' = DecoderAt("crashed")
    /\ UNCHANGED <<smVars, memVars, demux>>

\* Two slots with one block: freeing all slots would free it twice.
SharedBlock ==
    \E i, j \in Slots :
        i # j /\ pFrames[i].pData = pFrames[j].pData /\ pFrames[i].pData # NULL

\* Mutant: the lent block is freed with the others (line 191 of the source).
ResetFreesLent ==
    /\ decoder.pc \in {"idle", "crashed"} /\ ~HoldsManager
    /\ heap' = heap \ ({pFrames[i].pData : i \in Slots} \cup {pMem})
    /\ pFrames' = [i \in Slots |-> EmptyFrame]
    /\ nReadPos' = 0 /\ nWritePos' = 0 /\ nValidDataSize' = 0
    /\ pMem' = NULL /\ nMemSize' = 0
    /\ decoder' = DecoderAt(IF decoder.pc = "idle" THEN "idle" ELSE "resetting")
    /\ UNCHANGED <<demux, lostBaby, badFree>>

\* WFD_StreamManagerReset, under streamManagerMutex.  A block that is still
\* lent is only remembered: its borrower may be writing to it.
Reset ==
    /\ decoder.pc \in {"idle", "crashed"} /\ ~HoldsManager
    /\ LET datas == {pFrames[i].pData : i \in Slots}
       IN  /\ heap' = heap \ datas
           /\ badFree' = (badFree \/ (\E b \in datas : BadFree(heap, b)) \/ SharedBlock)
    /\ pFrames' = [i \in Slots |-> EmptyFrame]
    /\ nReadPos' = 0 /\ nWritePos' = 0 /\ nValidDataSize' = 0
    /\ IF pMem = NULL
         THEN UNCHANGED <<pMem, nMemSize, lostBaby>>
         ELSE lostBaby' = pMem /\ pMem' = NULL /\ nMemSize' = 0
    /\ decoder' = DecoderAt(IF decoder.pc = "idle" THEN "idle" ELSE "resetting")
    /\ UNCHANGED demux

\* handleReset clears bCrashFlag after it has released the mutex.
ResetDone ==
    /\ decoder.pc = "resetting"
    /\ decoder' = DecoderAt("idle")
    /\ UNCHANGED <<smVars, memVars, demux>>

-----------------------------------------------------------------------------
DemuxNext ==
    \/ \E size \in RequireSizes : RequestBuffer(size)
    \/ FlushOldest
    \/ \E len \in 1 .. demux.size, pts \in PtsValues : AddStream(len, pts)
    \/ SkipSubmit

DecoderNext ==
    \/ GetFrameInfo \/ LeaveFrame \/ RequestStream \/ RequestNothing \/ CopyDone \/ ReturnStream
    \/ \E t \in SeekTimes : Rewind(t)
    \/ Crash \/ Reset \/ ResetDone

Next == DemuxNext \/ DecoderNext

Spec == Init /\ [][Next]_vars

\* The decoder thread runs, the decoder library goes on consuming, and the
\* demux thread retries its request.
Fairness ==
    /\ WF_vars(GetFrameInfo) /\ SF_vars(RequestStream) /\ SF_vars(CopyDone)
    /\ WF_vars(\E size \in RequireSizes : RequestBuffer(size))
    /\ WF_vars(FlushOldest)

FairSpec == Spec /\ Fairness

-----------------------------------------------------------------------------
TypeOK ==
    /\ pFrames \in [Slots -> [pData : Block, nLength : Nat, nPts : Int]]
    /\ nReadPos \in Slots /\ nWritePos \in Slots
    /\ pMem \in Block /\ nMemSize \in Nat /\ lostBaby \in Block
    /\ heap \subseteq Mem /\ badFree \in BOOLEAN
    /\ demux \in [pc : {"idle", "flush", "again", "fill"}, buf : Block, size : Nat]
    /\ decoder \in [pc : {"idle", "peek", "copy", "crashed", "resetting", "dead"},
                    slot : Slots, data : Block]

\* nValidDataSize, which decides whether more may be buffered, is what the
\* readable frames add up to, across wrap-around, give-back and rewind.
SizeExact == nValidDataSize = SizeFrom[nReadPos]

\* A block has one owner: it is in one slot or lent, and it is allocated.
OneOwner ==
    /\ ~SharedBlock
    /\ \A i \in Slots : pFrames[i].pData # NULL =>
           pFrames[i].pData \in heap /\ pFrames[i].pData # pMem
    /\ pMem # NULL => pMem \in heap

\* free() is only called on an allocated block, in particular when a reset
\* disowns the block that the demux thread then submits.
NoBadFree == ~badFree

\* The block the demux thread writes to is allocated and out of the decoder's
\* sight, even when a reset has come in between.
FilledBlockPrivate ==
    demux.pc = "fill" =>
        demux.buf \in heap /\ \A i \in Slots : pFrames[i].pData # demux.buf

\* Blocks pass between the threads, the slots and free() without being shared or
\* freed twice, over resets, crashes and submissions that come too late.  (One may
\* be lost: a block that is lent but not submitted is forgotten by the next reset.)
MemorySafety == OneOwner /\ NoBadFree /\ FilledBlockPrivate

\* While the decoder copies a frame without the mutex, its slot is not reused
\* and its block is not freed: what the preserved slots are for.
CopiedFrameIntact ==
    decoder.pc = "copy" =>
        decoder.data \in heap /\ pFrames[decoder.slot].pData = decoder.data

\* The frame whose length the decoder has reserved room for is the one that it
\* takes next.
PeekedFrameFirst ==
    decoder.pc = "peek" => validFrameNum > 0 /\ decoder.slot = nReadPos

\* The decoder finds the frame that it peeked at when it takes it, and keeps it
\* until it has copied it, holding no lock in between.
FrameStays == PeekedFrameFirst /\ CopiedFrameIntact

-----------------------------------------------------------------------------
(* The parts of the inductive invariant behind the four properties above.  *)

\* Until the writer has come round once, exactly the slots below it hold a
\* block; from then on all of them do.
SlotsFilledUpToWriter ==
    \/ \A i \in Slots : pFrames[i].pData # NULL
    \/ /\ \A i \in Slots : pFrames[i].pData # NULL <=> i < nWritePos
       /\ nReadPos <= nWritePos

\* The demux thread fills the lent block, or the one a reset disowned.
FilledBlockKnown ==
    IF demux.pc = "fill"
      THEN \/ pMem = demux.buf /\ nMemSize = demux.size
           \/ pMem = NULL /\ lostBaby = demux.buf
      ELSE demux = DemuxAt(demux.pc)

\* The slot being copied is never an empty one.
CopiedSlotFilled ==
    decoder.pc = "copy" => pFrames[decoder.slot].pData # NULL

\* Without a crash nobody but the decoder moves the reader, so the slot being
\* copied stays the one just behind it.
NoFlushWithoutCrash ==
    ~CanCrash =>
        /\ ~HoldsManager /\ decoder.pc \in {"idle", "peek", "copy"}
        /\ decoder.pc = "copy" => decoder.slot = Pred(nReadPos)
        /\ CopiedFrameIntact /\ PeekedFrameFirst

IInv ==
    /\ TypeOK /\ SlotsFilledUpToWriter
    /\ OneOwner /\ NoBadFree /\ FilledBlockPrivate /\ FilledBlockKnown
    /\ CopiedSlotFilled /\ NoFlushWithoutCrash

\* With two preserved slots the writer stays off the slot behind the reader as
\* long as the decoder may give it back; what is lent has a size that was asked
\* for.
CopiedSlotAhead ==
    /\ demux.pc = "fill" => demux.size \in RequireSizes
    /\ decoder.pc = "copy" => nWritePos # Pred(nReadPos)

-----------------------------------------------------------------------------
\* A submitted frame adds one readable frame: the ring never fills up to the
\* point where it looks empty.
SubmitIsReadable ==
    [][demux.pc = "fill" /\ demux'.pc = "idle" /\ nWritePos' # nWritePos
         => validFrameNum' = validFrameNum + 1]_vars

\* A demux thread that waits for room gets it, from the decoder or by
\* flushing, unless the process has died.
RoomReturns ==
    (demux.pc \in {"idle", "again", "flush"} /\ ~Room) ~> (Room \/ decoder.pc = "dead")

-----------------------------------------------------------------------------
(* The ring implements the FIFO.                                           *)

\* What the demux thread submits.
Frame == [pData   : Mem,
          nLength : UNION {1 .. size : size \in RequireSizes},
          nPts    : PtsValues]

\* The ring keeps a frame until the writer comes round to its slot: once all
\* slots are in use, the oldest one is in the slot that is written next.
WrappedRound == pFrames[nWritePos].pData # NULL
Oldest == IF WrappedRound THEN nWritePos ELSE 0
KeptNum == IF WrappedRound THEN MaxFrameNum ELSE nWritePos
KeptSlot(k) == (Oldest + k - 1) % MaxFrameNum

Kept == [k \in 1 .. KeptNum |-> pFrames[KeptSlot(k)]]
Place == KeptNum - validFrameNum
Taken == IF decoder.pc = "copy" THEN <<pFrames[decoder.slot]>> ELSE <<>>

Fifo == INSTANCE StreamFifo WITH
    MaySpoil <- CanCrash, kept <- Kept, place <- Place, taken <- Taken

\* Whatever wraps round, is given back, thrown away or rewound to: the decoder
\* takes frames in the order in which they were submitted, none twice and none
\* skipped but by a flush, a rewind or a reset, and each is what was submitted as
\* long as the decoder works on it, unless it crashes.
RingIsFifo == Fifo!Spec
=============================================================================
