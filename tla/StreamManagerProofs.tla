------------------------ MODULE StreamManagerProofs ------------------------
(***************************************************************************)
(* Proofs about StreamManager: the inductive invariant IInv, which TLC     *)
(* checks first on small rings, and what follows from it for every ring    *)
(* size, preserve ratio, allocator and set of inputs.                      *)
(***************************************************************************)
EXTENDS StreamManager, SequenceTheorems, WellFoundedInduction, TLAPS

USE RingAssumption, HeapAssumption, InputAssumption

-----------------------------------------------------------------------------
(* Index arithmetic of the ring.                                           *)

\* Distances between slots are computed with one wrap at most.
LEMMA DistanceLemma ==
    ASSUME NEW a \in Slots, NEW b \in Slots
    PROVE  (b - a + MaxFrameNum) % MaxFrameNum =
               IF b >= a THEN b - a ELSE b - a + MaxFrameNum
BY DEF Slots

\* A position at most one round too far wraps once.
LEMMA WrapOnce ==
    ASSUME NEW a \in 0 .. 2 * MaxFrameNum - 1
    PROVE  a % MaxFrameNum = IF a < MaxFrameNum THEN a ELSE a - MaxFrameNum
OBVIOUS

\* Advancing a position wraps to 0 behind the last slot.
LEMMA SuccLemma ==
    ASSUME NEW i \in Slots
    PROVE  Succ(i) = (IF i = MaxFrameNum - 1 THEN 0 ELSE i + 1) /\ Succ(i) \in Slots
BY DEF Slots, Succ

\* Counting the slots from the one behind a position ends at that position.
LEMMA RotateLemma ==
    ASSUME NEW w \in Slots, NEW k \in 1 .. MaxFrameNum
    PROVE  (Succ(w) + k - 1) % MaxFrameNum =
               IF k = MaxFrameNum THEN w
               ELSE IF w + k < MaxFrameNum THEN w + k ELSE w + k - MaxFrameNum
<1> DEFINE a == Succ(w) + k - 1
<1>1. /\ Succ(w) = IF w = MaxFrameNum - 1 THEN 0 ELSE w + 1
      /\ w \in Int /\ 0 <= w /\ w <= MaxFrameNum - 1
      /\ k \in Int /\ 1 <= k /\ k <= MaxFrameNum /\ MaxFrameNum \in Int
  BY SuccLemma DEF Slots
<1>2. a = IF w = MaxFrameNum - 1 THEN k - 1 ELSE w + k
  BY <1>1
<1>3. a \in 0 .. 2 * MaxFrameNum - 1
  BY <1>1, <1>2
<1> HIDE DEF a
<1>4. a % MaxFrameNum = IF a < MaxFrameNum THEN a ELSE a - MaxFrameNum
  BY <1>3, WrapOnce
<1>5. a % MaxFrameNum = IF k = MaxFrameNum THEN w
                        ELSE IF w + k < MaxFrameNum THEN w + k ELSE w + k - MaxFrameNum
  <2>1. CASE w = MaxFrameNum - 1
    BY <1>1, <1>2, <1>4, <2>1
  <2>2. CASE w # MaxFrameNum - 1
    BY <1>1, <1>2, <1>4, <2>2
  <2>3. QED
    BY <2>1, <2>2
<1>6. QED
  BY <1>5 DEF a

\* The writer's step makes one more frame readable unless it meets the reader.
LEMMA OneMoreReadable ==
    ASSUME NEW r \in Slots, NEW w \in Slots, Succ(w) # r, NEW old, NEW new,
           old = IF w >= r THEN w - r ELSE w - r + MaxFrameNum,
           new = IF Succ(w) >= r THEN Succ(w) - r ELSE Succ(w) - r + MaxFrameNum
    PROVE  new = old + 1 /\ old \in Nat /\ old < MaxFrameNum
<1>1. Succ(w) = IF w = MaxFrameNum - 1 THEN 0 ELSE w + 1
  BY SuccLemma
<1>2. QED
  BY <1>1 DEF Slots

\* Going back from slot 0 wraps to the last slot, and undoes advancing.
LEMMA PredLemma ==
    ASSUME NEW i \in Slots
    PROVE  Pred(i) \in Slots /\ Succ(Pred(i)) = i /\ Pred(Succ(i)) = i
BY SuccLemma DEF Slots, Pred

\* The number of readable frames, from the two positions.
LEMMA CountLemma ==
    ASSUME NEW r \in Slots, NEW w \in Slots, NEW v,
           v = (w - r + MaxFrameNum) % MaxFrameNum
    PROVE  /\ v = IF w >= r THEN w - r ELSE w - r + MaxFrameNum
           /\ v \in Nat
           /\ v = 0 <=> r = w
<1>1. v = IF w >= r THEN w - r ELSE w - r + MaxFrameNum
  BY DistanceLemma
<1>2. QED
  BY <1>1 DEF Slots

\* The number of readable frames is 0 only when the two positions meet.
LEMMA ValidLemma ==
    ASSUME nReadPos \in Slots, nWritePos \in Slots
    PROVE  /\ validFrameNum = IF nWritePos >= nReadPos THEN nWritePos - nReadPos
                                ELSE nWritePos - nReadPos + MaxFrameNum
           /\ validFrameNum \in Nat
           /\ validFrameNum = 0 <=> nReadPos = nWritePos
BY CountLemma DEF validFrameNum

\* The same of the positions after a step.
LEMMA ValidLemmaPrime ==
    ASSUME NEW r \in Slots, NEW w \in Slots, r = nReadPos', w = nWritePos'
    PROVE  /\ validFrameNum' = IF w >= r THEN w - r ELSE w - r + MaxFrameNum
           /\ validFrameNum' \in Nat
           /\ validFrameNum' = 0 <=> r = w
BY CountLemma DEF validFrameNum

\* When a frame is accepted, the slot written is not the one just behind the
\* reader, and the ring stays short of full.
LEMMA RoomLemma ==
    ASSUME nReadPos \in Slots, nWritePos \in Slots, ~invalidFrameNumTooSmall
    PROVE  nWritePos # Pred(nReadPos) /\ Succ(nWritePos) # nReadPos
<1>1. PreserveFrameNum \in Nat
  BY DEF PreserveFrameNum
<1>2. MaxFrameNum - validFrameNum > 1
  BY <1>1, DistanceLemma DEF invalidFrameNumTooSmall, validFrameNum, Slots
<1>3. QED
  BY <1>2, DistanceLemma, SuccLemma DEF validFrameNum, Pred, Slots

-----------------------------------------------------------------------------
(* Induction over the distance of a slot from the writer.                  *)

Less == {p \in Nat \X Nat : p[1] < p[2]}

\* A set that holds 0, and n + 1 with every n, holds all natural numbers.
LEMMA InductionLemma ==
    ASSUME NEW S, 0 \in S, \A n \in Nat : n \in S => n + 1 \in S
    PROVE  Nat \subseteq S
<1> DEFINE T == Nat \ S
<1>1. SUFFICES ASSUME T # {} PROVE FALSE
  OBVIOUS
<1>2. IsWellFoundedOn(Less, Nat)
  BY NatLessThanWellFounded DEF OpToRel, Less
<1>3. PICK x \in T : \A y \in T : ~(<<y, x>> \in Less)
  BY <1>1, <1>2, WFMin
<1>4. x \in Nat /\ x # 0 /\ x - 1 \in Nat
  OBVIOUS
<1>5. <<x - 1, x>> \in Less
  BY <1>4 DEF Less
<1>6. x - 1 \notin T
  BY <1>3, <1>5
<1>7. QED
  BY <1>4, <1>6

\* g adds up the lengths len from each slot to the writer w.
Sums(g, len, w) ==
    g = [i \in Slots |-> IF i = w THEN 0 ELSE len[i] + g[Succ(i)]]

\* There is one such function at most.
LEMMA SumsUnique ==
    ASSUME NEW w \in Slots, NEW len, NEW g, NEW h, Sums(g, len, w), Sums(h, len, w)
    PROVE  g = h
<1> DEFINE far(i) == IF w >= i THEN w - i ELSE w - i + MaxFrameNum
           S == {n \in Nat : \A i \in Slots : far(i) = n => g[i] = h[i]}
<1>1. \A i \in Slots : far(i) \in Nat /\ (far(i) = 0 <=> i = w)
  BY DEF Slots
<1>2. \A i \in Slots : i # w => Succ(i) \in Slots /\ far(Succ(i)) = far(i) - 1
  BY SuccLemma DEF Slots
<1>3. \A i \in Slots : /\ i = w => g[i] = 0 /\ h[i] = 0
                       /\ i # w => /\ g[i] = len[i] + g[Succ(i)]
                                   /\ h[i] = len[i] + h[Succ(i)]
  BY DEF Sums
<1> HIDE DEF far
<1>4. 0 \in S
  BY <1>1, <1>3
<1>5. ASSUME NEW n \in Nat, n \in S PROVE n + 1 \in S
  <2>1. SUFFICES ASSUME NEW i \in Slots, far(i) = n + 1 PROVE g[i] = h[i]
    OBVIOUS
  <2>2. i # w
    BY <1>1, <2>1
  <2>3. far(Succ(i)) = n /\ Succ(i) \in Slots
    BY <1>2, <2>1, <2>2
  <2>4. g[Succ(i)] = h[Succ(i)]
    BY <1>5, <2>3
  <2>5. QED
    BY <1>3, <2>2, <2>4
<1> HIDE DEF S
<1>6. Nat \subseteq S
  BY <1>4, <1>5, InductionLemma
<1>7. \A i \in Slots : g[i] = h[i]
  BY <1>1, <1>6 DEF S
<1>8. g = [i \in Slots |-> g[i]] /\ h = [i \in Slots |-> h[i]]
  BY DEF Sums
<1>9. QED
  BY <1>7, <1>8

-----------------------------------------------------------------------------
(* The inductive invariant.                                                *)

\* An empty ring that lends nothing satisfies the invariant.
LEMMA InitIInv == Init => IInv
<1> SUFFICES ASSUME Init PROVE IInv
  OBVIOUS
<1>1. TypeOK
  <2>1. 0 \in Slots /\ NULL \in Block
    BY DEF Slots, Block
  <2>2. EmptyFrame \in [pData : Block, nLength : Nat, nPts : Int]
    BY DEF EmptyFrame, Block
  <2>3. badFree \in BOOLEAN
    BY Zenon DEF Init
  <2>4. QED
    BY <2>1, <2>2, <2>3 DEF Init, TypeOK, DemuxAt, DecoderAt
<1>2. SlotsFilledUpToWriter
  BY DEF Init, SlotsFilledUpToWriter, Slots, EmptyFrame
<1>3. OneOwner
  BY DEF Init, OneOwner, SharedBlock, EmptyFrame
<1>4. NoBadFree /\ FilledBlockPrivate /\ FilledBlockKnown /\ CopiedSlotFilled
  BY DEF Init, NoBadFree, FilledBlockPrivate, FilledBlockKnown, CopiedSlotFilled,
         DemuxAt, DecoderAt
<1>5. NoFlushWithoutCrash
  BY DEF Init, NoFlushWithoutCrash, HoldsManager, CopiedFrameIntact,
         PeekedFrameFirst, DemuxAt, DecoderAt
<1>6. QED
  BY <1>1, <1>2, <1>3, <1>4, <1>5 DEF IInv

\* A request that fails touches the demux thread's place in the code only.
LEMMA RequestFailedIInv ==
    ASSUME IInv, demux.pc \in {"idle", "again"}, RequestFailed,
           UNCHANGED <<smVars, decoder, lostBaby>>,
           \/ UNCHANGED memVars
           \/ /\ pMem' = NULL /\ nMemSize' \in Nat
              /\ heap' = Free(heap, pMem)
              /\ badFree' = badFree
    PROVE  IInv'
<1>1. TypeOK'
  BY DEF IInv, TypeOK, RequestFailed, DemuxAt, smVars, memVars, Free, Block
<1>2. SlotsFilledUpToWriter' /\ CopiedSlotFilled'
  BY DEF IInv, smVars, SlotsFilledUpToWriter, CopiedSlotFilled
<1>3. OneOwner' /\ NoBadFree'
  BY DEF IInv, TypeOK, OneOwner, SharedBlock, NoBadFree, smVars, memVars, Free, Block
<1>4. FilledBlockPrivate' /\ FilledBlockKnown'
  BY DEF RequestFailed, FilledBlockPrivate, FilledBlockKnown, DemuxAt
<1>5. NoFlushWithoutCrash'
  BY DEF IInv, TypeOK, NoFlushWithoutCrash, RequestFailed, HoldsManager, DecoderDown,
         DemuxAt, CopiedFrameIntact, PeekedFrameFirst, validFrameNum, smVars, memVars,
         OneOwner, Free, CopiedSlotFilled
<1>6. QED
  BY <1>1, <1>2, <1>3, <1>4, <1>5 DEF IInv

\* A granted block is the lent one: allocated, in no slot, of the wanted size.
LEMMA GrantIInv ==
    ASSUME IInv, NEW size \in RequireSizes, NEW b \in Mem,
           demux.pc \in {"idle", "again"},
           UNCHANGED <<smVars, decoder, lostBaby, badFree>>,
           pMem' = b, nMemSize' = size, Fill(b, size),
           heap' = Free(heap, pMem) \cup {b}, b \notin Free(heap, pMem)
    PROVE  IInv'
<1> USE DEF smVars
<1>1. TypeOK'
  BY DEF IInv, TypeOK, Fill, Free, Block
<1>2. SlotsFilledUpToWriter' /\ CopiedSlotFilled'
  BY DEF IInv, SlotsFilledUpToWriter, CopiedSlotFilled
<1>3. \A i \in Slots : pFrames[i].pData # NULL =>
          pFrames[i].pData \in Free(heap, pMem) /\ pFrames[i].pData # b
  BY DEF IInv, OneOwner, Free
<1>4. OneOwner' /\ NoBadFree'
  BY <1>3 DEF IInv, OneOwner, SharedBlock, NoBadFree
<1>5. FilledBlockPrivate' /\ FilledBlockKnown'
  BY <1>3 DEF Fill, FilledBlockPrivate, FilledBlockKnown
<1>6. NoFlushWithoutCrash'
  BY <1>3 DEF IInv, TypeOK, NoFlushWithoutCrash, Fill, HoldsManager,
              CopiedFrameIntact, PeekedFrameFirst, validFrameNum, CopiedSlotFilled
<1>7. QED
  BY <1>1, <1>2, <1>4, <1>5, <1>6 DEF IInv

\* RequestBuffer: granted, reallocated, refused or out of memory.
LEMMA RequestIInv ==
    ASSUME IInv, NEW size \in RequireSizes, RequestBuffer(size)
    PROVE  IInv'
<1>0. /\ demux.pc \in {"idle", "again"} /\ UNCHANGED <<smVars, decoder>>
      /\ size \in Nat /\ ~BadFree(heap, pMem)
  BY DEF IInv, OneOwner, BadFree, RequestBuffer
<1>1. CASE RequestFailed /\ UNCHANGED memVars
  BY <1>0, <1>1, RequestFailedIInv DEF memVars
<1>2. CASE ReborrowBuffer(size)
  <2>1. pMem \in heap /\ pMem \in Mem
    BY <1>2 DEF ReborrowBuffer, IInv, OneOwner, TypeOK
  <2>2. heap' = Free(heap, pMem) \cup {pMem} /\ pMem' = pMem /\ nMemSize' = size
    BY <1>2, <2>1 DEF ReborrowBuffer, memVars, Free
  <2>3. pMem \notin Free(heap, pMem)
    BY DEF Free
  <2>4. QED
    BY <1>0, <1>2, <2>1, <2>2, <2>3, GrantIInv DEF ReborrowBuffer, memVars
<1>3. CASE BorrowBuffer(size)
  <2>1. badFree' = badFree
    BY <1>0, <1>3 DEF BorrowBuffer, IInv, NoBadFree, TypeOK
  <2>2. CASE \E b \in Malloc(Free(heap, pMem)) :
                 /\ pMem' = b /\ nMemSize' = size
                 /\ heap' = Free(heap, pMem) \cup {b}
                 /\ Fill(b, size)
    <3>1. Free(heap, pMem) \in SUBSET Mem
      BY DEF IInv, TypeOK, Free
    <3>2. \A b \in Malloc(Free(heap, pMem)) : b \in Mem /\ b \notin Free(heap, pMem)
      BY <3>1
    <3>3. QED
      BY <1>0, <1>3, <2>1, <2>2, <3>2, GrantIInv DEF BorrowBuffer
  <2>3. CASE /\ pMem' = NULL
             /\ nMemSize' = (IF pMem = NULL THEN nMemSize ELSE 0)
             /\ heap' = Free(heap, pMem)
             /\ RequestFailed
    <3>1. nMemSize' \in Nat
      BY <2>3 DEF IInv, TypeOK
    <3>2. QED
      BY <1>0, <1>3, <2>1, <2>3, <3>1, RequestFailedIInv DEF BorrowBuffer
  <2>4. QED
    BY <1>3, <2>2, <2>3 DEF BorrowBuffer
<1>4. QED
  BY <1>1, <1>2, <1>3 DEF RequestBuffer

\* Only the reader moves: the blocks stay where they are.
LEMMA TakeOldestShape ==
    ASSUME IInv, TakeOldest, validFrameNum > 0
    PROVE  /\ nReadPos' = Succ(nReadPos) /\ nReadPos' \in Slots
           /\ pFrames[nReadPos].pData # NULL
           /\ SlotsFilledUpToWriter'
<1>1. nReadPos \in Slots /\ nWritePos \in Slots
  BY DEF IInv, TypeOK
<1>2. nReadPos # nWritePos
  BY <1>1, ValidLemma
<1>3. QED
  BY <1>1, <1>2, SuccLemma DEF IInv, TakeOldest, SlotsFilledUpToWriter, Slots

\* Throwing the oldest frame away for a decoder that is down.
LEMMA FlushIInv ==
    ASSUME IInv, FlushOldest
    PROVE  IInv'
<1>1. nReadPos' \in Slots /\ SlotsFilledUpToWriter'
  BY TakeOldestShape DEF FlushOldest, IInv, TypeOK, smVars, SlotsFilledUpToWriter
<1>2. UNCHANGED <<pFrames, nWritePos>>
  BY DEF FlushOldest, TakeOldest, smVars
<1>3. TypeOK'
  BY <1>1, <1>2 DEF IInv, TypeOK, FlushOldest, DemuxAt, memVars, Block
<1>4. OneOwner' /\ NoBadFree' /\ CopiedSlotFilled'
  BY <1>2 DEF IInv, OneOwner, SharedBlock, NoBadFree, CopiedSlotFilled, FlushOldest, memVars
<1>5. FilledBlockPrivate' /\ FilledBlockKnown'
  BY DEF FlushOldest, FilledBlockPrivate, FilledBlockKnown, DemuxAt
<1>6. NoFlushWithoutCrash'
  BY DEF IInv, NoFlushWithoutCrash, FlushOldest, HoldsManager
<1>7. QED
  BY <1>1, <1>3, <1>4, <1>5, <1>6 DEF IInv

\* Storing a frame moves the lent block into the writer's slot, away from the
\* one the decoder may be copying.
LEMMA StoreIInv ==
    ASSUME IInv, demux.pc = "fill", NEW len \in Nat, NEW pts \in Int,
           ~invalidFrameNumTooSmall, Matches(len), StoreFrame(len, pts),
           Submitted, UNCHANGED decoder
    PROVE  IInv'
<1> DEFINE old == pFrames[nWritePos].pData
<1>0. /\ nWritePos \in Slots /\ nReadPos \in Slots
      /\ pFrames \in [Slots -> [pData : Block, nLength : Nat, nPts : Int]]
      /\ demux.buf \in heap /\ demux.buf \in Mem /\ demux.buf = pMem
  BY DEF IInv, TypeOK, FilledBlockPrivate, Matches
<1>1. /\ nWritePos' = Succ(nWritePos) /\ nWritePos' \in Slots
      /\ nReadPos' = nReadPos /\ lostBaby' = lostBaby
      /\ pMem' = NULL /\ nMemSize' = 0 /\ heap' = Free(heap, old)
  BY <1>0, SuccLemma DEF StoreFrame
<1>2. /\ pFrames' \in [Slots -> [pData : Block, nLength : Nat, nPts : Int]]
      /\ \A i \in Slots : pFrames'[i].pData =
             IF i = nWritePos THEN demux.buf ELSE pFrames[i].pData
  BY <1>0 DEF StoreFrame, Block
<1>3. badFree' = badFree
  BY <1>0 DEF IInv, OneOwner, NoBadFree, StoreFrame, BadFree, TypeOK
<1>4. TypeOK'
  BY <1>0, <1>1, <1>2, <1>3 DEF IInv, TypeOK, Submitted, DemuxAt, Free, Block
<1>5. SlotsFilledUpToWriter'
  <2>1. \A i \in Slots : pFrames'[i].pData # NULL <=> i = nWritePos \/ pFrames[i].pData # NULL
    BY <1>0, <1>2
  <2>2. CASE \A i \in Slots : pFrames[i].pData # NULL
    BY <2>1, <2>2 DEF SlotsFilledUpToWriter
  <2>3. CASE /\ \A i \in Slots : pFrames[i].pData # NULL <=> i < nWritePos
             /\ nReadPos <= nWritePos
    <3>1. CASE nWritePos = MaxFrameNum - 1
      BY <2>1, <2>3, <3>1 DEF SlotsFilledUpToWriter, Slots
    <3>2. CASE nWritePos # MaxFrameNum - 1
      <4>1. nWritePos' = nWritePos + 1
        BY <1>0, <1>1, <3>2, SuccLemma
      <4>2. QED
        BY <1>0, <1>1, <2>1, <2>3, <4>1 DEF SlotsFilledUpToWriter, Slots
    <3>3. QED
      BY <3>1, <3>2
  <2>4. QED
    BY <2>2, <2>3 DEF IInv, SlotsFilledUpToWriter
<1>6. \A i \in Slots : i # nWritePos /\ pFrames[i].pData # NULL =>
          pFrames[i].pData # old /\ pFrames[i].pData # demux.buf
  BY <1>0 DEF IInv, OneOwner, SharedBlock, FilledBlockPrivate
<1>7. old # demux.buf
  BY <1>0 DEF IInv, FilledBlockPrivate
<1>8. OneOwner' /\ NoBadFree'
  BY <1>0, <1>1, <1>2, <1>3, <1>6, <1>7 DEF IInv, OneOwner, SharedBlock, NoBadFree, Free
<1>9. FilledBlockPrivate' /\ FilledBlockKnown' /\ CopiedSlotFilled'
  BY <1>0, <1>2 DEF IInv, TypeOK, Submitted, FilledBlockPrivate, FilledBlockKnown,
                    DemuxAt, CopiedSlotFilled
<1>10. NoFlushWithoutCrash'
  <2> SUFFICES ASSUME ~CanCrash
               PROVE  /\ (~HoldsManager)' /\ decoder'.pc \in {"idle", "peek", "copy"}
                      /\ decoder'.pc = "copy" => decoder'.slot = Pred(nReadPos')
                      /\ CopiedFrameIntact' /\ PeekedFrameFirst'
    BY DEF NoFlushWithoutCrash
  <2>1. /\ ~HoldsManager /\ decoder.pc \in {"idle", "peek", "copy"}
        /\ decoder.pc = "copy" => decoder.slot = Pred(nReadPos)
        /\ CopiedFrameIntact /\ PeekedFrameFirst
    BY DEF IInv, NoFlushWithoutCrash
  <2>2. (~HoldsManager)'
    BY DEF HoldsManager, Submitted, DemuxAt
  <2>3. nWritePos # Pred(nReadPos) /\ Succ(nWritePos) # nReadPos
    BY <1>0, RoomLemma
  <2>4. CopiedFrameIntact'
    <3>1. SUFFICES ASSUME decoder.pc = "copy"
                   PROVE  decoder.data \in heap' /\ pFrames'[decoder.slot].pData = decoder.data
      BY DEF CopiedFrameIntact
    <3>2. decoder.slot \in Slots /\ decoder.slot # nWritePos
      BY <1>0, <2>1, <2>3, <3>1, PredLemma
    <3>3. QED
      BY <1>1, <1>2, <1>6, <2>1, <3>1, <3>2 DEF CopiedFrameIntact, Free, IInv, CopiedSlotFilled
  <2>5. PeekedFrameFirst'
    BY <1>0, <1>1, <2>1, <2>3, ValidLemma, ValidLemmaPrime DEF PeekedFrameFirst
  <2>6. QED
    BY <1>1, <2>1, <2>2, <2>4, <2>5
<1>11. QED
  BY <1>4, <1>5, <1>8, <1>9, <1>10 DEF IInv

\* A block that a reset disowned is freed on submission; nothing else moves.
LEMMA AddStreamIInv ==
    ASSUME IInv, NEW len \in 1 .. demux.size, NEW pts \in PtsValues, AddStream(len, pts)
    PROVE  IInv'
<1>0. /\ demux.pc = "fill" /\ len \in Nat /\ pts \in Int /\ Submitted /\ UNCHANGED decoder
      /\ demux.size \in Nat /\ len <= demux.size
  BY DEF IInv, TypeOK, AddStream
<1>1. CASE ~invalidFrameNumTooSmall /\ Matches(len) /\ StoreFrame(len, pts)
  BY <1>0, <1>1, StoreIInv
<1>2. CASE /\ UNCHANGED <<smVars, pMem, nMemSize, lostBaby>>
           /\ \/ UNCHANGED <<heap, badFree>>
              \/ ~Matches(len) /\ FreeLostBaby
  <2>1. /\ badFree' = badFree /\ heap' \in {heap, Free(heap, demux.buf)}
        /\ heap' # heap => demux.buf # pMem
    <3>1. CASE UNCHANGED <<heap, badFree>>
      BY <3>1
    <3>2. CASE ~Matches(len) /\ FreeLostBaby
      <4>1. pMem = NULL /\ demux.buf \in heap /\ demux.buf \in Mem
        BY <1>0, <3>2 DEF IInv, TypeOK, FilledBlockKnown, FilledBlockPrivate, Matches
      <4>2. QED
        BY <3>2, <4>1 DEF FreeLostBaby, BadFree, IInv, NoBadFree, TypeOK
    <3>3. QED
      BY <1>2, <3>1, <3>2
  <2>2. TypeOK'
    BY <1>0, <1>2, <2>1 DEF IInv, TypeOK, Submitted, DemuxAt, smVars, Free, Block
  <2>3. OneOwner' /\ NoBadFree'
    BY <1>0, <1>2, <2>1 DEF IInv, OneOwner, SharedBlock, NoBadFree, FilledBlockPrivate,
                            smVars, Free
  <2>4. SlotsFilledUpToWriter' /\ CopiedSlotFilled'
    BY <1>0, <1>2 DEF IInv, SlotsFilledUpToWriter, CopiedSlotFilled, smVars
  <2>5. FilledBlockPrivate' /\ FilledBlockKnown'
    BY <1>0 DEF Submitted, DemuxAt, FilledBlockPrivate, FilledBlockKnown
  <2>6. CopiedFrameIntact => CopiedFrameIntact'
    <3>1. SUFFICES ASSUME decoder.pc = "copy", CopiedFrameIntact
                   PROVE  decoder.data \in heap' /\ pFrames'[decoder.slot].pData = decoder.data
      BY <1>0 DEF CopiedFrameIntact
    <3>2. decoder.slot \in Slots /\ pFrames[decoder.slot].pData = decoder.data
          /\ decoder.data \in heap
      BY <3>1 DEF IInv, TypeOK, CopiedFrameIntact
    <3>3. QED
      BY <1>0, <1>2, <2>1, <3>2 DEF IInv, FilledBlockPrivate, Free, smVars
  <2>7. NoFlushWithoutCrash'
    BY <1>0, <1>2, <2>6 DEF IInv, NoFlushWithoutCrash, HoldsManager, Submitted, DemuxAt,
                            PeekedFrameFirst, validFrameNum, smVars
  <2>8. QED
    BY <2>2, <2>3, <2>4, <2>5, <2>7 DEF IInv
<1>3. QED
  BY <1>1, <1>2 DEF AddStream, FreeLostBaby, memVars

\* A filled block that is not handed over stays lent.
LEMMA SkipSubmitIInv ==
    ASSUME IInv, SkipSubmit
    PROVE  IInv'
<1>1. TypeOK'
  BY DEF IInv, TypeOK, SkipSubmit, Submitted, DemuxAt, smVars, memVars, Block
<1>2. SlotsFilledUpToWriter' /\ CopiedSlotFilled' /\ OneOwner' /\ NoBadFree'
  BY DEF IInv, SkipSubmit, SlotsFilledUpToWriter, CopiedSlotFilled, OneOwner, SharedBlock,
         NoBadFree, smVars, memVars
<1>3. FilledBlockPrivate' /\ FilledBlockKnown'
  BY DEF SkipSubmit, Submitted, DemuxAt, FilledBlockPrivate, FilledBlockKnown
<1>4. NoFlushWithoutCrash'
  BY DEF IInv, NoFlushWithoutCrash, HoldsManager, SkipSubmit, Submitted, DemuxAt,
         CopiedFrameIntact, PeekedFrameFirst, validFrameNum, smVars, memVars
<1>5. QED
  BY <1>1, <1>2, <1>3, <1>4 DEF IInv

-----------------------------------------------------------------------------
(* The decoder thread's steps leave blocks and the demux thread alone.     *)

\* A decoder step that leaves the manager alone disturbs the decoder part only.
LEMMA DecoderFrame ==
    ASSUME IInv, UNCHANGED <<pFrames, memVars, demux>>
    PROVE  OneOwner' /\ NoBadFree' /\ FilledBlockPrivate' /\ FilledBlockKnown'
BY DEF IInv, OneOwner, SharedBlock, NoBadFree, FilledBlockPrivate, FilledBlockKnown, memVars

\* Steps by which the decoder holds on to nothing.
LEMMA DecoderIdles ==
    ASSUME IInv, UNCHANGED <<smVars, memVars, demux>>,
           NEW pc \in {"idle", "crashed", "dead"}, decoder' = DecoderAt(pc),
           ~CanCrash => pc = "idle"
    PROVE  IInv'
<1>1. OneOwner' /\ NoBadFree' /\ FilledBlockPrivate' /\ FilledBlockKnown'
  BY DecoderFrame DEF smVars
<1>2. TypeOK'
  BY DEF IInv, TypeOK, smVars, memVars, DecoderAt, Slots, Block
<1>3. SlotsFilledUpToWriter' /\ CopiedSlotFilled'
  BY DEF IInv, SlotsFilledUpToWriter, CopiedSlotFilled, DecoderAt, smVars
<1>4. NoFlushWithoutCrash'
  BY DEF IInv, NoFlushWithoutCrash, HoldsManager, CopiedFrameIntact, PeekedFrameFirst, DecoderAt
<1>5. QED
  BY <1>1, <1>2, <1>3, <1>4 DEF IInv

\* The frame looked at is the first readable one.
LEMMA GetFrameInfoIInv ==
    ASSUME IInv, GetFrameInfo
    PROVE  IInv'
<1>1. OneOwner' /\ NoBadFree' /\ FilledBlockPrivate' /\ FilledBlockKnown'
  BY DecoderFrame DEF GetFrameInfo, smVars
<1>2. TypeOK'
  BY DEF IInv, TypeOK, GetFrameInfo, smVars, memVars
<1>3. SlotsFilledUpToWriter' /\ CopiedSlotFilled'
  BY DEF IInv, GetFrameInfo, SlotsFilledUpToWriter, CopiedSlotFilled, smVars
<1>4. NoFlushWithoutCrash'
  BY DEF IInv, GetFrameInfo, NoFlushWithoutCrash, HoldsManager, CopiedFrameIntact,
         PeekedFrameFirst, validFrameNum, smVars
<1>5. QED
  BY <1>1, <1>2, <1>3, <1>4 DEF IInv

\* The frame taken is in the slot that is now just behind the reader.
LEMMA RequestStreamIInv ==
    ASSUME IInv, RequestStream
    PROVE  IInv'
<1>1. OneOwner' /\ NoBadFree' /\ FilledBlockPrivate' /\ FilledBlockKnown'
  BY DecoderFrame DEF RequestStream, TakeOldest
<1>2. /\ nReadPos' = Succ(nReadPos) /\ nReadPos' \in Slots
      /\ pFrames[nReadPos].pData # NULL /\ SlotsFilledUpToWriter'
  BY TakeOldestShape DEF RequestStream
<1>3. TypeOK'
  BY <1>2 DEF IInv, TypeOK, RequestStream, TakeOldest, memVars
<1>4. CopiedSlotFilled'
  BY <1>2 DEF RequestStream, TakeOldest, CopiedSlotFilled
<1>5. NoFlushWithoutCrash'
  <2>1. decoder'.slot = Pred(nReadPos')
    BY <1>2, PredLemma DEF IInv, TypeOK, RequestStream
  <2>2. CopiedFrameIntact'
    BY <1>2 DEF IInv, TypeOK, OneOwner, RequestStream, TakeOldest, memVars, CopiedFrameIntact
  <2>3. QED
    BY <2>1, <2>2 DEF IInv, NoFlushWithoutCrash, HoldsManager, RequestStream, PeekedFrameFirst
<1>6. QED
  BY <1>1, <1>2, <1>3, <1>4, <1>5 DEF IInv

\* A frame given back is in the slot just behind the reader.
LEMMA ReturnStreamIInv ==
    ASSUME IInv, ReturnStream
    PROVE  IInv'
<1>1. CASE UNCHANGED smVars /\ decoder' = DecoderAt("idle")
  BY <1>1, DecoderIdles DEF ReturnStream
<1>2. CASE UNCHANGED smVars /\ decoder' = DecoderAt("dead") /\ decoder.slot # Pred(nReadPos)
  <2>1. CanCrash
    BY <1>2 DEF IInv, NoFlushWithoutCrash, ReturnStream
  <2>2. QED
    BY <1>2, <2>1, DecoderIdles DEF ReturnStream
<1>3. CASE /\ validFrameNum > 0 /\ decoder.slot = Pred(nReadPos)
           /\ nReadPos' = Pred(nReadPos)
           /\ decoder' = DecoderAt("idle") /\ UNCHANGED <<pFrames, nWritePos>>
  <2>1. /\ nReadPos \in Slots /\ nWritePos \in Slots /\ nReadPos' \in Slots
        /\ pFrames[Pred(nReadPos)].pData # NULL
    BY <1>3, PredLemma DEF IInv, TypeOK, CopiedSlotFilled, ReturnStream
  <2>2. OneOwner' /\ NoBadFree' /\ FilledBlockPrivate' /\ FilledBlockKnown'
    BY <1>3, DecoderFrame DEF ReturnStream
  <2>3. TypeOK'
    BY <1>3, <2>1 DEF IInv, TypeOK, ReturnStream, DecoderAt, memVars, Slots, Block
  <2>4. SlotsFilledUpToWriter'
    BY <1>3, <2>1 DEF IInv, SlotsFilledUpToWriter, Pred, Slots
  <2>5. CopiedSlotFilled' /\ NoFlushWithoutCrash'
    BY <1>3 DEF IInv, NoFlushWithoutCrash, HoldsManager, CopiedSlotFilled, ReturnStream,
                CopiedFrameIntact, PeekedFrameFirst, DecoderAt
  <2>6. QED
    BY <2>2, <2>3, <2>4, <2>5 DEF IInv
<1>4. QED
  BY <1>1, <1>2, <1>3 DEF ReturnStream

\* Rewinding lands on a slot that holds a frame.
LEMMA RewindIInv ==
    ASSUME IInv, NEW t, Rewind(t)
    PROVE  IInv'
<1>1. PICK find \in Slots : pFrames[find].pData # NULL /\ nReadPos' = find
  BY DEF Rewind
<1>2. OneOwner' /\ NoBadFree' /\ FilledBlockPrivate' /\ FilledBlockKnown'
  BY DecoderFrame DEF Rewind
<1>3. TypeOK'
  BY <1>1 DEF IInv, TypeOK, Rewind, memVars
<1>4. SlotsFilledUpToWriter' /\ CopiedSlotFilled'
  BY <1>1 DEF IInv, TypeOK, Rewind, SlotsFilledUpToWriter, CopiedSlotFilled, Slots
<1>5. NoFlushWithoutCrash'
  BY DEF IInv, NoFlushWithoutCrash, HoldsManager, Rewind, CopiedFrameIntact, PeekedFrameFirst
<1>6. QED
  BY <1>2, <1>3, <1>4, <1>5 DEF IInv

\* A reset frees what the slots hold, never the block being filled.
LEMMA ResetIInv ==
    ASSUME IInv, Reset
    PROVE  IInv'
<1> DEFINE datas == {pFrames[i].pData : i \in Slots}
<1>1. badFree' = badFree /\ heap' = heap \ datas
  BY DEF IInv, OneOwner, NoBadFree, Reset, BadFree, TypeOK
<1>2. \A i \in Slots : pFrames'[i] = EmptyFrame
  BY DEF Reset
<1>3. TypeOK'
  <2>1. pFrames' \in [Slots -> [pData : Block, nLength : Nat, nPts : Int]]
    BY DEF Reset, EmptyFrame, Block
  <2>2. nReadPos' \in Slots /\ nWritePos' \in Slots
    BY DEF Reset, Slots
  <2>3. pMem' \in Block /\ nMemSize' \in Nat /\ lostBaby' \in Block
    BY DEF IInv, TypeOK, Reset, Block
  <2>4. heap' \subseteq Mem /\ badFree' \in BOOLEAN
    BY <1>1 DEF IInv, TypeOK
  <2>5. demux' = demux /\ decoder' \in [pc : {"idle", "resetting"}, slot : {0}, data : {NULL}]
    BY DEF Reset, DecoderAt
  <2>6. 0 \in Slots /\ NULL \in Block
    BY DEF Slots, Block
  <2>7. QED
    BY <2>1, <2>2, <2>3, <2>4, <2>5, <2>6 DEF IInv, TypeOK
<1>4. SlotsFilledUpToWriter'
  BY <1>2 DEF Reset, SlotsFilledUpToWriter, Slots, EmptyFrame
<1>5. OneOwner' /\ NoBadFree'
  BY <1>1, <1>2 DEF IInv, OneOwner, SharedBlock, NoBadFree, Reset, EmptyFrame
<1>6. FilledBlockPrivate' /\ FilledBlockKnown'
  <2>1. demux.pc = "fill" => demux.buf \in heap' /\ demux.buf # NULL
    BY <1>1 DEF IInv, FilledBlockPrivate, TypeOK
  <2>2. QED
    BY <1>2, <2>1 DEF IInv, FilledBlockPrivate, FilledBlockKnown, Reset, EmptyFrame
<1>7. CopiedSlotFilled' /\ NoFlushWithoutCrash'
  BY DEF IInv, NoFlushWithoutCrash, HoldsManager, CopiedSlotFilled, Reset,
         CopiedFrameIntact, PeekedFrameFirst, DecoderAt
<1>8. QED
  BY <1>3, <1>4, <1>5, <1>6, <1>7 DEF IInv

\* Every step of the decoder thread preserves the invariant.
LEMMA DecoderIInv ==
    ASSUME IInv, DecoderNext
    PROVE  IInv'
<1>1. CASE LeaveFrame \/ CopyDone
  BY <1>1, DecoderIdles DEF LeaveFrame, CopyDone
<1>2. CASE RequestNothing
  <2>1. CanCrash
    BY <1>2 DEF IInv, NoFlushWithoutCrash, PeekedFrameFirst, RequestNothing
  <2>2. QED
    BY <1>2, <2>1, DecoderIdles DEF RequestNothing
<1>3. CASE Crash
  BY <1>3, DecoderIdles DEF Crash
<1>4. CASE ResetDone
  BY <1>4, DecoderIdles DEF ResetDone
<1>5. QED
  BY <1>1, <1>2, <1>3, <1>4, GetFrameInfoIInv, RequestStreamIInv, ReturnStreamIInv,
     RewindIInv, ResetIInv DEF DecoderNext

-----------------------------------------------------------------------------
(* What follows for the specification.                                     *)

\* IInv holds in every reachable state, whatever the ring size, the preserve
\* ratio, the allocator and the sizes, lengths and times of the frames.
THEOREM Invariance == Spec => []IInv
<1>1. IInv /\ [Next]_vars => IInv'
  <2> SUFFICES ASSUME IInv, [Next]_vars PROVE IInv'
    OBVIOUS
  <2>1. CASE DemuxNext
    BY <2>1, RequestIInv, FlushIInv, AddStreamIInv, SkipSubmitIInv DEF DemuxNext
  <2>2. CASE DecoderNext
    BY <2>2, DecoderIInv
  <2>3. CASE UNCHANGED vars
    BY <2>3 DEF vars, smVars, memVars, IInv, TypeOK, SlotsFilledUpToWriter, OneOwner,
                SharedBlock, NoBadFree, FilledBlockPrivate, FilledBlockKnown,
                CopiedSlotFilled, NoFlushWithoutCrash, HoldsManager, CopiedFrameIntact,
                PeekedFrameFirst, validFrameNum
  <2>4. QED
    BY <2>1, <2>2, <2>3 DEF Next
<1>2. QED
  BY InitIInv, <1>1, PTL DEF Spec

\* Positions stay inside the ring and every variable keeps its type.
THEOREM TypeCorrect == Spec => []TypeOK
<1>1. IInv => TypeOK
  BY DEF IInv
<1>2. QED
  BY <1>1, Invariance, PTL

\* Ownership of memory: a block is never shared, never freed twice, and the
\* block the demux thread writes to is never one the decoder can see.
THEOREM MemorySafe == Spec => []MemorySafety
<1>1. IInv => MemorySafety
  BY DEF IInv, MemorySafety
<1>2. QED
  BY <1>1, Invariance, PTL

\* As long as the decoder library reports no fatal error, the frame being
\* copied without the mutex stays intact, and the frame peeked at is the one
\* taken next.
THEOREM DecoderReadsIntactFrames ==
    ASSUME ~CanCrash
    PROVE  Spec => []FrameStays
<1>1. IInv => FrameStays
  BY DEF IInv, NoFlushWithoutCrash, FrameStays
<1>2. QED
  BY <1>1, Invariance, PTL

\* Every submitted frame can be read: the ring never looks empty when a frame
\* has just gone in.
THEOREM SubmittedFramesReadable == Spec => SubmitIsReadable
<1>1. IInv /\ [Next]_vars =>
         [demux.pc = "fill" /\ demux'.pc = "idle" /\ nWritePos' # nWritePos
              => validFrameNum' = validFrameNum + 1]_vars
  <2> SUFFICES ASSUME IInv, Next, demux.pc = "fill", demux'.pc = "idle",
                      nWritePos' # nWritePos
               PROVE  validFrameNum' = validFrameNum + 1
    BY DEF vars, smVars
  <2>1. PICK len \in 1 .. demux.size, pts \in PtsValues : AddStream(len, pts)
    BY DEF Next, DemuxNext, DecoderNext, RequestBuffer, FlushOldest, SkipSubmit,
           GetFrameInfo, LeaveFrame, RequestStream, RequestNothing, CopyDone,
           ReturnStream, Rewind, Crash, Reset, ResetDone, smVars, TakeOldest
  <2>2. /\ nReadPos \in Slots /\ nWritePos \in Slots /\ nReadPos' = nReadPos
        /\ nWritePos' = Succ(nWritePos) /\ ~invalidFrameNumTooSmall
    BY <2>1 DEF AddStream, StoreFrame, FreeLostBaby, smVars, IInv, TypeOK
  <2>3. Succ(nWritePos) # nReadPos /\ Succ(nWritePos) \in Slots
    BY <2>2, RoomLemma, SuccLemma
  <2>4. QED
    BY <2>2, <2>3, ValidLemma, ValidLemmaPrime, SuccLemma DEF Slots
<1>2. QED
  BY <1>1, Invariance, PTL DEF Spec, SubmitIsReadable

-----------------------------------------------------------------------------
(* The ring implements the FIFO.                                           *)

SlotFrame == [pData : Block, nLength : Nat, nPts : Int]

\* The slots of kept frames are counted from the oldest one, with one wrap.
LEMMA KeptSlotLemma ==
    ASSUME IInv
    PROVE  /\ KeptNum \in Nat /\ KeptNum <= MaxFrameNum /\ Oldest \in Slots
           /\ WrappedRound \in BOOLEAN
           /\ WrappedRound => KeptNum = MaxFrameNum /\ Oldest = nWritePos
           /\ ~WrappedRound => KeptNum = nWritePos /\ Oldest = 0
           /\ \A k \in 1 .. KeptNum :
                 /\ KeptSlot(k) \in Slots
                 /\ KeptSlot(k) = IF Oldest + k - 1 < MaxFrameNum THEN Oldest + k - 1
                                    ELSE Oldest + k - 1 - MaxFrameNum
<1>1. nWritePos \in Slots
  BY DEF IInv, TypeOK
<1>2. /\ KeptNum \in Nat /\ KeptNum <= MaxFrameNum /\ Oldest \in Slots
      /\ WrappedRound \in BOOLEAN
      /\ WrappedRound => KeptNum = MaxFrameNum /\ Oldest = nWritePos
      /\ ~WrappedRound => KeptNum = nWritePos /\ Oldest = 0
  BY <1>1 DEF KeptNum, Oldest, WrappedRound, Slots
<1>3. ASSUME NEW o \in Slots, NEW k \in 1 .. MaxFrameNum
      PROVE  (o + k - 1) % MaxFrameNum =
                 IF o + k - 1 < MaxFrameNum THEN o + k - 1 ELSE o + k - 1 - MaxFrameNum
  BY DEF Slots
<1>4. ASSUME NEW k \in 1 .. KeptNum
      PROVE  /\ KeptSlot(k) = IF Oldest + k - 1 < MaxFrameNum THEN Oldest + k - 1
                                ELSE Oldest + k - 1 - MaxFrameNum
             /\ KeptSlot(k) \in Slots
  <2>1. k \in 1 .. MaxFrameNum
    BY <1>2
  <2>2. KeptSlot(k) = IF Oldest + k - 1 < MaxFrameNum THEN Oldest + k - 1
                        ELSE Oldest + k - 1 - MaxFrameNum
    BY <1>2, <1>3, <2>1 DEF KeptSlot
  <2>3. QED
    BY <1>2, <2>1, <2>2 DEF Slots
<1>5. QED
  BY <1>2, <1>4

\* The kept frames are a sequence.
LEMMA KeptLemma ==
    ASSUME IInv
    PROVE  /\ Kept \in Seq(SlotFrame) /\ Len(Kept) = KeptNum
           /\ \A k \in 1 .. KeptNum : Kept[k] = pFrames[KeptSlot(k)]
<1>1. pFrames \in [Slots -> SlotFrame]
  BY DEF IInv, TypeOK, SlotFrame
<1>2. Kept \in [1 .. KeptNum -> SlotFrame]
  BY <1>1, KeptSlotLemma DEF Kept
<1>3. KeptNum \in Nat
  BY KeptSlotLemma
<1>4. QED
  BY <1>2, <1>3 DEF Kept

\* Until the writer has come round, the slots below it are the filled ones.
LEMMA WrapLemma ==
    ASSUME IInv
    PROVE  IF WrappedRound
             THEN \A i \in Slots : pFrames[i].pData # NULL
             ELSE /\ \A i \in Slots : pFrames[i].pData # NULL <=> i < nWritePos
                  /\ nReadPos <= nWritePos
<1>1. nWritePos \in Slots
  BY DEF IInv, TypeOK
<1>2. QED
  BY <1>1 DEF IInv, SlotsFilledUpToWriter, WrappedRound, Slots

\* How many frames have been taken, from the two positions.
LEMMA PlaceLemma ==
    ASSUME IInv
    PROVE  /\ Place \in 0 .. KeptNum
           /\ ~WrappedRound => Place = nReadPos
           /\ WrappedRound => Place = MaxFrameNum - validFrameNum
<1>1. nReadPos \in Slots /\ nWritePos \in Slots
  BY DEF IInv, TypeOK
<1>2. CASE WrappedRound
  BY <1>1, <1>2, ValidLemma, KeptSlotLemma DEF Place, Slots
<1>3. CASE ~WrappedRound
  BY <1>1, <1>3, ValidLemma, KeptSlotLemma, WrapLemma DEF Place, Slots
<1>4. QED
  BY <1>2, <1>3

\* The next frame to take is in the reader's slot.
LEMMA NextKeptLemma ==
    ASSUME IInv, validFrameNum > 0
    PROVE  Place < KeptNum /\ Kept[Place + 1] = pFrames[nReadPos]
<1>1. nReadPos \in Slots /\ nWritePos \in Slots
  BY DEF IInv, TypeOK
<1>2. Place < KeptNum /\ Place + 1 \in 1 .. KeptNum
  BY <1>1, ValidLemma, PlaceLemma, KeptSlotLemma DEF Place
<1>3. KeptSlot(Place + 1) = nReadPos
  <2>1. CASE WrappedRound
    BY <1>1, <1>2, <2>1, ValidLemma, PlaceLemma, KeptSlotLemma DEF Slots
  <2>2. CASE ~WrappedRound
    BY <1>1, <1>2, <2>2, PlaceLemma, KeptSlotLemma DEF Slots
  <2>3. QED
    BY <2>1, <2>2
<1>4. QED
  BY <1>2, <1>3, KeptLemma

\* The last frame taken is in the slot behind the reader, if it is still kept.
LEMMA LastTakenLemma ==
    ASSUME IInv, nWritePos # Pred(nReadPos), pFrames[Pred(nReadPos)].pData # NULL,
           validFrameNum > 0
    PROVE  Place > 0 /\ Kept[Place] = pFrames[Pred(nReadPos)]
<1>1. nReadPos \in Slots /\ nWritePos \in Slots /\ Pred(nReadPos) \in Slots
  BY PredLemma DEF IInv, TypeOK
<1>2. Place > 0 /\ Place \in 1 .. KeptNum
  <2>1. CASE WrappedRound
    BY <1>1, <2>1, ValidLemma, PlaceLemma, KeptSlotLemma DEF Slots
  <2>2. CASE ~WrappedRound
    BY <1>1, <2>2, WrapLemma, PlaceLemma, KeptSlotLemma DEF Slots, Pred
  <2>3. QED
    BY <2>1, <2>2
<1>3. KeptSlot(Place) = Pred(nReadPos)
  <2>1. CASE WrappedRound
    BY <1>1, <1>2, <2>1, ValidLemma, PlaceLemma, KeptSlotLemma DEF Slots, Pred
  <2>2. CASE ~WrappedRound
    BY <1>1, <1>2, <2>2, PlaceLemma, KeptSlotLemma DEF Slots, Pred
  <2>3. QED
    BY <2>1, <2>2
<1>4. QED
  BY <1>2, <1>3, KeptLemma

\* Nothing stored, looked at, taken or flushed brings the writer to the slot
\* behind the reader.
LEMMA CopiedSlotAheadStep ==
    ASSUME 2 <= PreserveFrameNum, IInv, CopiedSlotAhead, [Next]_vars
    PROVE  CopiedSlotAhead'
<1>0. nReadPos \in Slots /\ nWritePos \in Slots /\ PreserveFrameNum \in Int
  BY DEF IInv, TypeOK, PreserveFrameNum
<1>1. demux'.pc = "fill" => demux'.size \in RequireSizes
  <2>1. CASE DemuxNext
    BY <2>1 DEF CopiedSlotAhead, DemuxNext, RequestBuffer, ReborrowBuffer, BorrowBuffer, Fill,
                RequestFailed, FlushOldest, AddStream, SkipSubmit, Submitted, DemuxAt
  <2>2. CASE DecoderNext \/ UNCHANGED vars
    BY <2>2 DEF CopiedSlotAhead, DecoderNext, GetFrameInfo, LeaveFrame, RequestStream,
                RequestNothing, CopyDone, ReturnStream, Rewind, Crash, Reset, ResetDone, vars
  <2>3. QED
    BY <2>1, <2>2 DEF Next
<1>2. ASSUME decoder'.pc = "copy" PROVE nWritePos' # Pred(nReadPos')
  <2>1. CASE UNCHANGED <<nReadPos, nWritePos, decoder>>
    BY <1>2, <2>1 DEF CopiedSlotAhead
  <2>2. CASE TakeOldest /\ validFrameNum > 0
    <3>1. nReadPos' = Succ(nReadPos) /\ nWritePos' = nWritePos /\ nReadPos # nWritePos
      BY <1>0, <2>2, ValidLemma DEF TakeOldest
    <3>2. QED
      BY <1>0, <3>1, PredLemma
  <2>3. CASE /\ ~invalidFrameNumTooSmall /\ nWritePos' = Succ(nWritePos)
             /\ nReadPos' = nReadPos
    <3>1. MaxFrameNum - validFrameNum > 2
      BY <1>0, <2>3, ValidLemma DEF invalidFrameNumTooSmall
    <3>2. Succ(nWritePos) # Pred(nReadPos)
      BY <1>0, <3>1, ValidLemma, SuccLemma DEF Pred, Slots
    <3>3. QED
      BY <2>3, <3>2
  <2>4. CASE DemuxNext
    BY <2>1, <2>2, <2>3, <2>4 DEF DemuxNext, RequestBuffer, FlushOldest, AddStream, StoreFrame,
                                  FreeLostBaby, SkipSubmit, smVars
  <2>5. CASE DecoderNext \/ UNCHANGED vars
    BY <1>2, <2>1, <2>2, <2>5
       DEF DecoderNext, GetFrameInfo, LeaveFrame, RequestStream, RequestNothing, CopyDone,
           ReturnStream, Rewind, Crash, Reset, ResetDone, DecoderAt, vars, smVars
  <2>6. QED
    BY <2>4, <2>5 DEF Next
<1>3. QED
  BY <1>1, <1>2 DEF CopiedSlotAhead

\* Where neither slots nor positions change, the decoder at most puts down the
\* frame that it holds.
LEMMA FifoPutsDown ==
    ASSUME UNCHANGED <<pFrames, nReadPos, nWritePos>>, decoder' = decoder \/ decoder'.pc # "copy"
    PROVE  [Fifo!Next]_(Fifo!fifoVars)
<1>1. Kept' = Kept /\ Place' = Place
  BY DEF Kept, KeptNum, KeptSlot, Oldest, WrappedRound, Place, validFrameNum
<1>2. Taken' = Taken \/ Taken' = <<>>
  BY DEF Taken
<1>3. QED
  BY <1>1, <1>2 DEF Fifo!Next, Fifo!Finish, Fifo!fifoVars

\* As long as the slots and the writer stay, so do the kept frames.
LEMMA KeptStays ==
    ASSUME UNCHANGED <<pFrames, nWritePos>>
    PROVE  Kept' = Kept /\ KeptNum' = KeptNum
BY DEF Kept, KeptNum, KeptSlot, Oldest, WrappedRound

\* The reader steps over one readable frame.
LEMMA OneTaken ==
    ASSUME IInv, IInv', TakeOldest, validFrameNum > 0
    PROVE  /\ Kept' = Kept /\ Place' = Place + 1
           /\ Place < Len(Kept) /\ Kept[Place + 1] = pFrames[nReadPos]
<1>1. nReadPos \in Slots /\ nWritePos \in Slots
  BY DEF IInv, TypeOK
<1>2. Kept' = Kept /\ KeptNum' = KeptNum
  BY KeptStays DEF TakeOldest
<1>3. validFrameNum' = validFrameNum - 1
  BY <1>1, SuccLemma, ValidLemma, ValidLemmaPrime DEF TakeOldest, Slots
<1>4. QED
  BY <1>1, <1>2, <1>3, ValidLemma, KeptSlotLemma, KeptLemma, NextKeptLemma DEF Place

\* RequestStream takes the next frame.
LEMMA RequestTakes ==
    ASSUME IInv, IInv', RequestStream
    PROVE  Fifo!Take
<1>1. Taken' = <<pFrames[nReadPos]>>
  BY DEF Taken, RequestStream, TakeOldest
<1>2. QED
  BY <1>1, OneTaken DEF Fifo!Take, RequestStream

\* The demux thread's flush throws the next frame away.
LEMMA FlushDiscards ==
    ASSUME IInv, IInv', FlushOldest
    PROVE  [Fifo!Next]_(Fifo!fifoVars)
<1>1. CASE validFrameNum > 0
  <2>1. Taken' = Taken
    BY <1>1 DEF FlushOldest, TakeOldest, Taken
  <2>2. QED
    BY <1>1, <2>1, OneTaken DEF FlushOldest, Fifo!Next, Fifo!Discard
<1>2. CASE UNCHANGED smVars
  BY <1>2, FifoPutsDown DEF smVars, FlushOldest
<1>3. QED
  BY <1>1, <1>2 DEF FlushOldest

\* ReturnStream puts the last frame taken back in front, or drops it.
LEMMA ReturnGivesBack ==
    ASSUME IInv, IInv', CopiedSlotAhead, ReturnStream
    PROVE  [Fifo!Next]_(Fifo!fifoVars)
<1>1. CASE UNCHANGED smVars
  BY <1>1, FifoPutsDown DEF smVars, ReturnStream, DecoderAt
<1>2. CASE /\ validFrameNum > 0 /\ decoder.slot = Pred(nReadPos)
           /\ nReadPos' = Pred(nReadPos)
           /\ decoder' = DecoderAt("idle") /\ UNCHANGED <<pFrames, nWritePos>>
  <2>1. nReadPos \in Slots /\ nWritePos \in Slots /\ Pred(nReadPos) \in Slots
    BY PredLemma DEF IInv, TypeOK
  <2>2. nWritePos # Pred(nReadPos) /\ pFrames[Pred(nReadPos)].pData # NULL
    BY <1>2 DEF CopiedSlotAhead, ReturnStream, IInv, CopiedSlotFilled
  <2>3. Place > 0 /\ Kept[Place] = pFrames[Pred(nReadPos)]
    BY <1>2, <2>2, LastTakenLemma
  <2>4. Taken = <<Kept[Place]>> /\ Taken' = <<>>
    BY <1>2, <2>3 DEF Taken, ReturnStream, DecoderAt
  <2>5. Kept' = Kept /\ KeptNum' = KeptNum
    BY <1>2, KeptStays
  <2>6. validFrameNum' = validFrameNum + 1
    BY <1>2, <2>1, <2>2, ValidLemma, ValidLemmaPrime DEF Pred, Slots
  <2>7. Place' = Place - 1
    BY <2>1, <2>5, <2>6, ValidLemma, KeptSlotLemma DEF Place
  <2>8. QED
    BY <2>3, <2>4, <2>5, <2>7 DEF Fifo!Next, Fifo!GiveBack
<1>3. QED
  BY <1>1, <1>2 DEF ReturnStream

\* Rewinding moves the place.
LEMMA RewindRewinds ==
    ASSUME IInv, IInv', NEW t, Rewind(t)
    PROVE  Fifo!Rewind
<1>1. Kept' = Kept /\ KeptNum' = KeptNum /\ Taken' = Taken
  BY KeptStays DEF Rewind, Taken
<1>2. PICK find \in Slots : pFrames[find].pData # NULL /\ nReadPos' = find
  BY DEF Rewind
<1>3. nWritePos \in Slots /\ nWritePos' = nWritePos
  BY DEF IInv, TypeOK, Rewind
<1>4. ~WrappedRound => find <= nWritePos
  BY <1>2, <1>3, WrapLemma DEF Slots
<1>5. validFrameNum' = IF nWritePos >= find THEN nWritePos - find
                         ELSE nWritePos - find + MaxFrameNum
  BY <1>2, <1>3, ValidLemmaPrime
<1>6. Place' \in 0 .. KeptNum
  BY <1>1, <1>2, <1>3, <1>4, <1>5, KeptSlotLemma DEF Place, Slots
<1>7. QED
  BY <1>1, <1>6, KeptLemma DEF Fifo!Rewind, Rewind

\* A frame stored before the writer has come round comes behind the others.
LEMMA StoreAppends ==
    ASSUME IInv, ~WrappedRound, NEW f \in SlotFrame, f.pData # NULL,
           pFrames' = [pFrames EXCEPT ![nWritePos] = f], nWritePos' = Succ(nWritePos)
    PROVE  Kept' = Append(Kept, f) /\ KeptNum' = KeptNum + 1
<1> DEFINE n == IF nWritePos = MaxFrameNum - 1 THEN MaxFrameNum ELSE nWritePos + 1
<1>1. /\ nWritePos \in Slots /\ Succ(nWritePos) \in Slots
      /\ pFrames \in [Slots -> SlotFrame] /\ pFrames' \in [Slots -> SlotFrame]
  BY SuccLemma DEF IInv, TypeOK, SlotFrame
<1>2. \A i \in Slots : pFrames[i].pData # NULL <=> i < nWritePos
  BY WrapLemma
<1>3. WrappedRound' <=> nWritePos = MaxFrameNum - 1
  <2>1. CASE nWritePos = MaxFrameNum - 1
    <3>1. Succ(nWritePos) = 0 /\ 0 \in Slots /\ 0 < nWritePos
      BY <1>1, <2>1, SuccLemma DEF Slots
    <3>2. pFrames'[0].pData # NULL
      BY <1>1, <1>2, <3>1
    <3>3. QED
      BY <2>1, <3>1, <3>2 DEF WrappedRound
  <2>2. CASE nWritePos # MaxFrameNum - 1
    <3>1. Succ(nWritePos) = nWritePos + 1
      BY <1>1, <2>2, SuccLemma
    <3>2. pFrames'[Succ(nWritePos)].pData = NULL
      BY <1>1, <1>2, <3>1 DEF Slots
    <3>3. QED
      BY <2>2, <3>2 DEF WrappedRound
  <2>3. QED
    BY <2>1, <2>2
<1>4. Oldest' = 0 /\ KeptNum' = n
  <2>1. CASE nWritePos = MaxFrameNum - 1
    BY <1>1, <1>3, <2>1, SuccLemma DEF Oldest, KeptNum
  <2>2. CASE nWritePos # MaxFrameNum - 1
    BY <1>1, <1>3, <2>2, SuccLemma DEF Oldest, KeptNum
  <2>3. QED
    BY <2>1, <2>2
<1>5. n = KeptNum + 1 /\ KeptNum = nWritePos
  BY <1>1, KeptSlotLemma DEF Slots
<1>6. \A k \in 1 .. n : k - 1 \in Slots /\ (0 + k - 1) % MaxFrameNum = k - 1
  BY <1>1 DEF Slots
<1>7. Kept' = [k \in 1 .. n |-> pFrames'[k - 1]]
  <2>1. Kept' = [k \in 1 .. KeptNum' |-> pFrames'[(Oldest' + k - 1) % MaxFrameNum]]
    BY DEF Kept, KeptSlot
  <2>2. Kept' = [k \in 1 .. n |-> pFrames'[(0 + k - 1) % MaxFrameNum]]
    BY <1>4, <2>1
  <2>3. QED
    BY <1>6, <2>2
<1>8. \A k \in 1 .. KeptNum : Kept[k] = pFrames[k - 1]
  BY <1>1, <1>5, KeptLemma, KeptSlotLemma DEF Slots
<1> HIDE DEF n
<1>9. /\ Kept' \in Seq(SlotFrame) /\ Len(Kept') = n
      /\ \A k \in 1 .. n : Kept'[k] = IF k = n THEN f ELSE Kept[k]
  <2>1. n \in Nat
    BY <1>5, KeptSlotLemma
  <2>2. Kept' \in [1 .. n -> SlotFrame]
    BY <1>1, <1>6, <1>7
  <2>3. \A k \in 1 .. n : Kept'[k] = IF k = n THEN f ELSE Kept[k]
    <3>1. ASSUME NEW k \in 1 .. n PROVE Kept'[k] = IF k = n THEN f ELSE Kept[k]
      <4>1. Kept'[k] = pFrames'[k - 1]
        BY <1>7
      <4>2. CASE k = n
        BY <1>1, <1>5, <4>1, <4>2, KeptSlotLemma
      <4>3. CASE k # n
        <5>1. k \in 1 .. KeptNum /\ k - 1 # nWritePos /\ k - 1 \in Slots
          BY <1>5, <1>6, <4>3, KeptSlotLemma
        <5>2. QED
          BY <1>1, <1>8, <4>1, <4>3, <5>1
      <4>4. QED
        BY <4>2, <4>3
    <3>2. QED
      BY <3>1
  <2>4. QED
    BY <2>1, <2>2, <2>3
<1>10. /\ Append(Kept, f) \in Seq(SlotFrame) /\ Len(Append(Kept, f)) = n
       /\ \A k \in 1 .. n : Append(Kept, f)[k] = IF k = n THEN f ELSE Kept[k]
  BY <1>5, KeptLemma
<1>11. Kept' = Append(Kept, f)
  BY <1>9, <1>10, SeqEqual
<1>12. QED
  BY <1>4, <1>5, <1>11

\* Afterwards it pushes the oldest frame out.
LEMMA StorePushesOut ==
    ASSUME IInv, WrappedRound, NEW f \in SlotFrame, f.pData # NULL,
           pFrames' = [pFrames EXCEPT ![nWritePos] = f], nWritePos' = Succ(nWritePos)
    PROVE  Kept' = Append(Tail(Kept), f) /\ KeptNum' = KeptNum
<1> DEFINE M == MaxFrameNum
<1>1. /\ nWritePos \in Slots /\ Succ(nWritePos) \in Slots
      /\ pFrames \in [Slots -> SlotFrame] /\ pFrames' \in [Slots -> SlotFrame]
  BY SuccLemma DEF IInv, TypeOK, SlotFrame
<1>2. \A i \in Slots : pFrames[i].pData # NULL
  BY WrapLemma
<1>3. WrappedRound'
  BY <1>1, <1>2 DEF WrappedRound
<1>4. Oldest' = Succ(nWritePos) /\ KeptNum' = M /\ KeptNum = M /\ Oldest = nWritePos
  BY <1>3, KeptSlotLemma DEF Oldest, KeptNum
<1>5. ASSUME NEW k \in 1 .. M
      PROVE  /\ (Succ(nWritePos) + k - 1) % M \in Slots
             /\ (Succ(nWritePos) + k - 1) % M = IF k = M THEN nWritePos ELSE KeptSlot(k + 1)
             /\ k # M => KeptSlot(k + 1) \in Slots /\ KeptSlot(k + 1) # nWritePos
  <2>1. CASE k = M
    BY <1>1, <2>1, RotateLemma
  <2>2. CASE k # M
    <3>1. k + 1 \in 1 .. KeptNum
      BY <1>4, <2>2
    <3>2. /\ KeptSlot(k + 1) \in Slots
          /\ KeptSlot(k + 1) = IF nWritePos + k < M THEN nWritePos + k ELSE nWritePos + k - M
      BY <1>1, <1>4, <3>1, KeptSlotLemma DEF Slots
    <3>3. KeptSlot(k + 1) # nWritePos
      BY <1>1, <2>2, <3>2 DEF Slots
    <3>4. (Succ(nWritePos) + k - 1) % M =
              IF nWritePos + k < M THEN nWritePos + k ELSE nWritePos + k - M
      BY <1>1, <2>2, RotateLemma
    <3>5. QED
      BY <2>2, <3>2, <3>3, <3>4
  <2>3. QED
    BY <2>1, <2>2
<1>6. Kept' = [k \in 1 .. M |-> pFrames'[(Succ(nWritePos) + k - 1) % M]]
  <2>1. Kept' = [k \in 1 .. KeptNum' |-> pFrames'[(Oldest' + k - 1) % M]]
    BY DEF Kept, KeptSlot
  <2>2. QED
    BY <1>4, <2>1
<1>7. /\ Kept' \in Seq(SlotFrame) /\ Len(Kept') = M
      /\ \A k \in 1 .. M : Kept'[k] = IF k = M THEN f ELSE Kept[k + 1]
  <2>1. Kept' \in [1 .. M -> SlotFrame]
    BY <1>1, <1>5, <1>6
  <2>2. ASSUME NEW k \in 1 .. M PROVE Kept'[k] = IF k = M THEN f ELSE Kept[k + 1]
    <3>1. Kept'[k] = pFrames'[(Succ(nWritePos) + k - 1) % M]
      BY <1>6
    <3>2. CASE k = M
      BY <1>1, <1>5, <3>1, <3>2
    <3>3. CASE k # M
      <4>1. k + 1 \in 1 .. KeptNum
        BY <1>4, <3>3
      <4>2. Kept[k + 1] = pFrames[KeptSlot(k + 1)]
        BY <4>1, KeptLemma
      <4>3. QED
        BY <1>1, <1>5, <3>1, <3>3, <4>2
    <3>4. QED
      BY <3>2, <3>3
  <2>3. QED
    BY <2>1, <2>2
<1>8. Kept \in Seq(SlotFrame) /\ Len(Kept) = M /\ Kept # <<>>
  BY <1>4, KeptLemma
<1>9. /\ Tail(Kept) \in Seq(SlotFrame) /\ Len(Tail(Kept)) = M - 1
      /\ \A k \in 1 .. M - 1 : Tail(Kept)[k] = Kept[k + 1]
  BY <1>8, HeadTailProperties
<1>10. /\ Append(Tail(Kept), f) \in Seq(SlotFrame) /\ Len(Append(Tail(Kept), f)) = M
       /\ \A k \in 1 .. M : Append(Tail(Kept), f)[k] = IF k = M THEN f ELSE Kept[k + 1]
  <2>1. Append(Tail(Kept), f) \in Seq(SlotFrame) /\ Len(Append(Tail(Kept), f)) = M
    BY <1>9
  <2>2. Append(Tail(Kept), f)[M] = f
    BY <1>9
  <2>3. \A k \in 1 .. M - 1 : Append(Tail(Kept), f)[k] = Tail(Kept)[k]
    BY <1>9
  <2>4. QED
    BY <1>9, <2>1, <2>2, <2>3
<1>11. Kept' = Append(Tail(Kept), f)
  BY <1>7, <1>10, SeqEqual
<1>12. QED
  BY <1>4, <1>11

\* A frame handed over is put behind the others, and written over the one being
\* copied only after a crash.
LEMMA StorePuts ==
    ASSUME IInv, CopiedSlotAhead, demux.pc = "fill", NEW len \in 1 .. demux.size,
           NEW pts \in PtsValues, ~invalidFrameNumTooSmall, Matches(len), StoreFrame(len, pts),
           UNCHANGED decoder
    PROVE  Fifo!Put
<1> DEFINE f == [pData |-> demux.buf, nLength |-> len, nPts |-> pts]
<1>1. /\ nReadPos \in Slots /\ nWritePos \in Slots /\ Succ(nWritePos) \in Slots
      /\ pFrames \in [Slots -> SlotFrame]
      /\ demux.buf \in Mem /\ demux.size \in RequireSizes /\ len \in Nat /\ pts \in Int
  BY SuccLemma DEF IInv, TypeOK, SlotFrame, FilledBlockPrivate, CopiedSlotAhead
<1>2. f \in Frame
  <2> DEFINE lengths == UNION {1 .. size : size \in RequireSizes}
  <2>1. len \in lengths
    <3>1. demux.size \in RequireSizes
      BY <1>1
    <3>2. (1 .. demux.size) \in {1 .. size : size \in RequireSizes}
      BY <3>1
    <3>3. QED
      BY <3>2
  <2>2. Frame = [pData : Mem, nLength : lengths, nPts : PtsValues]
    BY DEF Frame
  <2> HIDE DEF lengths
  <2>3. QED
    BY <1>1, <2>1, <2>2, SMTT(30)
<1>3. f \in SlotFrame /\ f.pData # NULL
  BY <1>1 DEF SlotFrame, Block
<1>4. /\ pFrames' = [pFrames EXCEPT ![nWritePos] = f] /\ nWritePos' = Succ(nWritePos)
      /\ nReadPos' = nReadPos
  BY DEF StoreFrame
<1>5. validFrameNum' = validFrameNum + 1 /\ validFrameNum \in Nat /\ validFrameNum < MaxFrameNum
  <2>1. Succ(nWritePos) # nReadPos
    BY <1>1, RoomLemma
  <2>2. validFrameNum' = IF Succ(nWritePos) >= nReadPos THEN Succ(nWritePos) - nReadPos
                           ELSE Succ(nWritePos) - nReadPos + MaxFrameNum
    BY <1>1, <1>4, ValidLemmaPrime
  <2>3. validFrameNum = IF nWritePos >= nReadPos THEN nWritePos - nReadPos
                          ELSE nWritePos - nReadPos + MaxFrameNum
    BY <1>1, ValidLemma
  <2>4. QED
    BY <1>1, <2>1, <2>2, <2>3, OneMoreReadable
<1> HIDE DEF f
<1>6. \/ Kept' = Append(Kept, f) /\ Place' = Place
      \/ Place > 0 /\ Kept' = Append(Tail(Kept), f) /\ Place' = Place - 1
  <2>1. CASE WrappedRound
    <3>1. Kept' = Append(Tail(Kept), f) /\ KeptNum' = KeptNum /\ KeptNum = MaxFrameNum
      BY <1>3, <1>4, <2>1, StorePushesOut, KeptSlotLemma
    <3>2. QED
      BY <1>5, <3>1 DEF Place
  <2>2. CASE ~WrappedRound
    <3>1. Kept' = Append(Kept, f) /\ KeptNum' = KeptNum + 1 /\ KeptNum \in Nat
      BY <1>3, <1>4, <2>2, StoreAppends, KeptSlotLemma
    <3>2. QED
      BY <1>5, <3>1 DEF Place
  <2>3. QED
    BY <2>1, <2>2
<1>7. (Taken' = Taken) \/ (CanCrash /\ Taken # <<>> /\ Taken' = <<f>>)
  <2>1. CASE decoder.pc # "copy"
    <3>1. Taken' = Taken
      BY <2>1 DEF Taken
    <3>2. QED
      BY <3>1
  <2>2. CASE decoder.pc = "copy" /\ decoder.slot # nWritePos
    <3>1. decoder.slot \in Slots
      BY DEF IInv, TypeOK
    <3>2. pFrames'[decoder.slot] = pFrames[decoder.slot]
      BY <1>1, <1>4, <2>2, <3>1
    <3>3. Taken' = Taken
      BY <3>2 DEF Taken
    <3>4. QED
      BY <3>3
  <2>3. CASE decoder.pc = "copy" /\ decoder.slot = nWritePos
    <3>1. CanCrash
      BY <1>1, <2>3, RoomLemma DEF IInv, NoFlushWithoutCrash
    <3>2. Taken' = <<f>> /\ Taken # <<>>
      BY <1>1, <1>4, <2>3 DEF Taken
    <3>3. QED
      BY <3>1, <3>2
  <2>4. QED
    BY <2>1, <2>2, <2>3
<1>8. QED
  BY <1>2, <1>6, <1>7 DEF Fifo!Put

\* A reset empties the FIFO while the decoder holds no frame.
LEMMA ResetClears ==
    ASSUME IInv, Reset
    PROVE  Fifo!Clear
<1>1. KeptNum' = 0
  BY DEF Reset, KeptNum, WrappedRound, EmptyFrame, Slots
<1>2. Kept' = <<>>
  BY <1>1 DEF Kept
<1>3. validFrameNum' = 0
  BY DistanceLemma DEF Reset, validFrameNum, Slots
<1>4. Place' = 0
  BY <1>1, <1>3 DEF Place
<1>5. Taken' = Taken
  BY DEF Reset, Taken, DecoderAt
<1>6. QED
  BY <1>2, <1>4, <1>5 DEF Fifo!Clear

\* Every step of the two threads is one of the FIFO or leaves it alone.
LEMMA StepIsFifo ==
    ASSUME IInv, IInv', CopiedSlotAhead, [Next]_vars
    PROVE  [Fifo!Next]_(Fifo!fifoVars)
<1>1. ASSUME NEW size \in RequireSizes, RequestBuffer(size)
      PROVE  [Fifo!Next]_(Fifo!fifoVars)
  BY <1>1, FifoPutsDown DEF RequestBuffer, smVars
<1>2. ASSUME NEW len \in 1 .. demux.size, NEW pts \in PtsValues, AddStream(len, pts)
      PROVE  [Fifo!Next]_(Fifo!fifoVars)
  <2>1. CASE ~invalidFrameNumTooSmall /\ Matches(len) /\ StoreFrame(len, pts)
    BY <1>2, <2>1, StorePuts DEF AddStream, Fifo!Next
  <2>2. CASE UNCHANGED smVars
    BY <1>2, <2>2, FifoPutsDown DEF AddStream, smVars
  <2>3. QED
    BY <1>2, <2>1, <2>2 DEF AddStream, FreeLostBaby
<1>3. CASE SkipSubmit \/ GetFrameInfo \/ LeaveFrame \/ RequestNothing \/ CopyDone \/ Crash
           \/ ResetDone
  BY <1>3, FifoPutsDown DEF SkipSubmit, GetFrameInfo, LeaveFrame, RequestNothing, CopyDone,
                            Crash, ResetDone, DecoderAt, smVars
<1>4. CASE RequestStream \/ Reset \/ (\E t \in SeekTimes : Rewind(t))
  BY <1>4, RequestTakes, ResetClears, RewindRewinds DEF Fifo!Next
<1>5. CASE UNCHANGED vars
  BY <1>5, FifoPutsDown DEF vars, smVars
<1>6. QED
  BY <1>1, <1>2, <1>3, <1>4, <1>5, FlushDiscards, ReturnGivesBack
     DEF Next, DemuxNext, DecoderNext

\* The ring implements the FIFO for every size of it, every allocator, every
\* seek and every crash, provided that at least two slots are preserved (102 of
\* 1024 in the build): with one, a frame that is given back can make a full ring
\* look empty.
THEOREM RingImplementsFifo ==
    ASSUME 2 <= PreserveFrameNum
    PROVE  Spec => RingIsFifo
<1>1. Init => Fifo!Init /\ CopiedSlotAhead
  <2> SUFFICES ASSUME Init PROVE Fifo!Init /\ CopiedSlotAhead
    OBVIOUS
  <2>1. KeptNum = 0
    BY DEF Init, KeptNum, WrappedRound, EmptyFrame, Slots
  <2>2. Kept = <<>>
    BY <2>1 DEF Kept
  <2>3. validFrameNum = 0
    BY DistanceLemma DEF Init, validFrameNum, Slots
  <2>4. QED
    BY <2>1, <2>2, <2>3 DEF Init, Fifo!Init, Place, Taken, CopiedSlotAhead, DemuxAt, DecoderAt
<1>2. IInv /\ CopiedSlotAhead /\ [Next]_vars => CopiedSlotAhead'
  BY CopiedSlotAheadStep
<1>3. IInv /\ IInv' /\ CopiedSlotAhead /\ [Next]_vars => [Fifo!Next]_(Fifo!fifoVars)
  BY StepIsFifo
<1>4. QED
  BY <1>1, <1>2, <1>3, Invariance, PTL DEF Spec, RingIsFifo, Fifo!Spec

-----------------------------------------------------------------------------
(* The byte count.                                                         *)

Lengths == [i \in Slots |-> pFrames[i].nLength]

\* SizeFrom is defined: there is a function that adds up what the frames hold.
SizeDefined ==
    Sums(SizeFrom, Lengths, nWritePos) /\ \A i \in Slots : SizeFrom[i] \in Nat

SizeInv == SizeDefined /\ SizeExact

\* Any function that adds up the lengths is SizeFrom.
LEMMA SizeFromIs ==
    ASSUME nWritePos \in Slots, NEW g, Sums(g, Lengths, nWritePos)
    PROVE  Sums(SizeFrom, Lengths, nWritePos) /\ SizeFrom = g
<1>1. \A i \in Slots : Lengths[i] = pFrames[i].nLength
  BY DEF Lengths
<1>2. g = [i \in Slots |-> IF i = nWritePos THEN 0 ELSE pFrames[i].nLength + g[Succ(i)]]
  BY <1>1 DEF Sums
<1>3. SizeFrom = [i \in Slots |-> IF i = nWritePos THEN 0
                                  ELSE pFrames[i].nLength + SizeFrom[Succ(i)]]
  BY <1>2 DEF SizeFrom
<1>4. Sums(SizeFrom, Lengths, nWritePos)
  BY <1>1, <1>3 DEF Sums
<1>5. QED
  BY <1>4, SumsUnique

\* The same after a step.
LEMMA SizeFromIsPrime ==
    ASSUME nWritePos' \in Slots, NEW g, Sums(g, Lengths', nWritePos')
    PROVE  Sums(SizeFrom', Lengths', nWritePos') /\ SizeFrom' = g
<1>1. \A i \in Slots : Lengths'[i] = pFrames'[i].nLength
  BY DEF Lengths
<1>2. g = [i \in Slots |-> IF i = nWritePos' THEN 0 ELSE pFrames'[i].nLength + g[Succ(i)]]
  BY <1>1 DEF Sums
<1>3. SizeFrom' = [i \in Slots |-> IF i = nWritePos' THEN 0
                                   ELSE pFrames'[i].nLength + SizeFrom'[Succ(i)]]
  BY <1>2 DEF SizeFrom
<1>4. Sums(SizeFrom', Lengths', nWritePos')
  BY <1>1, <1>3 DEF Sums
<1>5. QED
  BY <1>4, SumsUnique

\* What SizeFrom gives for the writer and for the other slots.
LEMMA SizeFromSteps ==
    ASSUME SizeDefined, nWritePos \in Slots, NEW i \in Slots
    PROVE  /\ SizeFrom[i] \in Nat
           /\ i = nWritePos => SizeFrom[i] = 0
           /\ i # nWritePos => SizeFrom[i] = pFrames[i].nLength + SizeFrom[Succ(i)]
BY SuccLemma DEF SizeDefined, Sums, Lengths

\* As long as no frame is stored, the sums stay.
LEMMA SizeFromStays ==
    ASSUME SizeDefined, nWritePos \in Slots, UNCHANGED <<pFrames, nWritePos>>
    PROVE  SizeDefined' /\ SizeFrom' = SizeFrom
<1>1. Lengths' = Lengths
  BY DEF Lengths
<1>2. Sums(SizeFrom', Lengths', nWritePos') /\ SizeFrom' = SizeFrom
  BY <1>1, SizeFromIsPrime DEF SizeDefined
<1>3. QED
  BY <1>2 DEF SizeDefined

\* A stored frame adds its length to the sums of all slots but the one that is
\* written next.
LEMMA StoreSizes ==
    ASSUME IInv, SizeInv, NEW len \in Nat, ~invalidFrameNumTooSmall,
           \E pts : StoreFrame(len, pts)
    PROVE  SizeInv'
<1> DEFINE next == Succ(nWritePos)
           g == [i \in Slots |-> IF i = next THEN 0 ELSE SizeFrom[i] + len]
<1>1. /\ nReadPos \in Slots /\ nWritePos \in Slots /\ next \in Slots
      /\ nWritePos' = next /\ next # nReadPos /\ nReadPos' = nReadPos
      /\ nValidDataSize' = nValidDataSize + len
  BY SuccLemma, RoomLemma DEF IInv, TypeOK, StoreFrame
<1>2. next # nWritePos
  BY <1>1, SuccLemma DEF Slots
<1>3. \A i \in Slots : Lengths'[i] = IF i = nWritePos THEN len ELSE pFrames[i].nLength
  BY <1>1 DEF IInv, TypeOK, StoreFrame, Lengths
<1>4. ASSUME NEW i \in Slots
      PROVE  g[i] = IF i = next THEN 0 ELSE Lengths'[i] + g[Succ(i)]
  <2>1. Succ(i) \in Slots /\ (Succ(i) = next <=> i = nWritePos)
    BY <1>1, SuccLemma DEF Slots
  <2>2. CASE i = next
    BY <2>2
  <2>3. CASE i = nWritePos
    BY <1>1, <1>2, <1>3, <2>1, <2>3, SizeFromSteps DEF SizeInv
  <2>4. CASE i # next /\ i # nWritePos
    <3>1. SizeFrom[i] = pFrames[i].nLength + SizeFrom[Succ(i)] /\ SizeFrom[Succ(i)] \in Nat
      BY <1>1, <2>1, <2>4, SizeFromSteps DEF SizeInv
    <3>2. Lengths'[i] = pFrames[i].nLength /\ pFrames[i].nLength \in Nat
      BY <1>3, <2>4 DEF IInv, TypeOK
    <3>3. g[i] = SizeFrom[i] + len /\ g[Succ(i)] = SizeFrom[Succ(i)] + len
      BY <2>1, <2>4
    <3>4. QED
      BY <2>4, <3>1, <3>2, <3>3
  <2>5. QED
    BY <2>2, <2>3, <2>4
<1>5. \A i \in Slots : g[i] \in Nat
  BY <1>1, SizeFromSteps DEF SizeInv
<1>6. g[nReadPos] = SizeFrom[nReadPos] + len
  BY <1>1
<1>7. g = [i \in Slots |-> g[i]]
  OBVIOUS
<1> HIDE DEF g
<1>8. Sums(g, Lengths', nWritePos')
  BY <1>1, <1>4, <1>7 DEF Sums
<1>9. Sums(SizeFrom', Lengths', nWritePos') /\ SizeFrom' = g
  BY <1>1, <1>8, SizeFromIsPrime
<1>10. QED
  BY <1>1, <1>5, <1>6, <1>9 DEF SizeInv, SizeDefined, SizeExact

\* In a ring that has just been emptied nothing adds up to anything.
LEMMA EmptySizes ==
    ASSUME \A i \in Slots : Lengths[i] = 0, nReadPos = 0, nWritePos = 0, nValidDataSize = 0
    PROVE  SizeInv
<1> DEFINE g == [i \in Slots |-> 0]
<1>1. 0 \in Slots
  BY DEF Slots
<1>2. Sums(g, Lengths, 0)
  BY SuccLemma DEF Sums
<1>3. Sums(SizeFrom, Lengths, nWritePos) /\ SizeFrom = g
  BY <1>1, <1>2, SizeFromIs
<1>4. QED
  BY <1>1, <1>3 DEF SizeInv, SizeDefined, SizeExact

\* The count follows every operation of the ring.
LEMMA SizeStep ==
    ASSUME IInv, IInv', CopiedSlotAhead, SizeInv, [Next]_vars
    PROVE  SizeInv'
<1>0. nReadPos \in Slots /\ nWritePos \in Slots
  BY DEF IInv, TypeOK
<1>1. CASE UNCHANGED smVars
  BY <1>0, <1>1, SizeFromStays DEF SizeInv, SizeExact, smVars
<1>2. CASE TakeOldest /\ validFrameNum > 0
  <2>1. nReadPos # nWritePos /\ Succ(nReadPos) \in Slots /\ pFrames[nReadPos].nLength \in Nat
    BY <1>0, <1>2, ValidLemma, SuccLemma DEF IInv, TypeOK
  <2>2. SizeDefined' /\ SizeFrom' = SizeFrom
    BY <1>0, <1>2, SizeFromStays DEF SizeInv, TakeOldest
  <2>3. SizeFrom[nReadPos] = pFrames[nReadPos].nLength + SizeFrom[Succ(nReadPos)]
        /\ SizeFrom[Succ(nReadPos)] \in Nat
    BY <1>0, <2>1, SizeFromSteps DEF SizeInv
  <2>4. nValidDataSize = SizeFrom[nReadPos]
    BY DEF SizeInv, SizeExact
  <2>5. nValidDataSize' = SizeFrom'[nReadPos']
    BY <1>2, <2>1, <2>2, <2>3, <2>4 DEF TakeOldest
  <2>6. QED
    BY <2>2, <2>5 DEF SizeInv, SizeExact
<1>3. CASE FlushOldest
  BY <1>1, <1>2, <1>3 DEF FlushOldest
<1>4. ASSUME NEW len \in 1 .. demux.size, NEW pts \in PtsValues, AddStream(len, pts)
      PROVE  SizeInv'
  <2>1. len \in Nat
    BY DEF IInv, TypeOK
  <2>2. QED
    BY <1>1, <1>4, <2>1, StoreSizes DEF AddStream, FreeLostBaby
<1>5. CASE ReturnStream
  <2>1. CASE UNCHANGED smVars
    BY <1>1, <2>1
  <2>2. CASE /\ decoder.slot = Pred(nReadPos) /\ nReadPos' = Pred(nReadPos)
             /\ nValidDataSize' = nValidDataSize + pFrames[decoder.slot].nLength
             /\ UNCHANGED <<pFrames, nWritePos>>
    <3>1. /\ Pred(nReadPos) # nWritePos /\ Pred(nReadPos) \in Slots
          /\ Succ(Pred(nReadPos)) = nReadPos
      BY <1>0, <1>5, <2>2, PredLemma DEF CopiedSlotAhead, ReturnStream
    <3>2. SizeDefined' /\ SizeFrom' = SizeFrom
      BY <1>0, <2>2, SizeFromStays DEF SizeInv
    <3>3. SizeFrom[Pred(nReadPos)] = pFrames[Pred(nReadPos)].nLength + SizeFrom[nReadPos]
          /\ SizeFrom[nReadPos] \in Nat
      BY <1>0, <3>1, SizeFromSteps DEF SizeInv
    <3>4. nValidDataSize = SizeFrom[nReadPos] /\ pFrames[Pred(nReadPos)].nLength \in Nat
      BY <3>1 DEF SizeInv, SizeExact, IInv, TypeOK
    <3>5. nValidDataSize' = SizeFrom'[nReadPos']
      BY <2>2, <3>2, <3>3, <3>4
    <3>6. QED
      BY <3>2, <3>5 DEF SizeInv, SizeExact
  <2>3. QED
    BY <1>5, <2>1, <2>2 DEF ReturnStream
<1>6. ASSUME NEW t, Rewind(t) PROVE SizeInv'
  <2>1. PICK find \in Slots : nReadPos' = find /\ nValidDataSize' = SizeFrom[find]
    BY <1>6 DEF Rewind
  <2>2. SizeDefined' /\ SizeFrom' = SizeFrom
    BY <1>0, <1>6, SizeFromStays DEF SizeInv, Rewind
  <2>3. QED
    BY <2>1, <2>2 DEF SizeInv, SizeExact
<1>7. CASE Reset
  <2> DEFINE g == [i \in Slots |-> 0]
  <2>1. 0 \in Slots /\ nReadPos' = 0 /\ nWritePos' = 0 /\ nValidDataSize' = 0
    BY <1>7 DEF Slots, Reset
  <2>2. \A i \in Slots : Lengths'[i] = 0
    BY <1>7 DEF Reset, Lengths, EmptyFrame
  <2>3. Sums(g, Lengths', 0)
    BY <2>2, SuccLemma DEF Sums
  <2>4. Sums(SizeFrom', Lengths', nWritePos') /\ SizeFrom' = g
    BY <2>1, <2>3, SizeFromIsPrime
  <2>5. QED
    BY <2>1, <2>4 DEF SizeInv, SizeDefined, SizeExact
<1>8. CASE (\E size \in RequireSizes : RequestBuffer(size)) \/ SkipSubmit
  BY <1>1, <1>8 DEF RequestBuffer, SkipSubmit
<1>9. CASE RequestStream
  BY <1>2, <1>9 DEF RequestStream
<1>10. CASE GetFrameInfo \/ LeaveFrame \/ RequestNothing \/ CopyDone \/ Crash \/ ResetDone
  BY <1>1, <1>10 DEF GetFrameInfo, LeaveFrame, RequestNothing, CopyDone, Crash, ResetDone
<1>11. QED
  BY <1>1, <1>3, <1>4, <1>5, <1>6, <1>7, <1>8, <1>9, <1>10
     DEF Next, DemuxNext, DecoderNext, vars

\* The bytes counted are those of the readable frames, whatever has been added,
\* taken, given back, flushed, rewound to or reset, in a ring of any size in which
\* at least two slots are preserved.
THEOREM SizeAlways ==
    ASSUME 2 <= PreserveFrameNum
    PROVE  Spec => []SizeExact
<1>1. Init => CopiedSlotAhead /\ SizeInv
  <2> SUFFICES ASSUME Init PROVE CopiedSlotAhead /\ SizeInv
    OBVIOUS
  <2>1. \A i \in Slots : Lengths[i] = 0
    BY DEF Init, Lengths, EmptyFrame
  <2>2. QED
    BY <2>1, EmptySizes DEF Init, CopiedSlotAhead, DemuxAt, DecoderAt
<1>2. IInv /\ CopiedSlotAhead /\ [Next]_vars => CopiedSlotAhead'
  BY CopiedSlotAheadStep
<1>3. IInv /\ IInv' /\ CopiedSlotAhead /\ SizeInv /\ [Next]_vars => SizeInv'
  BY SizeStep
<1>4. SizeInv => SizeExact
  BY DEF SizeInv
<1>5. QED
  BY <1>1, <1>2, <1>3, <1>4, Invariance, PTL DEF Spec
============
