-------------------------- MODULE WfdSessionProofs --------------------------
(***************************************************************************)
(* Proofs about WfdSession for any number of datagrams, streams and blocks *)
(* and any number of packets that the parser keeps.                        *)
(***************************************************************************)
EXTENDS WfdSession, FiniteSetTheorems, TLAPS

USE NoneAssumption, BoundsAssumption, ContentsAssumption DEF Joined

\* The steps of Stop that come after the flag has been set.
Teardown == WaitEnds \/ StopSink \/ Join \/ DestroyPlayer \/ TppDestroy \/ Drain

\* The steps of the demux thread outside push_es_data.
Loops ==
    \/ SearchCheck \/ SearchEmpty \/ TppFill \/ PlayerInitAVandStart
    \/ Replay \/ FeedCheck \/ TakeNothing \/ Take \/ Handled

-----------------------------------------------------------------------------
\* Taking from a queue.
LEMMA TakeFrom ==
    ASSUME NEW S, NEW q \in Seq(S), q # <<>>
    PROVE  Head(q) \in S /\ Tail(q) \in Seq(S)
OBVIOUS

\* The queues hold datagrams, whoever appends to them and takes from them.
LEMMA QueuesStep ==
    ASSUME QueuesTyped, Next
    PROVE  QueuesTyped'
<1> DEFINE Datagram == [buf : Buf, pids : SUBSET Pid]
<1>1. CASE Drain
  <2>1. CASE UNCHANGED <<rtpQueue, tppQueue>>
    BY <1>1, <2>1 DEF QueuesTyped, Drain, receiver
  <2>2. CASE tppQueue # <<>> /\ tppQueue' = Tail(tppQueue) /\ UNCHANGED rtpQueue
    BY <1>1, <2>2, TakeFrom DEF QueuesTyped, Drain, receiver
  <2>3. CASE rtpQueue # <<>> /\ rtpQueue' = Tail(rtpQueue) /\ UNCHANGED tppQueue
    BY <1>1, <2>3, TakeFrom DEF QueuesTyped, Drain, receiver
  <2>4. QED
    BY <1>1, <2>1, <2>2, <2>3 DEF Drain
<1>2. CASE SinkNext
  <2>1. ASSUME NEW pids \in Contents, StreamFeedData(pids)
        PROVE  QueuesTyped'
    <3>1. fed + 1 \in Buf /\ fed + 1 \in 0 .. MaxFed
      BY <2>1 DEF QueuesTyped, StreamFeedData, Buf
    <3>2. [buf |-> fed + 1, pids |-> pids] \in Datagram
      BY <3>1
    <3>3. QED
      BY <2>1, <3>1, <3>2 DEF QueuesTyped, StreamFeedData
  <2>2. QED
    BY <1>2, <2>1 DEF SinkNext, SinkConnects, SinkEnds, QueuesTyped
<1>3. CASE TppFill
  <2>1. Head(rtpQueue) \in Datagram /\ Tail(rtpQueue) \in Seq(Datagram)
    BY <1>3, TakeFrom DEF QueuesTyped, TppFill
  <2>2. Append(tppQueue, Head(rtpQueue).buf) \in Seq(Buf)
    BY <2>1 DEF QueuesTyped
  <2>3. QED
    BY <1>3, <2>1, <2>2 DEF QueuesTyped, TppFill, PushedBehind, receiver
<1>4. CASE Replay \/ Take
  <2>1. CASE UNCHANGED <<rtpQueue, tppQueue>>
    BY <1>4, <2>1 DEF QueuesTyped, Replay, Take, receiver
  <2>2. CASE tppQueue # <<>> /\ tppQueue' = Tail(tppQueue) /\ UNCHANGED rtpQueue
    BY <1>4, <2>2, TakeFrom DEF QueuesTyped, Replay, Take, receiver
  <2>3. CASE rtpQueue # <<>> /\ rtpQueue' = Tail(rtpQueue) /\ UNCHANGED tppQueue
    BY <1>4, <2>3, TakeFrom DEF QueuesTyped, Replay, Take, receiver
  <2>4. QED
    BY <1>4, <2>1, <2>2, <2>3 DEF Replay, Take
<1>5. ASSUME UNCHANGED <<fed, rtpQueue, tppQueue>>
      PROVE  QueuesTyped'
  BY <1>5 DEF QueuesTyped
<1>6. CASE Setup \/ Start \/ Stop \/ WaitEnds \/ StopSink \/ Join \/ DestroyPlayer \/ TppDestroy
  BY <1>5, <1>6 DEF Setup, Start, Stop, WaitEnds, StopSink, Join, DestroyPlayer,
         TppDestroy, receiver
<1>7. CASE SearchCheck \/ SearchEmpty \/ PlayerInitAVandStart \/ FeedCheck \/ TakeNothing \/ Handled
  BY <1>5, <1>7 DEF SearchCheck, SearchEmpty, PlayerInitAVandStart, FeedCheck,
         TakeNothing, Handled, receiver
<1>8. CASE (\E s \in Stream : Push(s)) \/ RequestGranted \/ RequestGivenUp \/ Fill
  BY <1>5, <1>8 DEF Push, RequestGranted, RequestGivenUp, Fill, receiver
<1>9. CASE (\E s \in Stream, b \in Block : PlayerFrees(s, b)) \/ UNCHANGED vars
  BY <1>5, <1>9 DEF PlayerFrees, vars, receiver
<1>10. QED
  BY <1>1, <1>2, <1>3, <1>4, <1>6, <1>7, <1>8, <1>9 DEF Next, CallerNext, DemuxNext

-----------------------------------------------------------------------------
\* The caller's own steps: what it destroys, nobody uses any more.
LEMMA CallerIInv ==
    ASSUME IInv, CallerNext
    PROVE  DemuxTyped' /\ ThreadsInStep' /\ DemuxHas' /\ FilledBlockLent'
<1>1. UNCHANGED <<mdBuf, filling, owner>>
  BY DEF CallerNext, Setup, Start, Stop, WaitEnds, StopSink, Join, DestroyPlayer,
         TppDestroy, Drain, filters
<1>2. CASE Setup \/ Stop
  BY <1>1, <1>2 DEF IInv, DemuxTyped, ThreadsInStep, DemuxHas, FilledBlockLent, Lent,
         Setup, Stop, CallerGoes, parser, receiver
<1>3. CASE Start
  <2>1. demux.pc = "off" /\ demux' = [demux EXCEPT !.pc = "search"]
    BY <1>3 DEF IInv, ThreadsInStep, Start, CallerGoes
  <2>2. DemuxTyped' /\ demux'.pc = "search"
    BY <1>1, <2>1 DEF IInv, DemuxTyped
  <2>3. QED
    BY <1>1, <1>3, <2>2 DEF IInv, ThreadsInStep, DemuxHas, FilledBlockLent, Lent,
           Start, CallerGoes
<1>4. CASE WaitEnds \/ StopSink \/ Join \/ DestroyPlayer \/ TppDestroy \/ Drain
  <2>1. UNCHANGED <<demux, exitFlag>>
    BY <1>4 DEF WaitEnds, StopSink, Join, DestroyPlayer, TppDestroy, Drain
  <2>2. DemuxTyped' /\ FilledBlockLent'
    BY <1>1, <2>1 DEF IInv, DemuxTyped, FilledBlockLent, Lent
  <2>3. CASE WaitEnds \/ StopSink \/ Join
    BY <1>1, <2>1, <2>2, <2>3 DEF IInv, ThreadsInStep, DemuxHas, WaitEnds, StopSink, Join,
           CallerGoes, parser, receiver
  <2>4. CASE DestroyPlayer \/ TppDestroy
    BY <1>1, <2>1, <2>2, <2>4 DEF IInv, ThreadsInStep, DemuxHas, DestroyPlayer, TppDestroy,
           CallerGoes, parser, receiver
  <2>5. CASE Drain
    <3>1. caller = "drain" /\ caller' \in {"drain", "stopped"} /\ UNCHANGED <<sink, tpp, player>>
      BY <2>5 DEF Drain, receiver, parser
    <3>2. QED
      BY <1>1, <2>1, <2>2, <3>1 DEF IInv, ThreadsInStep, DemuxHas
  <2>6. QED
    BY <1>4, <2>3, <2>4, <2>5
<1>5. QED
  BY <1>2, <1>3, <1>4 DEF CallerNext

\* The receiver does not touch what the invariant is about, and does not come
\* back once its thread has ended.
LEMMA SinkIInv ==
    ASSUME IInv, SinkNext
    PROVE  DemuxTyped' /\ ThreadsInStep' /\ DemuxHas' /\ FilledBlockLent'
<1>1. UNCHANGED <<control, parser, demux, filters>>
  BY DEF SinkNext, SinkConnects, SinkEnds, StreamFeedData
<1>2. sink = "gone" => sink' = "gone"
  BY DEF SinkNext, SinkConnects, SinkEnds, StreamFeedData
<1>3. QED
  BY <1>1, <1>2 DEF IInv, DemuxTyped, ThreadsInStep, DemuxHas, FilledBlockLent, Lent,
         control, parser, filters

\* The demux thread's loops: it handles datagrams only once the player has been
\* started and the parser made.
LEMMA LoopsIInv ==
    ASSUME IInv, Loops
    PROVE  DemuxTyped' /\ ThreadsInStep' /\ DemuxHas' /\ FilledBlockLent'
<1>1. UNCHANGED <<caller, exitFlag, sink, mdBuf, filling, owner>>
  BY DEF Loops, SearchCheck, SearchEmpty, TppFill, PlayerInitAVandStart, Replay,
         FeedCheck, TakeNothing, Take, Handled, control, receiver, filters
<1>2. demux.pc \notin {"off", "gone"}
  BY DEF Loops, SearchCheck, SearchEmpty, TppFill, PlayerInitAVandStart, Replay,
         FeedCheck, TakeNothing, Take, Handled, DemuxGoes
<1>3. CASE SearchCheck \/ SearchEmpty \/ TppFill \/ PlayerInitAVandStart
  <2>1. PICK pc \in {"search", "pop", "waitSetup", "replay", "gone"} :
            demux' = [demux EXCEPT !.pc = pc]
    BY <1>3 DEF SearchCheck, SearchEmpty, TppFill, PlayerInitAVandStart, DemuxGoes
  <2>2. DemuxTyped' /\ demux'.pc = pc
    BY <1>1, <2>1 DEF IInv, DemuxTyped
  <2>3. FilledBlockLent'
    BY <1>1, <2>2 DEF IInv, FilledBlockLent, Lent
  <2>4. /\ pc \in {"pop", "waitSetup"} => tpp'
        /\ pc = "replay" => tpp' /\ player' = "started"
        /\ player' = player \/ player' = "started"
    <3>1. CASE SearchCheck
      BY <2>2, <3>1 DEF IInv, DemuxTyped, SearchCheck, DemuxGoes, control
    <3>2. CASE SearchEmpty
      BY <2>2, <3>2 DEF IInv, DemuxTyped, DemuxHas, SearchEmpty, DemuxGoes, control, parser
    <3>3. CASE TppFill
      <4>1. demux.pc = "pop" /\ UNCHANGED <<tpp, player>>
        BY <3>3 DEF TppFill, DemuxGoes, control
      <4>2. demux'.pc \in {"waitSetup", "search"}
        BY <3>3 DEF IInv, DemuxTyped, TppFill, DemuxGoes
      <4>3. QED
        BY <2>2, <4>1, <4>2 DEF IInv, DemuxHas
    <3>4. CASE PlayerInitAVandStart
      <4>1. demux.pc = "waitSetup" /\ UNCHANGED tpp
        BY <3>4 DEF PlayerInitAVandStart, DemuxGoes, parser
      <4>2. \/ demux'.pc = "replay" /\ player' = "started"
            \/ demux'.pc = "gone" /\ UNCHANGED player
        BY <3>4 DEF IInv, DemuxTyped, PlayerInitAVandStart, DemuxGoes
      <4>3. QED
        BY <2>2, <4>1, <4>2 DEF IInv, DemuxHas
    <3>5. QED
      BY <1>3, <3>1, <3>2, <3>3, <3>4
  <2>5. QED
    BY <1>1, <1>2, <2>2, <2>3, <2>4 DEF IInv, ThreadsInStep, DemuxHas
<1>4. CASE Replay \/ FeedCheck \/ TakeNothing \/ Take \/ Handled
  <2>1. demux.pc \in {"replay", "feed", "take", "handle"} /\ UNCHANGED <<player, tpp>>
    <3>1. CASE Replay \/ Take
      BY <3>1 DEF Replay, Take, control, parser
    <3>2. CASE FeedCheck \/ TakeNothing \/ Handled
      BY <3>2 DEF FeedCheck, TakeNothing, Handled, DemuxGoes, control, parser
    <3>3. QED
      BY <1>4, <3>1, <3>2
  <2>2. DemuxTyped' /\ demux'.pc \in {"replay", "feed", "take", "handle", "gone"}
    <3> DEFINE Step(pc, back, cur, left) ==
                 demux' = [demux EXCEPT !.pc = pc, !.back = back, !.cur = cur, !.left = left]
    <3>1. demux.back \in {"replay", "feed"} /\ demux.cur \in Buf \cup {None}
          /\ demux.left \in 0 .. MaxPieces /\ 0 \in 0 .. MaxPieces /\ MaxPieces \in 0 .. MaxPieces
      BY DEF IInv, DemuxTyped
    <3>2. CASE Replay
      <4>1. CASE tppQueue = <<>>
        BY <1>1, <3>1, <3>2, <4>1 DEF IInv, DemuxTyped, Replay
      <4>2. CASE tppQueue # <<>>
        <5>1. Head(tppQueue) \in Buf
          BY <4>2, TakeFrom DEF IInv, QueuesTyped
        <5>2. Step("handle", "replay", Head(tppQueue), MaxPieces)
          BY <3>2, <4>2 DEF Replay
        <5>3. QED
          BY <1>1, <3>1, <5>1, <5>2 DEF IInv, DemuxTyped
      <4>3. QED
        BY <4>1, <4>2
    <3>3. CASE Take
      <4>1. Head(rtpQueue).buf \in Buf
        <5>1. Head(rtpQueue) \in [buf : Buf, pids : SUBSET Pid]
          BY <3>3, TakeFrom DEF IInv, QueuesTyped, Take
        <5>2. QED
          BY <5>1
      <4>2. Step("handle", "feed", Head(rtpQueue).buf, MaxPieces)
        BY <3>3 DEF Take
      <4>3. QED
        BY <1>1, <3>1, <4>1, <4>2 DEF IInv, DemuxTyped
    <3>4. CASE Handled
      <4>1. demux' = [demux EXCEPT !.pc = demux.back, !.cur = None, !.left = 0]
        BY <3>4 DEF Handled
      <4>2. QED
        BY <1>1, <3>1, <4>1 DEF IInv, DemuxTyped
    <3>5. CASE FeedCheck \/ TakeNothing
      BY <1>1, <3>1, <3>5 DEF IInv, DemuxTyped, FeedCheck, TakeNothing, DemuxGoes
    <3>6. QED
      BY <1>4, <3>2, <3>3, <3>4, <3>5
  <2>3. FilledBlockLent'
    BY <1>1, <2>2 DEF IInv, FilledBlockLent, Lent
  <2>4. QED
    BY <1>1, <1>2, <2>1, <2>2, <2>3 DEF IInv, ThreadsInStep, DemuxHas
<1>5. QED
  BY <1>3, <1>4 DEF Loops

-----------------------------------------------------------------------------
\* push_es_data hands a block over only together with the mark that it is being
\* filled, and fills only what it has just been granted.
LEMMA PushIInv ==
    ASSUME IInv, (\E s \in Stream : Push(s)) \/ RequestGranted \/ RequestGivenUp \/ Fill
    PROVE  DemuxTyped' /\ ThreadsInStep' /\ DemuxHas' /\ FilledBlockLent'
<1>1. UNCHANGED <<caller, exitFlag, player, sink, tpp>>
  BY DEF Push, RequestGranted, RequestGivenUp, Fill, control, receiver, parser
<1>2. demux.pc \in {"handle", "request", "fill"}
  BY DEF Push, RequestGranted, RequestGivenUp, Fill, DemuxGoes
<1>3. ASSUME NEW s \in Stream, Submit(s)
      PROVE  /\ owner' \in [Stream -> [Block -> {"nobody", "demux", "player"}]]
             /\ filling' \in [Stream -> BOOLEAN] /\ ~filling'[s]
             /\ \A t \in Stream \ {s} : owner'[t] = owner[t] /\ filling'[t] = filling[t]
  BY <1>3 DEF IInv, DemuxTyped, Submit, Lent
<1>4. ASSUME NEW s \in Stream, Push(s)
      PROVE  DemuxTyped' /\ DemuxHas' /\ FilledBlockLent' /\ demux'.pc \in {"request", "fill"}
  <2>1. UNCHANGED mdBuf /\ demux.left > 0 /\ demux.pc = "handle"
    BY <1>4 DEF Push
  <2>2. PICK pc \in {"request", "fill"} :
            /\ demux' = [demux EXCEPT !.pc = pc, !.stream = s]
            /\ pc = "fill" <=> filling'[s]
    BY <1>4 DEF Push
  <2>3. /\ owner' \in [Stream -> [Block -> {"nobody", "demux", "player"}]]
        /\ filling' \in [Stream -> BOOLEAN]
        /\ \A t \in Stream : filling'[t] => filling[t] /\ owner'[t] = owner[t]
    <3>1. CASE UNCHANGED <<filling, owner>>
      BY <3>1 DEF IInv, DemuxTyped
    <3>2. CASE Submit(s)
      BY <1>3, <3>2
    <3>3. QED
      BY <1>4, <3>1, <3>2 DEF Push
  <2>4. DemuxTyped' /\ demux'.pc = pc /\ demux'.stream = s /\ demux'.left = demux.left
    BY <2>1, <2>2, <2>3 DEF IInv, DemuxTyped
  <2>5. DemuxHas'
    BY <1>1, <2>1, <2>2, <2>4 DEF IInv, DemuxHas
  <2>6. FilledBlockLent'
    BY <1>1, <2>1, <2>2, <2>3, <2>4 DEF IInv, FilledBlockLent, Lent
  <2>7. QED
    BY <2>2, <2>4, <2>5, <2>6
<1>5. CASE RequestGranted
  <2>1. PICK b \in Block :
            /\ demux.pc = "request" /\ demux' = [demux EXCEPT !.pc = "fill"]
            /\ owner' = [owner EXCEPT ![demux.stream][b] = "demux"]
            /\ mdBuf' = [mdBuf EXCEPT ![demux.stream] = b]
            /\ UNCHANGED filling
    BY <1>5 DEF RequestGranted, DemuxGoes
  <2>2. demux.stream \in Stream /\ demux.left > 0 /\ ~filling[demux.stream] /\ b # None
    BY <2>1 DEF IInv, DemuxHas
  <2>3. DemuxTyped' /\ demux'.pc = "fill" /\ demux'.stream = demux.stream /\ demux'.left = demux.left
    BY <2>1, <2>2 DEF IInv, DemuxTyped
  <2>4. Lent(demux.stream)'
    BY <2>1, <2>2 DEF IInv, DemuxTyped, Lent
  <2>5. \A t \in Stream \ {demux.stream} : owner'[t] = owner[t] /\ mdBuf'[t] = mdBuf[t]
    BY <2>1 DEF IInv, DemuxTyped
  <2>6. FilledBlockLent'
    BY <1>1, <2>1, <2>3, <2>4, <2>5 DEF IInv, FilledBlockLent, Lent
  <2>7. QED
    BY <1>1, <1>2, <2>1, <2>2, <2>3, <2>6 DEF IInv, DemuxHas, ThreadsInStep
<1>6. CASE RequestGivenUp
  <2>1. /\ demux.pc = "request" /\ demux' = [demux EXCEPT !.pc = "fill"] /\ exitFlag
        /\ UNCHANGED <<mdBuf, filling, owner>>
    BY <1>6 DEF RequestGivenUp, DemuxGoes, filters
  <2>2. DemuxTyped' /\ demux'.pc = "fill" /\ demux'.stream = demux.stream /\ demux'.left = demux.left
    BY <2>1 DEF IInv, DemuxTyped
  <2>3. FilledBlockLent'
    BY <1>1, <2>1 DEF FilledBlockLent
  <2>4. QED
    BY <1>1, <1>2, <2>1, <2>2, <2>3 DEF IInv, DemuxHas, ThreadsInStep
<1>7. CASE Fill
  <2> DEFINE s == demux.stream
  <2>1. s \in Stream /\ demux.left > 0 /\ demux.pc = "fill" /\ UNCHANGED mdBuf
    BY <1>7 DEF IInv, DemuxHas, Fill
  <2>2. PICK pc \in {"handle", "request"} :
            /\ demux' = [demux EXCEPT !.pc = pc, !.left = @ - 1]
            /\ \/ filling' = [filling EXCEPT ![s] = TRUE] /\ UNCHANGED owner /\ pc = "handle"
               \/ Submit(s) /\ (pc = "request" => demux.left > 1)
    BY <1>7 DEF Fill
  <2>3. demux.left \in Nat /\ demux.left - 1 \in 0 .. MaxPieces
    BY <2>1 DEF IInv, DemuxTyped
  <2>4. /\ owner' \in [Stream -> [Block -> {"nobody", "demux", "player"}]]
        /\ filling' \in [Stream -> BOOLEAN] /\ (pc = "request" => ~filling'[s])
        /\ \A t \in Stream \ {s} : owner'[t] = owner[t] /\ filling'[t] = filling[t]
        /\ filling'[s] => UNCHANGED owner
    BY <1>3, <2>1, <2>2 DEF IInv, DemuxTyped
  <2>5. DemuxTyped' /\ demux'.pc = pc /\ demux'.stream = s /\ demux'.left = demux.left - 1
    BY <2>1, <2>2, <2>3, <2>4 DEF IInv, DemuxTyped
  <2>6. DemuxHas'
    <3>1. pc = "request" => demux.left - 1 > 0
      BY <2>2, <2>3, <1>3, <2>4, <2>1 DEF IInv, DemuxTyped
    <3>2. QED
      BY <1>1, <2>1, <2>2, <2>4, <2>5, <3>1 DEF IInv, DemuxHas
  <2>7. FilledBlockLent'
    BY <1>1, <2>1, <2>2, <2>4, <2>5 DEF IInv, FilledBlockLent, Lent
  <2>8. QED
    BY <1>1, <1>2, <2>2, <2>5, <2>6, <2>7 DEF IInv, ThreadsInStep
<1>8. QED
  BY <1>1, <1>2, <1>4, <1>5, <1>6, <1>7 DEF IInv, ThreadsInStep

\* The player gives up only what it has: a block that is lent stays lent.
LEMMA PlayerIInv ==
    ASSUME IInv, NEW s \in Stream, NEW b \in Block, PlayerFrees(s, b)
    PROVE  DemuxTyped' /\ ThreadsInStep' /\ DemuxHas' /\ FilledBlockLent'
<1>1. UNCHANGED <<caller, exitFlag, player, sink, tpp, demux, mdBuf, filling>>
  BY DEF PlayerFrees, control, receiver, parser
<1>2. owner[s][b] = "player" /\ owner' = [owner EXCEPT ![s][b] = "nobody"]
  BY DEF PlayerFrees
<1>3. \A t \in Stream : Lent(t) => Lent(t)'
  BY <1>1, <1>2 DEF IInv, DemuxTyped, Lent
<1>4. DemuxTyped'
  BY <1>1, <1>2 DEF IInv, DemuxTyped
<1>5. FilledBlockLent'
  BY <1>1, <1>3 DEF IInv, DemuxHas, FilledBlockLent
<1>6. QED
  BY <1>1, <1>4, <1>5 DEF IInv, ThreadsInStep, DemuxHas

-----------------------------------------------------------------------------
\* The invariant that ties the three threads of a session together holds
\* throughout, whatever the receiver gets and whenever the caller stops.
THEOREM SessionInvariance == Spec => []IInv
<1>1. Init => IInv
  BY DEF Init, IInv, QueuesTyped, DemuxTyped, ThreadsInStep, DemuxHas, FilledBlockLent
<1>2. IInv /\ [Next]_vars => IInv'
  <2>1. SUFFICES ASSUME IInv, [Next]_vars PROVE IInv'
    OBVIOUS
  <2>2. CASE UNCHANGED vars
    BY <2>1, <2>2 DEF IInv, QueuesTyped, DemuxTyped, ThreadsInStep, DemuxHas,
           FilledBlockLent, Lent, vars, control, receiver, parser, filters
  <2>3. CASE Next /\ ~UNCHANGED vars
    <3>1. QueuesTyped'
      BY <2>1, <2>3, QueuesStep DEF IInv
    <3>2. CASE CallerNext
      BY <2>1, <3>1, <3>2, CallerIInv DEF IInv
    <3>3. CASE SinkNext
      BY <2>1, <3>1, <3>3, SinkIInv DEF IInv
    <3>4. CASE DemuxNext
      BY <2>1, <3>1, <3>4, LoopsIInv, PushIInv DEF IInv, DemuxNext, Loops
    <3>5. CASE \E s \in Stream, b \in Block : PlayerFrees(s, b)
      BY <2>1, <3>1, <3>5, PlayerIInv DEF IInv
    <3>6. QED
      BY <2>3, <3>2, <3>3, <3>4, <3>5 DEF Next
  <2>4. QED
    BY <2>1, <2>2, <2>3
<1>3. QED
  BY <1>1, <1>2, PTL DEF Spec

\* The demux thread reaches the player and the parser only while they exist,
\* and the queues are emptied only when nobody fills them any more.
THEOREM NoUseAfterStop == Spec => []UsedWhileAlive
<1>1. IInv => UsedWhileAlive
  BY DEF IInv, DemuxTyped, ThreadsInStep, DemuxHas, UsedWhileAlive, Handling
<1>2. QED
  BY <1>1, SessionInvariance, PTL

\* While the session is not told to end, push_es_data writes only to blocks
\* that the player has lent it.
THEOREM WritesLentBlocks == Spec => []FilledBlockLent
<1>1. IInv => FilledBlockLent
  BY DEF IInv
<1>2. QED
  BY <1>1, SessionInvariance, PTL

-----------------------------------------------------------------------------
(* The datagrams are handled in turn.                                      *)

\* What is left of a queue moves up by one place.
LEMMA TailMovesUp ==
    ASSUME NEW S, NEW q \in Seq(S), q # <<>>
    PROVE  /\ Len(Tail(q)) = Len(q) - 1 /\ Len(q) \in Nat \ {0}
           /\ Head(q) = q[1]
           /\ \A i \in 1 .. Len(q) - 1 : Tail(q)[i] = q[i + 1]
OBVIOUS

\* A datagram received comes behind all the others.
LEMMA FeedInTurn ==
    ASSUME IInv, InTurn, NEW pids \in Contents, StreamFeedData(pids)
    PROVE  InTurn'
<1>1. fed \in Nat /\ Len(rtpQueue) \in Nat /\ Len(tppQueue) \in Nat
  BY DEF IInv, QueuesTyped
<1>2. /\ fed' = fed + 1
      /\ Len(rtpQueue') = Len(rtpQueue) + 1
      /\ rtpQueue'[Len(rtpQueue) + 1] = [buf |-> fed + 1, pids |-> pids]
      /\ \A i \in 1 .. Len(rtpQueue) : rtpQueue'[i] = rtpQueue[i]
  BY DEF IInv, QueuesTyped, StreamFeedData
<1>3. UNCHANGED <<caller, tppQueue, demux>>
  BY DEF StreamFeedData, control
<1>4. QED
  BY <1>1, <1>2, <1>3 DEF InTurn, CountedBack, SearchReplayed, Handling

\* The search puts by the datagram that it takes: it stays between those before
\* it and those after it.
LEMMA SearchInTurn ==
    ASSUME IInv, InTurn, TppFill
    PROVE  InTurn'
<1>1. fed \in Nat /\ Len(tppQueue) \in Nat
  BY DEF IInv, QueuesTyped
<1>2. /\ Len(rtpQueue') = Len(rtpQueue) - 1 /\ Len(rtpQueue) \in Nat \ {0}
      /\ Head(rtpQueue) = rtpQueue[1]
      /\ \A i \in 1 .. Len(rtpQueue) - 1 : rtpQueue'[i] = rtpQueue[i + 1]
  BY TailMovesUp DEF IInv, QueuesTyped, TppFill
<1>3. Head(rtpQueue).buf \in Buf
  <2>1. Head(rtpQueue) \in [buf : Buf, pids : SUBSET Pid]
    BY TakeFrom DEF IInv, QueuesTyped, TppFill
  <2>2. QED
    BY <2>1
<1>4. /\ Len(tppQueue') = Len(tppQueue) + 1
      /\ tppQueue'[Len(tppQueue) + 1] = rtpQueue[1].buf
      /\ \A i \in 1 .. Len(tppQueue) : tppQueue'[i] = tppQueue[i]
  BY <1>2, <1>3 DEF IInv, QueuesTyped, TppFill, PushedBehind
<1>5. /\ UNCHANGED <<caller, fed>>
      /\ demux'.pc \in {"search", "waitSetup"} /\ demux.pc = "pop"
  BY DEF IInv, DemuxTyped, TppFill, DemuxGoes, control, receiver
<1>6. caller # "drain"
  BY <1>5 DEF IInv, ThreadsInStep
<1>7. CountedBack'
  <2>1. fed' = fed /\ ~Handling'
    BY <1>5 DEF Handling
  <2>2. ASSUME NEW i \in 1 .. Len(rtpQueue')
        PROVE  rtpQueue'[i].buf = fed - Len(rtpQueue') + i
    <3>1. i + 1 \in 1 .. Len(rtpQueue) /\ rtpQueue'[i] = rtpQueue[i + 1]
      BY <1>2
    <3>2. rtpQueue[i + 1].buf = fed - Len(rtpQueue) + (i + 1)
      BY <1>6, <3>1 DEF InTurn, CountedBack
    <3>3. QED
      BY <1>1, <1>2, <3>1, <3>2
  <2>3. ASSUME NEW i \in 1 .. Len(tppQueue')
        PROVE  tppQueue'[i] = fed - Len(rtpQueue') - Len(tppQueue') + i
    <3>1. CASE i \in 1 .. Len(tppQueue)
      BY <1>1, <1>2, <1>4, <1>6, <3>1 DEF InTurn, CountedBack
    <3>2. CASE i = Len(tppQueue) + 1
      BY <1>1, <1>2, <1>4, <1>6, <3>2 DEF InTurn, CountedBack
    <3>3. QED
      BY <1>1, <1>4, <3>1, <3>2
  <2>4. QED
    BY <2>1, <2>2, <2>3 DEF CountedBack
<1>8. QED
  BY <1>5, <1>7 DEF InTurn, SearchReplayed, Handling

\* The datagram taken to be handled is the first of those that are left.
LEMMA TakeInTurn ==
    ASSUME IInv, InTurn, Replay \/ Take
    PROVE  InTurn'
<1>1. /\ fed \in Nat /\ Len(rtpQueue) \in Nat /\ Len(tppQueue) \in Nat
      /\ UNCHANGED <<caller, fed>> /\ caller # "drain"
  BY DEF IInv, QueuesTyped, ThreadsInStep, Replay, Take, control, receiver
<1>2. CASE Replay /\ tppQueue = <<>>
  <2>1. UNCHANGED <<rtpQueue, tppQueue>> /\ demux'.pc = "feed"
    BY <1>2 DEF IInv, DemuxTyped, Replay
  <2>2. QED
    BY <1>1, <1>2, <2>1 DEF InTurn, CountedBack, SearchReplayed, Handling
<1>3. CASE Replay /\ tppQueue # <<>>
  <2>1. /\ Len(tppQueue') = Len(tppQueue) - 1 /\ Len(tppQueue) \in Nat \ {0}
        /\ Head(tppQueue) = tppQueue[1]
        /\ \A i \in 1 .. Len(tppQueue) - 1 : tppQueue'[i] = tppQueue[i + 1]
    BY <1>3, TailMovesUp DEF IInv, QueuesTyped, Replay
  <2>2. /\ UNCHANGED rtpQueue /\ demux'.cur = tppQueue[1]
        /\ demux'.pc = "handle" /\ demux'.back = "replay"
    BY <1>3, <2>1 DEF IInv, DemuxTyped, Replay
  <2>3. tppQueue[1] = fed - Len(rtpQueue) - Len(tppQueue) + 1
    BY <1>1, <2>1 DEF InTurn, CountedBack
  <2>4. CountedBack'
    BY <1>1, <2>1, <2>2, <2>3 DEF InTurn, CountedBack, Handling
  <2>5. QED
    BY <2>2, <2>4 DEF InTurn, SearchReplayed, Handling
<1>4. CASE Take
  <2>1. /\ Len(rtpQueue') = Len(rtpQueue) - 1 /\ Len(rtpQueue) \in Nat \ {0}
        /\ Head(rtpQueue) = rtpQueue[1]
        /\ \A i \in 1 .. Len(rtpQueue) - 1 : rtpQueue'[i] = rtpQueue[i + 1]
    BY <1>4, TailMovesUp DEF IInv, QueuesTyped, Take
  <2>2. /\ UNCHANGED tppQueue /\ demux'.cur = rtpQueue[1].buf
        /\ demux'.pc = "handle" /\ demux'.back = "feed"
    BY <1>4, <2>1 DEF IInv, DemuxTyped, Take
  <2>3. tppQueue = <<>> /\ rtpQueue[1].buf = fed - Len(rtpQueue) + 1
    BY <1>1, <1>4, <2>1 DEF InTurn, CountedBack, SearchReplayed, Take
  <2>4. QED
    BY <1>1, <2>1, <2>2, <2>3 DEF InTurn, CountedBack, SearchReplayed, Handling
<1>5. QED
  BY <1>2, <1>3, <1>4

\* What moves no datagram leaves the count as it is.
LEMMA StillInTurn ==
    ASSUME IInv, InTurn, UNCHANGED <<rtpQueue, tppQueue, fed>>,
           caller' # "drain" => caller # "drain",
           \/ UNCHANGED demux
           \/ Handling' /\ demux.cur = demux'.cur /\ Handling /\ demux'.back = demux.back
           \/ ~Handling' /\ (demux'.pc \in {"feed", "take"} => SearchReplayed')
    PROVE  InTurn'
BY DEF InTurn, CountedBack, SearchReplayed, Handling

\* Every step keeps the count.
LEMMA InTurnStep ==
    ASSUME IInv, InTurn, Next
    PROVE  InTurn'
<1> DEFINE Still == UNCHANGED <<rtpQueue, tppQueue, fed>>
<1>1. CASE Setup \/ Start \/ Stop \/ WaitEnds \/ StopSink \/ Join \/ DestroyPlayer
  <2>1. Still /\ caller # "drain" /\ caller' # "drain"
    BY <1>1 DEF Setup, Start, Stop, WaitEnds, StopSink, Join, DestroyPlayer, CallerGoes,
           receiver
  <2>2. UNCHANGED demux \/ demux'.pc = "search"
    BY <1>1 DEF IInv, DemuxTyped, Setup, Start, Stop, WaitEnds, StopSink, Join, DestroyPlayer
  <2>3. QED
    BY <2>1, <2>2, StillInTurn DEF Handling
<1>2. CASE TppDestroy
  BY <1>2 DEF InTurn, SearchReplayed, Handling, TppDestroy, CallerGoes
<1>3. CASE Drain
  <2>1. demux' = demux /\ demux.pc = "gone"
    BY <1>3 DEF IInv, ThreadsInStep, Drain
  <2>2. SearchReplayed'
    BY <2>1 DEF SearchReplayed, Handling
  <2>3. CASE caller' = "drain"
    BY <2>2, <2>3 DEF InTurn
  <2>4. CASE caller' # "drain"
    <3>1. rtpQueue' = <<>> /\ tppQueue' = <<>>
      BY <1>3, <2>4 DEF Drain
    <3>2. QED
      BY <2>1, <2>2, <3>1 DEF InTurn, CountedBack, Handling
  <2>5. QED
    BY <2>3, <2>4
<1>4. CASE SinkNext
  <2>1. CASE SinkConnects \/ SinkEnds
    BY <2>1, StillInTurn DEF SinkConnects, SinkEnds, control
  <2>2. QED
    BY <1>4, <2>1, FeedInTurn DEF SinkNext
<1>5. CASE TppFill \/ Replay \/ Take
  BY <1>5, SearchInTurn, TakeInTurn
<1>6. CASE SearchCheck \/ SearchEmpty \/ PlayerInitAVandStart
  <2>1. Still /\ caller' = caller
    BY <1>6 DEF SearchCheck, SearchEmpty, PlayerInitAVandStart, control, receiver
  <2>2. demux'.pc \in {"search", "pop", "replay", "gone"}
    BY <1>6 DEF IInv, DemuxTyped, SearchCheck, SearchEmpty, PlayerInitAVandStart, DemuxGoes
  <2>3. QED
    BY <2>1, <2>2, StillInTurn DEF Handling
<1>7. CASE FeedCheck \/ TakeNothing
  <2>1. Still /\ caller' = caller
    BY <1>7 DEF FeedCheck, TakeNothing, control, receiver
  <2>2. demux.pc \in {"feed", "take"} /\ demux'.pc \in {"feed", "take", "gone"}
    BY <1>7 DEF IInv, DemuxTyped, FeedCheck, TakeNothing, DemuxGoes
  <2>3. QED
    BY <2>1, <2>2, StillInTurn DEF InTurn, SearchReplayed, Handling
<1>8. CASE Handled
  <2>1. Still /\ caller' = caller
    BY <1>8 DEF Handled, control, receiver
  <2>2. demux.pc = "handle" /\ demux'.pc = demux.back /\ demux.back \in {"replay", "feed"}
    BY <1>8 DEF IInv, DemuxTyped, Handled
  <2>3. QED
    BY <2>1, <2>2, StillInTurn DEF InTurn, SearchReplayed, Handling
<1>9. CASE (\E s \in Stream : Push(s)) \/ RequestGranted \/ RequestGivenUp \/ Fill
  <2>1. Still /\ caller' = caller
    BY <1>9 DEF Push, RequestGranted, RequestGivenUp, Fill, control, receiver
  <2>2. Handling /\ Handling' /\ demux'.cur = demux.cur /\ demux'.back = demux.back
    BY <1>9 DEF IInv, DemuxTyped, Push, RequestGranted, RequestGivenUp, Fill, DemuxGoes, Handling
  <2>3. QED
    BY <2>1, <2>2, StillInTurn
<1>10. CASE (\E s \in Stream, b \in Block : PlayerFrees(s, b)) \/ UNCHANGED vars
  BY <1>10, StillInTurn DEF PlayerFrees, vars, control, receiver
<1>11. QED
  BY <1>1, <1>2, <1>3, <1>4, <1>5, <1>6, <1>7, <1>8, <1>9, <1>10
     DEF Next, CallerNext, DemuxNext

\* The places of three sequences in a row.
LEMMA ThreeInARow ==
    ASSUME NEW S, NEW a \in Seq(S), NEW b \in Seq(S), NEW c \in Seq(S),
           NEW w, w = a \o b \o c
    PROVE  /\ DOMAIN w = 1 .. Len(a) + Len(b) + Len(c)
           /\ Len(w) = Len(a) + Len(b) + Len(c)
           /\ \A i \in 1 .. Len(a) : w[i] = a[i]
           /\ \A i \in 1 .. Len(b) : w[Len(a) + i] = b[i]
           /\ \A i \in 1 .. Len(c) : w[Len(a) + Len(b) + i] = c[i]
<1>1. PICK ab \in Seq(S) : ab = a \o b
  <2>1. a \o b \in Seq(S)
    OBVIOUS
  <2>2. QED
    BY <2>1, Zenon
<1>2. PICK abc \in Seq(S) : abc = ab \o c
  <2>1. ab \o c \in Seq(S)
    OBVIOUS
  <2>2. QED
    BY <2>1, Zenon
<1>3. /\ Len(ab) = Len(a) + Len(b)
      /\ \A i \in 1 .. Len(a) : ab[i] = a[i]
      /\ \A i \in 1 .. Len(b) : ab[Len(a) + i] = b[i]
  BY <1>1
<1>4. /\ Len(abc) = Len(ab) + Len(c)
      /\ \A i \in 1 .. Len(ab) : abc[i] = ab[i]
      /\ \A i \in 1 .. Len(c) : abc[Len(ab) + i] = c[i]
  BY <1>2
<1>5. DOMAIN abc = 1 .. Len(abc) /\ Len(a) \in Nat /\ Len(b) \in Nat /\ Len(c) \in Nat
  OBVIOUS
<1>6. /\ \A i \in 1 .. Len(a) : i \in 1 .. Len(ab)
      /\ \A i \in 1 .. Len(b) : Len(a) + i \in 1 .. Len(ab)
  BY <1>3, <1>5
<1>7. /\ \A i \in 1 .. Len(a) : abc[i] = a[i]
      /\ \A i \in 1 .. Len(b) : abc[Len(a) + i] = b[i]
  BY <1>3, <1>4, <1>6
<1>8. /\ DOMAIN abc = 1 .. Len(a) + Len(b) + Len(c)
      /\ Len(abc) = Len(a) + Len(b) + Len(c)
      /\ \A i \in 1 .. Len(c) : abc[Len(a) + Len(b) + i] = c[i]
  BY <1>3, <1>4, <1>5
<1>9. abc = w
  BY <1>1, <1>2
<1>10. QED
  BY <1>7, <1>8, <1>9

\* The members of a sequence, in their places or in a larger set.
LEMMA MemberOf ==
    ASSUME NEW S, NEW q \in Seq(S)
    PROVE  \A i \in 1 .. Len(q) : q[i] \in S
OBVIOUS

LEMMA LargerSeq ==
    ASSUME NEW S, NEW q \in Seq(S), NEW x
    PROVE  q \in Seq(S \cup {x})
OBVIOUS

\* The buffers of the datagrams in a queue.
LEMMA BuffersOf ==
    ASSUME NEW q \in Seq([buf : Buf, pids : SUBSET Pid])
    PROVE  /\ [i \in DOMAIN q |-> q[i].buf] \in Seq(Buf)
           /\ Len([i \in DOMAIN q |-> q[i].buf]) = Len(q)
           /\ DOMAIN q = 1 .. Len(q)
<1> DEFINE bufs == [i \in DOMAIN q |-> q[i].buf]
<1>1. DOMAIN q = 1 .. Len(q) /\ Len(q) \in Nat
  OBVIOUS
<1>2. \A i \in 1 .. Len(q) : q[i] \in [buf : Buf, pids : SUBSET Pid]
  BY MemberOf
<1>3. \A i \in 1 .. Len(q) : q[i].buf \in Buf
  BY <1>2
<1>4. bufs \in [1 .. Len(q) -> Buf]
  BY <1>1, <1>3
<1> HIDE DEF bufs
<1>5. bufs \in Seq(Buf) /\ Len(bufs) = Len(q)
  BY <1>1, <1>4
<1>6. QED
  BY <1>1, <1>5 DEF bufs

\* What is being handled, what has been put by and what has been received are
\* consecutive datagrams.
LEMMA CountedInTurn ==
    ASSUME QueuesTyped, DemuxTyped, CountedBack
    PROVE  NextInTurn
<1> DEFINE cur == IF Handling THEN <<demux.cur>> ELSE <<>>
           received == [i \in DOMAIN rtpQueue |-> rtpQueue[i].buf]
           waiting == cur \o tppQueue \o received
           R == Len(rtpQueue)
           T == Len(tppQueue)
           C == Len(cur)
<1>1. R \in Nat /\ T \in Nat /\ C \in {0, 1} /\ fed \in Nat
  BY DEF QueuesTyped
<1>2. received \in Seq(Buf) /\ Len(received) = R /\ DOMAIN rtpQueue = 1 .. R
  BY BuffersOf DEF QueuesTyped
<1>3. \A i \in 1 .. R : received[i] = rtpQueue[i].buf
  BY <1>2
<1>4. cur \in Seq(Buf \cup {None}) /\ tppQueue \in Seq(Buf \cup {None})
      /\ received \in Seq(Buf \cup {None})
  <2>1. demux.cur \in Buf \cup {None}
    BY DEF DemuxTyped
  <2>2. cur \in Seq(Buf \cup {None})
    <3>1. CASE Handling
      BY <2>1, <3>1
    <3>2. CASE ~Handling
      BY <3>2
    <3>3. QED
      BY <3>1, <3>2
  <2>3. QED
    BY <1>2, <2>2, LargerSeq DEF QueuesTyped
<1>5. Handling => C = 1 /\ cur[1] = demux.cur
  OBVIOUS
<1>6. C = 1 => Handling
  OBVIOUS
<1> HIDE DEF cur, received
<1>7. /\ DOMAIN waiting = 1 .. C + T + R /\ Len(waiting) = C + T + R
      /\ \A i \in 1 .. C : waiting[i] = cur[i]
      /\ \A i \in 1 .. T : waiting[C + i] = tppQueue[i]
      /\ \A i \in 1 .. R : waiting[C + T + i] = received[i]
  <2>1. PICK w : w = cur \o tppQueue \o received
    OBVIOUS
  <2>2. /\ DOMAIN w = 1 .. C + T + Len(received) /\ Len(w) = C + T + Len(received)
        /\ \A i \in 1 .. C : w[i] = cur[i]
        /\ \A i \in 1 .. T : w[C + i] = tppQueue[i]
        /\ \A i \in 1 .. Len(received) : w[C + T + i] = received[i]
    BY <1>4, <2>1, ThreeInARow
  <2>3. QED
    BY <1>2, <2>1, <2>2
<1> HIDE DEF waiting, R, T, C
<1>8. /\ Handling => demux.cur = fed - R - T
      /\ \A i \in 1 .. T : tppQueue[i] = fed - R - T + i
      /\ \A i \in 1 .. R : rtpQueue[i].buf = fed - R + i
  BY DEF CountedBack, R, T
<1>9. ASSUME NEW i \in DOMAIN waiting
      PROVE  waiting[i] = fed - Len(waiting) + i
  <2>1. CASE i \in 1 .. C
    BY <1>1, <1>5, <1>6, <1>7, <1>8, <2>1
  <2>2. CASE i - C \in 1 .. T
    <3>1. waiting[C + (i - C)] = tppQueue[i - C]
      BY <1>7, <2>2
    <3>2. QED
      BY <1>1, <1>7, <1>8, <2>2, <3>1
  <2>3. CASE i - C - T \in 1 .. R
    <3> DEFINE k == i - C - T
    <3>1. i = C + T + k /\ k \in 1 .. R
      BY <1>1, <1>7, <2>3
    <3> HIDE DEF k
    <3>2. waiting[i] = rtpQueue[k].buf
      BY <1>3, <1>7, <3>1
    <3>3. rtpQueue[k].buf = fed - R + k
      BY <1>8, <3>1
    <3>4. QED
      BY <1>1, <1>7, <3>1, <3>2, <3>3
  <2>4. QED
    BY <1>1, <1>7, <2>1, <2>2, <2>3
<1>10. QED
  BY <1>9 DEF NextInTurn, waiting, cur, received

\* The count back from the last datagram received holds throughout.
LEMMA InTurnAlways == Spec => []InTurn
<1>1. Init => InTurn
  BY DEF Init, InTurn, CountedBack, SearchReplayed, Handling
<1>2. IInv /\ InTurn /\ [Next]_vars => InTurn'
  BY InTurnStep, StillInTurn DEF vars, control, receiver
<1>3. QED
  BY <1>1, <1>2, SessionInvariance, PTL DEF Spec

\* However the receiver, the search and the replay follow each other, every
\* datagram is handled once and in the order received: demuxing goes through two
\* queues and loses, repeats or swaps none.
THEOREM HandledInTurn == Spec => []NextInTurn
<1>1. IInv /\ InTurn => NextInTurn
  BY CountedInTurn DEF IInv, InTurn, NextInTurn
<1>2. QED
  BY <1>1, InTurnAlways, SessionInvariance, PTL

-----------------------------------------------------------------------------
(* The references to the buffers are counted.                              *)

\* The reference of the main loop.
InHand(b) == Handling /\ demux.back = "feed" /\ demux.cur = b

RefsTyped == ref \in [Buf -> Nat] /\ kept \in [Pid -> SUBSET Buf]

\* What the parser keeps has left the receiver's queue.
KeptLeft == \A p \in Pid : \A b \in kept[p] : b <= fed - Len(rtpQueue)

\* Once the parser has given its references back, what is left are those of the
\* receiver's queue, one for each of its datagrams; the buffers of the second
\* queue have none.
OnlyQueued ==
    /\ \A p \in Pid : kept[p] = {}
    /\ \A b \in Buf : ref[b] = IF b \in InRtpQueue THEN 1 ELSE 0
    /\ \A i, j \in 1 .. Len(rtpQueue) : i # j => rtpQueue[i].buf # rtpQueue[j].buf
    /\ \A i \in 1 .. Len(tppQueue) : tppQueue[i] \notin InRtpQueue

RefInv ==
    /\ RefsTyped /\ BuffersAccounted
    /\ caller # "drain" => KeptLeft
    /\ caller = "drain" => OnlyQueued

\* The buffers in the receiver's queue are those received last.
LEMMA QueuedLast ==
    ASSUME QueuesTyped, CountedBack, NEW b \in Buf
    PROVE  b \in InRtpQueue <=> fed - Len(rtpQueue) < b /\ b <= fed
<1>1. DOMAIN rtpQueue = 1 .. Len(rtpQueue) /\ Len(rtpQueue) \in Nat /\ fed \in Nat /\ b \in Nat
  BY DEF QueuesTyped, Buf
<1>2. \A i \in 1 .. Len(rtpQueue) : rtpQueue[i].buf = fed - Len(rtpQueue) + i
  BY DEF CountedBack
<1>3. ASSUME b \in InRtpQueue
      PROVE  fed - Len(rtpQueue) < b /\ b <= fed
  <2>1. PICK i \in 1 .. Len(rtpQueue) : b = rtpQueue[i].buf
    BY <1>1, <1>3 DEF InRtpQueue
  <2>2. QED
    BY <1>1, <1>2, <2>1
<1>4. ASSUME fed - Len(rtpQueue) < b, b <= fed
      PROVE  b \in InRtpQueue
  <2>1. b - (fed - Len(rtpQueue)) \in 1 .. Len(rtpQueue)
    BY <1>1, <1>4
  <2>2. rtpQueue[b - (fed - Len(rtpQueue))].buf = b
    BY <1>1, <1>2, <2>1
  <2>3. QED
    BY <1>1, <2>1, <2>2 DEF InRtpQueue
<1>5. QED
  BY <1>3, <1>4

\* The parser holds a natural number of references to a buffer, none when it
\* keeps no packet of it.
LEMMA KeptRefsType ==
    /\ \A T \in SUBSET Pid : Cardinality(T) \in Nat
    /\ \A b \in Buf : KeptRefs(b) \in Nat
    /\ \A b \in Buf : (\A p \in Pid : b \notin kept[p]) => KeptRefs(b) = 0
<1>1. IsFiniteSet(Pid)
  <2>1. IsFiniteSet({"pat"})
    BY FS_Singleton
  <2>2. IsFiniteSet({"pat"} \cup {"pmt"})
    BY <2>1, FS_AddElement
  <2>3. IsFiniteSet(({"pat"} \cup {"pmt"}) \cup {"es"})
    BY <2>2, FS_AddElement
  <2>4. Pid = ({"pat"} \cup {"pmt"}) \cup {"es"}
    BY DEF Pid
  <2>5. QED
    BY <2>3, <2>4
<1>2. \A T \in SUBSET Pid : Cardinality(T) \in Nat
  BY <1>1, FS_Subset, FS_CardinalityType
<1>3. \A b \in Buf : {p \in Pid : b \in kept[p]} \in SUBSET Pid
  OBVIOUS
<1>4. ASSUME NEW b \in Buf, \A p \in Pid : b \notin kept[p]
      PROVE  KeptRefs(b) = 0
  <2>1. {p \in Pid : b \in kept[p]} = {}
    BY <1>4
  <2>2. QED
    BY <2>1, FS_EmptySet DEF KeptRefs
<1>5. QED
  BY <1>2, <1>3, <1>4 DEF KeptRefs

\* Steps that move no reference.
LEMMA SameReferences ==
    ASSUME RefInv, UNCHANGED <<ref, kept, rtpQueue, fed>>,
           \/ caller' = caller /\ (caller = "drain" => tppQueue' = tppQueue)
           \/ caller \notin {"drain", "stopped"} /\ caller' \notin {"drain", "stopped"},
           \A b \in Buf : InHand(b)' <=> InHand(b)
    PROVE  RefInv'
<1>1. RefsTyped' /\ (KeptLeft => KeptLeft') /\ InRtpQueue' = InRtpQueue
  BY DEF RefInv, RefsTyped, KeptLeft, InRtpQueue
<1>2. \A b \in Buf : KeptRefs(b)' = KeptRefs(b)
  BY DEF KeptRefs
<1>3. ReferencesCounted'
  BY <1>1, <1>2 DEF RefInv, BuffersAccounted, ReferencesCounted, InHand
<1>4. NothingLeft'
  BY DEF RefInv, BuffersAccounted, NothingLeft
<1>5. caller' = "drain" => OnlyQueued'
  BY <1>1 DEF RefInv, OnlyQueued
<1>6. QED
  BY <1>1, <1>3, <1>4, <1>5 DEF RefInv, BuffersAccounted

\* Outside "drain" the counts, with the queue told by the numbers of its buffers.
CountedByNumber ==
    \A b \in Buf :
        ref[b] = KeptRefs(b)
                 + (IF fed - Len(rtpQueue) < b /\ b <= fed THEN 1 ELSE 0)
                 + (IF InHand(b) THEN 1 ELSE 0)

LEMMA NumberedCounts ==
    ASSUME QueuesTyped, CountedBack
    PROVE  CountedByNumber <=>
               \A b \in Buf :
                   ref[b] = KeptRefs(b) + (IF b \in InRtpQueue THEN 1 ELSE 0)
                            + (IF Handling /\ demux.back = "feed" /\ demux.cur = b THEN 1 ELSE 0)
BY QueuedLast DEF CountedByNumber, InHand

\* A step outside "drain" and "stopped" keeps the invariant when it keeps the
\* counts.
LEMMA CountsKept ==
    ASSUME QueuesTyped', CountedBack', RefsTyped', KeptLeft', CountedByNumber',
           caller' \notin {"drain", "stopped"}
    PROVE  RefInv'
<1>1. ReferencesCounted'
  BY NumberedCounts, PTL DEF ReferencesCounted
<1>2. QED
  BY <1>1 DEF RefInv, BuffersAccounted, NothingLeft

\* The counts before a step.
LEMMA CountsBefore ==
    ASSUME QueuesTyped, InTurn, RefInv, caller # "drain"
    PROVE  RefsTyped /\ KeptLeft /\ CountedByNumber
BY NumberedCounts DEF InTurn, RefInv, BuffersAccounted, ReferencesCounted

\* A buffer begins with the reference of the receiver's queue.
LEMMA FeedRefs ==
    ASSUME IInv, InTurn, RefInv, IInv', InTurn', NEW pids \in Contents, StreamFeedData(pids)
    PROVE  RefInv'
<1>1. /\ fed \in Nat /\ Len(rtpQueue) \in Nat /\ fed + 1 \in Buf /\ fed' = fed + 1
      /\ Len(rtpQueue') = Len(rtpQueue) + 1
      /\ ref' = [ref EXCEPT ![fed + 1] = 1]
      /\ UNCHANGED <<caller, kept, demux>>
  BY DEF IInv, QueuesTyped, StreamFeedData, control, parser, Buf
<1>2. caller \notin {"drain", "stopped"}
  BY DEF IInv, ThreadsInStep, StreamFeedData
<1>3. RefsTyped /\ KeptLeft /\ CountedByNumber
  BY <1>2, CountsBefore DEF IInv
<1>4. RefsTyped'
  BY <1>1, <1>3 DEF RefsTyped
<1>5. KeptLeft'
  BY <1>1, <1>3 DEF KeptLeft
<1>6. \A b \in Buf : KeptRefs(b)' = KeptRefs(b) /\ KeptRefs(b) \in Nat /\ InHand(b)' = InHand(b)
  BY <1>1, KeptRefsType DEF KeptRefs, InHand, Handling
<1>7. KeptRefs(fed + 1) = 0
  <2>1. \A p \in Pid : fed + 1 \notin kept[p]
    BY <1>1, <1>3 DEF KeptLeft
  <2>2. QED
    BY <1>1, <2>1, KeptRefsType
<1>8. ~InHand(fed + 1)
  <2>1. Handling => demux.cur = fed - Len(rtpQueue) - Len(tppQueue) /\ Len(tppQueue) \in Nat
    BY <1>2 DEF IInv, QueuesTyped, InTurn, CountedBack
  <2>2. QED
    BY <1>1, <2>1 DEF InHand
<1>9. CountedByNumber'
  <2>1. SUFFICES ASSUME NEW b \in Buf
                 PROVE  ref'[b] = KeptRefs(b)
                                  + (IF fed + 1 - (Len(rtpQueue) + 1) < b /\ b <= fed + 1 THEN 1 ELSE 0)
                                  + (IF InHand(b) THEN 1 ELSE 0)
    BY <1>1, <1>6 DEF CountedByNumber
  <2>2. CASE b = fed + 1
    BY <1>1, <1>3, <1>7, <1>8, <2>2 DEF RefsTyped
  <2>3. CASE b # fed + 1
    <3>1. ref'[b] = ref[b] /\ b \in Nat
      BY <1>1, <1>3, <2>3 DEF RefsTyped, Buf
    <3>2. (b <= fed <=> b <= fed + 1) /\ fed + 1 - (Len(rtpQueue) + 1) = fed - Len(rtpQueue)
      BY <1>1, <2>3, <3>1
    <3>3. QED
      BY <1>3, <3>1, <3>2 DEF CountedByNumber
  <2>4. QED
    BY <2>2, <2>3
<1>10. QED
  BY <1>1, <1>2, <1>4, <1>5, <1>9, CountsKept DEF IInv, InTurn

\* The main loop takes over the reference of the queue.
LEMMA TakeRefs ==
    ASSUME IInv, InTurn, RefInv, IInv', InTurn', Take
    PROVE  RefInv'
<1>1. /\ fed \in Nat /\ Len(rtpQueue) \in Nat \ {0} /\ Len(rtpQueue') = Len(rtpQueue) - 1
      /\ Head(rtpQueue) = rtpQueue[1]
      /\ UNCHANGED <<fed, caller, kept, ref>> /\ caller \notin {"drain", "stopped"}
  BY TailMovesUp DEF IInv, QueuesTyped, ThreadsInStep, Take, control, receiver, parser
<1>2. RefsTyped /\ KeptLeft /\ CountedByNumber
  BY <1>1, CountsBefore DEF IInv
<1>3. RefsTyped' /\ KeptLeft'
  <2>1. \A p \in Pid : \A b \in kept[p] : b \in Nat
    BY <1>2 DEF RefsTyped, Buf
  <2>2. QED
    BY <1>1, <1>2, <2>1 DEF RefsTyped, KeptLeft
<1>4. \A b \in Buf : ~InHand(b) /\ (InHand(b)' <=> b = fed - Len(rtpQueue) + 1)
  <2>1. demux'.cur = rtpQueue[1].buf /\ demux'.pc = "handle" /\ demux'.back = "feed"
    BY <1>1 DEF IInv, DemuxTyped, Take
  <2>2. rtpQueue[1].buf = fed - Len(rtpQueue) + 1
    BY <1>1 DEF InTurn, CountedBack
  <2>3. demux.pc = "take"
    BY DEF Take
  <2>4. QED
    BY <2>1, <2>2, <2>3 DEF InHand, Handling
<1>5. CountedByNumber'
  <2>1. SUFFICES ASSUME NEW b \in Buf
                 PROVE  ref[b] = KeptRefs(b)
                                 + (IF fed - (Len(rtpQueue) - 1) < b /\ b <= fed THEN 1 ELSE 0)
                                 + (IF b = fed - Len(rtpQueue) + 1 THEN 1 ELSE 0)
    BY <1>1, <1>4 DEF CountedByNumber, KeptRefs
  <2>2. ref[b] = KeptRefs(b) + (IF fed - Len(rtpQueue) < b /\ b <= fed THEN 1 ELSE 0) + 0
        /\ KeptRefs(b) \in Nat /\ b \in Nat
    BY <1>2, <1>4, KeptRefsType DEF CountedByNumber, Buf
  <2>3. QED
    BY <1>1, <2>2
<1>6. QED
  BY <1>1, <1>3, <1>5, CountsKept DEF IInv, InTurn

\* Handled: the main loop gives its reference back.
LEMMA HandledRefs ==
    ASSUME IInv, InTurn, RefInv, IInv', InTurn', Handled
    PROVE  RefInv'
<1>1. /\ UNCHANGED <<fed, rtpQueue, caller, kept>> /\ caller \notin {"drain", "stopped"}
      /\ demux.back \in {"feed", "replay"} /\ demux'.pc = demux.back
      /\ Handling
  BY DEF IInv, DemuxTyped, ThreadsInStep, Handled, control, receiver, parser, Handling
<1>2. ~Handling'
  BY <1>1 DEF Handling
<1>3. CASE demux.back # "feed"
  <2>1. UNCHANGED ref
    BY <1>3 DEF Handled
  <2>2. \A b \in Buf : InHand(b)' <=> InHand(b)
    BY <1>2, <1>3 DEF InHand
  <2>3. QED
    BY <1>1, <2>1, <2>2, SameReferences
<1>4. CASE demux.back = "feed"
  <2>1. RefsTyped /\ KeptLeft /\ CountedByNumber
    BY <1>1, CountsBefore DEF IInv
  <2>2. /\ fed \in Nat /\ Len(rtpQueue) \in Nat /\ Len(tppQueue) \in Nat
        /\ demux.cur = fed - Len(rtpQueue) - Len(tppQueue) /\ demux.cur \in Buf \cup {None}
    BY <1>1 DEF IInv, QueuesTyped, DemuxTyped, InTurn, CountedBack
  <2>3. \A b \in Buf : ref'[b] = IF b = demux.cur THEN Minus(ref[b], 1) ELSE ref[b]
    BY <1>4, <2>1 DEF Handled, RefsTyped
  <2>4. RefsTyped' /\ KeptLeft'
    <3>1. \A n \in Nat : Minus(n, 1) \in Nat
      BY DEF Minus
    <3>2. ref' = [ref EXCEPT ![demux.cur] = Minus(@, 1)]
      BY <1>4 DEF Handled
    <3>3. ref' \in [Buf -> Nat]
      BY <2>1, <3>1, <3>2 DEF RefsTyped
    <3>4. QED
      BY <1>1, <2>1, <3>3 DEF RefsTyped, KeptLeft
  <2>5. CountedByNumber'
    <3>1. SUFFICES ASSUME NEW b \in Buf
                   PROVE  ref'[b] = KeptRefs(b)
                                    + (IF fed - Len(rtpQueue) < b /\ b <= fed THEN 1 ELSE 0)
                                    + 0
      BY <1>1, <1>2 DEF CountedByNumber, KeptRefs, InHand
    <3>2. KeptRefs(b) \in Nat
      BY KeptRefsType
    <3>3. ref[b] = KeptRefs(b)
                   + (IF fed - Len(rtpQueue) < b /\ b <= fed THEN 1 ELSE 0)
                   + (IF b = demux.cur THEN 1 ELSE 0)
      BY <1>1, <1>4, <2>1 DEF CountedByNumber, InHand
    <3>4. QED
      BY <2>3, <3>2, <3>3 DEF Minus
  <2>6. QED
    BY <1>1, <2>4, <2>5, CountsKept DEF IInv, InTurn
<1>5. QED
  BY <1>3, <1>4

\* The parser takes a reference for each packet that it keeps, and the one that
\* came with the buffer is given back.
LEMMA SearchRefs ==
    ASSUME IInv, InTurn, RefInv, IInv', InTurn', TppFill
    PROVE  RefInv'
<1> DEFINE d == Head(rtpQueue)
           K == {p \in Pid : Kept(d, p) # kept[p]}
<1>1. /\ fed \in Nat /\ Len(rtpQueue) \in Nat \ {0} /\ Len(rtpQueue') = Len(rtpQueue) - 1
      /\ d = rtpQueue[1]
      /\ UNCHANGED <<fed, caller>> /\ caller \notin {"drain", "stopped"}
  BY TailMovesUp DEF IInv, QueuesTyped, ThreadsInStep, TppFill, DemuxGoes, control, receiver
<1>2. d.buf = fed - Len(rtpQueue) + 1 /\ d.buf \in Buf
  <2>1. d \in [buf : Buf, pids : SUBSET Pid]
    BY TakeFrom DEF IInv, QueuesTyped, TppFill
  <2>2. rtpQueue[1].buf = fed - Len(rtpQueue) + 1
    BY <1>1 DEF InTurn, CountedBack
  <2>3. QED
    BY <1>1, <2>1, <2>2
<1>3. RefsTyped /\ KeptLeft /\ CountedByNumber
  BY <1>1, CountsBefore DEF IInv
<1>4. /\ kept' = [p \in Pid |-> Kept(d, p)]
      /\ ref' = [ref EXCEPT ![d.buf] = RefsAfter(d)]
  BY DEF TppFill
<1>5. \A p \in Pid : d.buf \notin kept[p] /\ Kept(d, p) \in {kept[p], kept[p] \cup {d.buf}}
  BY <1>1, <1>2, <1>3 DEF KeptLeft, Kept
<1>6. \A b \in Buf : ~InHand(b) /\ ~InHand(b)'
  <2>1. ~Handling /\ ~Handling'
    BY DEF IInv, DemuxTyped, TppFill, DemuxGoes, Handling
  <2>2. QED
    BY <2>1 DEF InHand
<1>7. /\ \A b \in Buf : b # d.buf => KeptRefs(b)' = KeptRefs(b)
      /\ \A b \in Buf : b = d.buf => KeptRefs(b)' = Cardinality(K)
      /\ Cardinality(K) \in Nat
  <2>1. \A b \in Buf : b # d.buf => {p \in Pid : b \in kept'[p]} = {p \in Pid : b \in kept[p]}
    BY <1>4, <1>5
  <2>2. {p \in Pid : d.buf \in kept'[p]} = K
    BY <1>4, <1>5
  <2>3. \A b \in Buf : KeptRefs(b)' = Cardinality({p \in Pid : b \in kept'[p]})
    BY DEF KeptRefs
  <2>4. \A b \in Buf : b = d.buf => {p \in Pid : b \in kept'[p]} = K
    BY <2>2
  <2>5. \A b \in Buf : b = d.buf => KeptRefs(b)' = Cardinality(K)
    BY <2>3, <2>4, Zenon
  <2>6. \A b \in Buf : b # d.buf => KeptRefs(b)' = KeptRefs(b)
    BY <2>1, <2>3, Zenon DEF KeptRefs
  <2>7. K \in SUBSET Pid
    OBVIOUS
  <2>8. Cardinality(K) \in Nat
    BY <2>7, KeptRefsType
  <2>9. QED
    BY <2>5, <2>6, <2>8
<1>8. ref[d.buf] = 1
  <2>1. KeptRefs(d.buf) = 0
    BY <1>2, <1>5, KeptRefsType
  <2>2. QED
    BY <1>1, <1>2, <1>3, <1>6, <2>1 DEF CountedByNumber
<1>9. RefsAfter(d) = Cardinality(K)
  <2>1. RefsAfter(d) = ref[d.buf] + Cardinality(K) - 1
    BY DEF RefsAfter
  <2> HIDE DEF K, d
  <2>2. QED
    BY <1>7, <1>8, <2>1
<1>10. RefsTyped'
  <2>1. kept' \in [Pid -> SUBSET Buf]
    BY <1>2, <1>3, <1>4, <1>5 DEF RefsTyped
  <2>2. ref' \in [Buf -> Nat]
    BY <1>2, <1>3, <1>4, <1>7, <1>9 DEF RefsTyped
  <2>3. QED
    BY <2>1, <2>2 DEF RefsTyped
<1>11. KeptLeft'
  <2>1. \A p \in Pid : \A b \in kept'[p] : b \in kept[p] \/ b = d.buf
    BY <1>4, <1>5
  <2>2. \A p \in Pid : \A b \in kept[p] : b \in Nat
    BY <1>3 DEF RefsTyped, Buf
  <2> HIDE DEF d, K
  <2>3. QED
    BY <1>1, <1>2, <1>3, <2>1, <2>2 DEF KeptLeft
<1>12. CountedByNumber'
  <2>1. SUFFICES ASSUME NEW b \in Buf
                 PROVE  ref'[b] = KeptRefs(b)'
                                  + (IF fed - (Len(rtpQueue) - 1) < b /\ b <= fed THEN 1 ELSE 0)
                                  + 0
    BY <1>1, <1>6 DEF CountedByNumber
  <2>2. b \in Nat /\ KeptRefs(b) \in Nat
    BY KeptRefsType DEF Buf
  <2>3. CASE b = d.buf
    <3>1. ref'[b] = Cardinality(K)
      BY <1>3, <1>4, <1>9, <2>3 DEF RefsTyped
    <3>2. KeptRefs(b)' = Cardinality(K)
      BY <1>7, <2>3
    <3> HIDE DEF d, K
    <3>3. QED
      BY <1>1, <1>2, <1>7, <2>3, <3>1, <3>2
  <2>4. CASE b # d.buf
    <3>1. ref'[b] = ref[b] /\ KeptRefs(b)' = KeptRefs(b)
      BY <1>3, <1>4, <1>7, <2>4 DEF RefsTyped
    <3>2. ref[b] = KeptRefs(b) + (IF fed - Len(rtpQueue) < b /\ b <= fed THEN 1 ELSE 0) + 0
      BY <1>3, <1>6 DEF CountedByNumber
    <3> HIDE DEF d, K
    <3>3. QED
      BY <1>1, <1>2, <2>2, <2>4, <3>1, <3>2
  <2>5. QED
    BY <2>3, <2>4
<1>13. QED
  BY <1>1, <1>10, <1>11, <1>12, CountsKept DEF IInv, InTurn

\* The parser gives back what it holds; the queues are left.
LEMMA ParserGone ==
    ASSUME IInv, InTurn, RefInv, TppDestroy
    PROVE  RefInv'
<1>1. /\ caller = "tpp" /\ caller' = "drain" /\ demux.pc = "gone"
      /\ UNCHANGED <<fed, rtpQueue, tppQueue, demux>>
      /\ fed \in Nat /\ Len(rtpQueue) \in Nat /\ Len(tppQueue) \in Nat
      /\ \A i \in 1 .. Len(tppQueue) : tppQueue[i] \in Buf
  BY MemberOf DEF IInv, QueuesTyped, ThreadsInStep, TppDestroy, CallerGoes, receiver
<1>2. RefsTyped /\ CountedByNumber /\ CountedBack /\ QueuesTyped
  BY <1>1, CountsBefore DEF IInv, InTurn
<1>3. \A b \in Buf : ~InHand(b)
  BY <1>1 DEF InHand, Handling
<1>4. \A b \in Buf : ref'[b] = IF b \in InRtpQueue THEN 1 ELSE 0
  <2>1. TAKE b \in Buf
  <2>2. ref[b] = KeptRefs(b) + (IF b \in InRtpQueue THEN 1 ELSE 0) + 0 /\ KeptRefs(b) \in Nat
    BY <1>2, <1>3, QueuedLast, KeptRefsType DEF CountedByNumber
  <2>3. ref'[b] = Minus(ref[b], KeptRefs(b))
    BY DEF TppDestroy
  <2>4. QED
    BY <2>2, <2>3 DEF Minus
<1>5. RefsTyped' /\ \A p \in Pid : kept'[p] = {}
  <2>1. ref' = [b \in Buf |-> Minus(ref[b], KeptRefs(b))] /\ kept' = [p \in Pid |-> {}]
    BY DEF TppDestroy
  <2>2. \A b \in Buf : ref'[b] \in Nat
    BY <1>4
  <2>3. ref' \in [Buf -> Nat]
    BY <2>1, <2>2
  <2>4. QED
    BY <2>1, <2>3 DEF RefsTyped
<1>6. \A i, j \in 1 .. Len(rtpQueue) : i # j => rtpQueue[i].buf # rtpQueue[j].buf
  BY <1>1, <1>2 DEF CountedBack
<1>7. \A i \in 1 .. Len(tppQueue) : tppQueue[i] \notin InRtpQueue
  <2>1. TAKE i \in 1 .. Len(tppQueue)
  <2>2. tppQueue[i] = fed - Len(rtpQueue) - Len(tppQueue) + i /\ tppQueue[i] \in Buf
    BY <1>1, <1>2 DEF CountedBack
  <2>3. ~(fed - Len(rtpQueue) < tppQueue[i])
    BY <1>1, <2>2
  <2>4. QED
    BY <1>2, <2>2, <2>3, QueuedLast
<1>8. OnlyQueued'
  BY <1>1, <1>4, <1>5, <1>6, <1>7 DEF OnlyQueued, InRtpQueue
<1>9. QED
  BY <1>1, <1>5, <1>8 DEF RefInv, BuffersAccounted, ReferencesCounted, NothingLeft

\* A datagram that is taken out of a queue leaves the others apart.
LEMMA DrainRefs ==
    ASSUME IInv, RefInv, Drain
    PROVE  RefInv'
<1>1. /\ caller = "drain" /\ OnlyQueued /\ RefsTyped /\ demux.pc = "gone"
      /\ UNCHANGED <<kept, demux>>
      /\ Len(rtpQueue) \in Nat /\ DOMAIN rtpQueue = 1 .. Len(rtpQueue)
      /\ \A i \in 1 .. Len(rtpQueue) : rtpQueue[i] \in [buf : Buf, pids : SUBSET Pid]
      /\ Len(tppQueue) \in Nat
      /\ \A i \in 1 .. Len(tppQueue) : tppQueue[i] \in Buf
  <2>1. caller = "drain" /\ OnlyQueued /\ RefsTyped /\ demux.pc = "gone"
    BY DEF IInv, ThreadsInStep, RefInv, Drain
  <2>2. UNCHANGED <<kept, demux>>
    BY DEF Drain, parser
  <2>3. Len(rtpQueue) \in Nat /\ DOMAIN rtpQueue = 1 .. Len(rtpQueue) /\ Len(tppQueue) \in Nat
    BY DEF IInv, QueuesTyped
  <2>4. /\ \A i \in 1 .. Len(rtpQueue) : rtpQueue[i] \in [buf : Buf, pids : SUBSET Pid]
        /\ \A i \in 1 .. Len(tppQueue) : tppQueue[i] \in Buf
    BY MemberOf, Zenon DEF IInv, QueuesTyped
  <2>5. QED
    BY <2>1, <2>2, <2>3, <2>4
<1>2. \A b \in Buf : b \in InRtpQueue <=> \E i \in 1 .. Len(rtpQueue) : rtpQueue[i].buf = b
  BY <1>1 DEF InRtpQueue
<1>3. CASE tppQueue # <<>>
  <2>1. /\ Len(tppQueue') = Len(tppQueue) - 1 /\ Len(tppQueue) \in Nat \ {0}
        /\ Head(tppQueue) = tppQueue[1]
        /\ \A i \in 1 .. Len(tppQueue) - 1 : tppQueue'[i] = tppQueue[i + 1]
        /\ UNCHANGED <<rtpQueue, caller>>
    BY <1>1, <1>3, TailMovesUp DEF IInv, QueuesTyped, Drain
  <2>2. ref[tppQueue[1]] = 0 /\ tppQueue[1] \in Buf
    BY <1>1, <2>1 DEF OnlyQueued
  <2>3. ref' = ref
    <3>1. ref' = [ref EXCEPT ![tppQueue[1]] = Minus(ref[tppQueue[1]], 1)]
      BY <1>3, <2>1 DEF Drain
    <3>2. Minus(ref[tppQueue[1]], 1) = ref[tppQueue[1]]
      BY <2>2 DEF Minus
    <3>3. QED
      BY <1>1, <2>2, <3>1, <3>2 DEF RefsTyped
  <2>4. InRtpQueue' = InRtpQueue
    BY <2>1 DEF InRtpQueue
  <2>5. \A i \in 1 .. Len(tppQueue') : tppQueue'[i] \notin InRtpQueue
    BY <1>1, <2>1 DEF OnlyQueued
  <2>6. OnlyQueued' /\ RefsTyped'
    BY <1>1, <2>1, <2>3, <2>4, <2>5 DEF OnlyQueued, RefsTyped
  <2>7. QED
    BY <1>1, <2>1, <2>6 DEF RefInv, BuffersAccounted, ReferencesCounted, NothingLeft
<1>4. CASE tppQueue = <<>> /\ rtpQueue # <<>>
  <2>1. /\ Len(rtpQueue') = Len(rtpQueue) - 1 /\ Len(rtpQueue) \in Nat \ {0}
        /\ Head(rtpQueue) = rtpQueue[1]
        /\ \A i \in 1 .. Len(rtpQueue) - 1 : rtpQueue'[i] = rtpQueue[i + 1]
        /\ UNCHANGED <<tppQueue, caller>>
        /\ DOMAIN rtpQueue' = 1 .. Len(rtpQueue')
    <3>1. rtpQueue' = Tail(rtpQueue) /\ UNCHANGED <<tppQueue, caller>>
      BY <1>4 DEF Drain
    <3>2. DOMAIN Tail(rtpQueue) = 1 .. Len(Tail(rtpQueue))
      BY <1>4, TakeFrom DEF IInv, QueuesTyped
    <3>3. QED
      BY <1>4, <3>1, <3>2, TailMovesUp DEF IInv, QueuesTyped
  <2> DEFINE b1 == rtpQueue[1].buf
  <2>2. b1 \in Buf /\ ref[b1] = 1
    <3>1. 1 \in 1 .. Len(rtpQueue)
      BY <2>1
    <3>2. rtpQueue[1] \in [buf : Buf, pids : SUBSET Pid]
      BY <1>1, <3>1
    <3>3. b1 \in Buf
      BY <3>2
    <3>4. b1 \in InRtpQueue
      BY <1>2, <3>1, <3>3
    <3>5. \A b \in Buf : ref[b] = IF b \in InRtpQueue THEN 1 ELSE 0
      BY <1>1 DEF OnlyQueued
    <3>6. QED
      BY <3>3, <3>4, <3>5
  <2>3. ref' = [ref EXCEPT ![b1] = 0]
    BY <1>1, <1>4, <2>1, <2>2 DEF Drain, RefsTyped, Minus
  <2>4. \A i \in 1 .. Len(rtpQueue') : i + 1 \in 1 .. Len(rtpQueue) /\ rtpQueue'[i] = rtpQueue[i + 1]
    BY <2>1
  <2>5. \A b \in Buf : b \in InRtpQueue' <=> b \in InRtpQueue /\ b # b1
    <3>1. TAKE b \in Buf
    <3>2. b \in InRtpQueue' <=> \E i \in 1 .. Len(rtpQueue') : rtpQueue'[i].buf = b
      BY <2>1 DEF InRtpQueue
    <3>3. ASSUME b \in InRtpQueue'
          PROVE  b \in InRtpQueue /\ b # b1
      <4>1. PICK i \in 1 .. Len(rtpQueue') : rtpQueue'[i].buf = b
        BY <3>2, <3>3
      <4>2. i + 1 \in 1 .. Len(rtpQueue) /\ rtpQueue[i + 1].buf = b /\ i + 1 # 1 /\ 1 \in 1 .. Len(rtpQueue)
        BY <2>1, <2>4, <4>1
      <4>3. QED
        BY <1>1, <1>2, <4>2 DEF OnlyQueued
    <3>4. ASSUME b \in InRtpQueue, b # b1
          PROVE  b \in InRtpQueue'
      <4>1. PICK i \in 1 .. Len(rtpQueue) : rtpQueue[i].buf = b
        BY <1>2, <3>4
      <4>2. i - 1 \in 1 .. Len(rtpQueue') /\ i = (i - 1) + 1
        BY <2>1, <3>4, <4>1
      <4>3. rtpQueue'[i - 1].buf = b
        BY <2>4, <4>1, <4>2
      <4>4. QED
        BY <3>2, <4>2, <4>3
    <3>5. QED
      BY <3>3, <3>4
  <2>6. RefsTyped' /\ \A b \in Buf : ref'[b] = IF b \in InRtpQueue' THEN 1 ELSE 0
    BY <1>1, <2>2, <2>3, <2>5 DEF RefsTyped, OnlyQueued
  <2>7. \A i, j \in 1 .. Len(rtpQueue') : i # j => rtpQueue'[i].buf # rtpQueue'[j].buf
    <3>1. TAKE i, j \in 1 .. Len(rtpQueue')
    <3>2. i # j => i + 1 # j + 1
      BY <2>1
    <3>3. QED
      BY <1>1, <2>4, <3>2 DEF OnlyQueued
  <2>8. OnlyQueued'
    BY <1>1, <1>4, <2>1, <2>6, <2>7 DEF OnlyQueued
  <2>9. QED
    BY <1>1, <2>1, <2>6, <2>8 DEF RefInv, BuffersAccounted, ReferencesCounted, NothingLeft
<1>5. CASE tppQueue = <<>> /\ rtpQueue = <<>>
  <2>1. caller' = "stopped" /\ UNCHANGED <<ref, rtpQueue>>
    BY <1>5 DEF Drain
  <2>2. InRtpQueue = {} /\ InRtpQueue' = {}
    BY <1>5, <2>1 DEF InRtpQueue
  <2>3. \A b \in Buf : ref[b] = 0
    BY <1>1, <2>2 DEF OnlyQueued
  <2>4. \A b \in Buf : KeptRefs(b) = 0 /\ KeptRefs(b)' = KeptRefs(b)
    BY <1>1, KeptRefsType DEF OnlyQueued, KeptRefs
  <2>5. RefsTyped' /\ KeptLeft'
    BY <1>1, <2>1 DEF RefsTyped, KeptLeft, OnlyQueued
  <2>6. ReferencesCounted' /\ NothingLeft'
    BY <1>1, <2>1, <2>2, <2>3, <2>4 DEF ReferencesCounted, NothingLeft, Handling
  <2>7. QED
    BY <2>1, <2>5, <2>6 DEF RefInv, BuffersAccounted
<1>6. QED
  BY <1>3, <1>4, <1>5

\* Every step keeps the references counted.
LEMMA RefStep ==
    ASSUME IInv, InTurn, RefInv, IInv', InTurn', Next
    PROVE  RefInv'
<1> DEFINE Still == UNCHANGED <<ref, kept, rtpQueue, fed>>
           SameHand == \A b \in Buf : InHand(b)' <=> InHand(b)
<1>1. CASE Setup \/ Start \/ Stop \/ WaitEnds \/ StopSink \/ Join \/ DestroyPlayer
  <2>1. Still /\ caller \notin {"drain", "stopped"} /\ caller' \notin {"drain", "stopped"}
    BY <1>1 DEF Setup, Start, Stop, WaitEnds, StopSink, Join, DestroyPlayer, CallerGoes,
           receiver, parser
  <2>2. UNCHANGED demux \/ (demux.pc = "off" /\ demux'.pc = "search")
    BY <1>1 DEF IInv, DemuxTyped, ThreadsInStep, Setup, Start, Stop, WaitEnds, StopSink, Join,
           DestroyPlayer, CallerGoes
  <2>3. SameHand
    BY <2>2 DEF InHand, Handling
  <2>4. QED
    BY <2>1, <2>3, SameReferences
<1>2. CASE SinkConnects \/ SinkEnds
  <2>1. Still /\ UNCHANGED <<caller, tppQueue, demux>>
    BY <1>2 DEF SinkConnects, SinkEnds, control, parser
  <2>2. QED
    BY <2>1, SameReferences DEF InHand, Handling
<1>3. CASE SearchCheck \/ SearchEmpty \/ PlayerInitAVandStart \/ FeedCheck \/ TakeNothing
  <2>1. Still /\ UNCHANGED <<caller, tppQueue>>
    BY <1>3 DEF SearchCheck, SearchEmpty, PlayerInitAVandStart, FeedCheck, TakeNothing,
           control, receiver, parser
  <2>2. ~Handling /\ ~Handling'
    BY <1>3 DEF IInv, DemuxTyped, SearchCheck, SearchEmpty, PlayerInitAVandStart, FeedCheck,
           TakeNothing, DemuxGoes, Handling
  <2>3. QED
    BY <2>1, <2>2, SameReferences DEF InHand
<1>4. CASE Replay
  <2>1. Still /\ caller' = caller /\ caller # "drain"
    BY <1>4 DEF IInv, ThreadsInStep, Replay, control, receiver, parser
  <2>2. ~Handling /\ (demux'.pc = "feed" \/ demux'.back = "replay")
    BY <1>4 DEF IInv, DemuxTyped, Replay, Handling
  <2>3. SameHand
    BY <2>2 DEF InHand, Handling
  <2>4. QED
    BY <2>1, <2>3, SameReferences
<1>5. CASE (\E s \in Stream : Push(s)) \/ RequestGranted \/ RequestGivenUp \/ Fill
  <2>1. Still /\ UNCHANGED <<caller, tppQueue>>
    BY <1>5 DEF Push, RequestGranted, RequestGivenUp, Fill, control, receiver, parser
  <2>2. Handling /\ Handling' /\ demux'.cur = demux.cur /\ demux'.back = demux.back
    <3>0. DemuxTyped
      BY DEF IInv
    <3>1. CASE \E s \in Stream : Push(s)
      BY <3>0, <3>1 DEF DemuxTyped, Push, DemuxGoes, Handling
    <3>2. CASE RequestGranted
      BY <3>0, <3>2 DEF DemuxTyped, RequestGranted, DemuxGoes, Handling
    <3>3. CASE RequestGivenUp
      BY <3>0, <3>3 DEF DemuxTyped, RequestGivenUp, DemuxGoes, Handling
    <3>4. CASE Fill
      BY <3>0, <3>4 DEF DemuxTyped, Fill, DemuxGoes, Handling
    <3>5. QED
      BY <1>5, <3>1, <3>2, <3>3, <3>4
  <2>3. QED
    BY <2>1, <2>2, SameReferences DEF InHand
<1>6. CASE (\E s \in Stream, b \in Block : PlayerFrees(s, b)) \/ UNCHANGED vars
  <2>1. Still /\ UNCHANGED <<caller, tppQueue, demux>>
    BY <1>6 DEF PlayerFrees, vars, control, receiver, parser
  <2>2. QED
    BY <2>1, SameReferences DEF InHand, Handling
<1>7. QED
  BY <1>1, <1>2, <1>3, <1>4, <1>5, <1>6, FeedRefs, TakeRefs, HandledRefs, SearchRefs,
     ParserGone, DrainRefs DEF Next, CallerNext, SinkNext, DemuxNext

LEMMA RefInvAlways == Spec => []RefInv
<1>1. Init => RefInv
  <2>1. SUFFICES ASSUME Init PROVE RefInv
    OBVIOUS
  <2>2. /\ ref = [b \in Buf |-> 0] /\ kept = [p \in Pid |-> {}]
        /\ caller = "new" /\ rtpQueue = <<>> /\ demux.pc = "off"
    BY <2>1 DEF Init
  <2>3. RefsTyped /\ KeptLeft /\ caller = "new"
    BY <2>2 DEF RefsTyped, KeptLeft
  <2>4. \A b \in Buf : KeptRefs(b) = 0 /\ ref[b] = 0
    BY <2>2, KeptRefsType
  <2>5. ~Handling /\ InRtpQueue = {}
    BY <2>2 DEF Handling, InRtpQueue
  <2>6. ReferencesCounted
    BY <2>4, <2>5 DEF ReferencesCounted
  <2>7. QED
    BY <2>3, <2>6 DEF RefInv, BuffersAccounted, NothingLeft
<1>2. IInv /\ InTurn /\ IInv' /\ InTurn' /\ RefInv /\ [Next]_vars => RefInv'
  <2>1. SUFFICES ASSUME IInv, InTurn, IInv', InTurn', RefInv, [Next]_vars PROVE RefInv'
    OBVIOUS
  <2>2. CASE UNCHANGED vars
    BY <2>1, <2>2, SameReferences DEF vars, control, receiver, parser, InHand, Handling
  <2>3. QED
    BY <2>1, <2>2, RefStep
<1>3. QED
  BY <1>1, <1>2, SessionInvariance, InTurnAlways, PTL DEF Spec

\* A buffer lives exactly as long as the queue, the parser or the main loop
\* counts on it, and none outlives the session, whatever was received, however
\* many packets the parser keeps and wherever Stop met the demux thread.
THEOREM BuffersAlways == Spec => []BuffersAccounted
<1>1. RefInv => BuffersAccounted
  BY DEF RefInv
<1>2. QED
  BY <1>1, RefInvAlways, PTL

\* The places of the caller's thread and what it has set up and torn down.
ControlTyped ==
    /\ caller \in {"new", "ready", "running", "wait", "stopSink", "join", "player",
                   "tpp", "drain", "stopped"}
    /\ exitFlag \in BOOLEAN /\ exitSem \in BOOLEAN /\ bPlayerSetup \in BOOLEAN
    /\ sinkSet \in BOOLEAN /\ tpp \in BOOLEAN
    /\ player \in {"none", "created", "started", "destroyed"}
    /\ sink \in {"off", "connecting", "streaming", "gone"}

LEMMA ControlStep ==
    ASSUME ControlTyped, Next
    PROVE  ControlTyped'
<1>1. CASE Setup \/ Start \/ Stop \/ WaitEnds \/ StopSink \/ Join
  BY <1>1 DEF ControlTyped, Setup, Start, Stop, WaitEnds, StopSink, Join, CallerGoes,
         receiver, parser
<1>2. CASE DestroyPlayer \/ TppDestroy \/ Drain
  BY <1>2 DEF ControlTyped, DestroyPlayer, TppDestroy, Drain, CallerGoes, receiver, parser
<1>3. CASE SinkNext
  <2>1. UNCHANGED <<control, tpp>>
    BY <1>3 DEF SinkNext, SinkConnects, SinkEnds, StreamFeedData, parser
  <2>2. sink' \in {sink, "streaming", "gone"} /\ (sinkSet' = sinkSet \/ sinkSet' = TRUE)
    <3>1. CASE SinkConnects
      BY <3>1 DEF SinkConnects
    <3>2. CASE SinkEnds
      BY <3>2 DEF SinkEnds
    <3>3. CASE \E pids \in Contents : StreamFeedData(pids)
      BY <3>3 DEF StreamFeedData
    <3>4. QED
      BY <1>3, <3>1, <3>2, <3>3 DEF SinkNext
  <2>3. sinkSet' \in BOOLEAN
    BY <2>2, Zenon DEF ControlTyped
  <2>4. sink' \in {"off", "connecting", "streaming", "gone"}
    BY <2>2 DEF ControlTyped
  <2>5. QED
    BY <2>1, <2>3, <2>4 DEF ControlTyped, control
<1>4. CASE SearchCheck \/ SearchEmpty \/ TppFill \/ PlayerInitAVandStart
  <2>1. UNCHANGED <<caller, exitFlag, exitSem, bPlayerSetup, sinkSet, sink>>
    BY <1>4 DEF SearchCheck, SearchEmpty, TppFill, PlayerInitAVandStart, control, receiver
  <2>2. player' = player \/ player' = "started"
    BY <1>4 DEF SearchCheck, SearchEmpty, TppFill, PlayerInitAVandStart, control
  <2>3. tpp' = tpp \/ tpp' = TRUE
    BY <1>4 DEF SearchCheck, SearchEmpty, TppFill, PlayerInitAVandStart, parser
  <2>4. QED
    BY <2>1, <2>2, <2>3 DEF ControlTyped
<1>5. CASE Replay \/ FeedCheck \/ TakeNothing \/ Take \/ Handled
  BY <1>5 DEF ControlTyped, Replay, FeedCheck, TakeNothing, Take, Handled, control, receiver, parser
<1>6. CASE (\E s \in Stream : Push(s)) \/ RequestGranted \/ RequestGivenUp \/ Fill
  <2>1. UNCHANGED <<control, receiver, parser>>
    BY <1>6 DEF Push, RequestGranted, RequestGivenUp, Fill
  <2>2. QED
    BY <2>1 DEF ControlTyped, control, receiver, parser
<1>7. CASE (\E s \in Stream, b \in Block : PlayerFrees(s, b)) \/ UNCHANGED vars
  BY <1>7 DEF ControlTyped, PlayerFrees, vars, control, receiver, parser
<1>8. QED
  BY <1>1, <1>2, <1>3, <1>4, <1>5, <1>6, <1>7 DEF Next, CallerNext, DemuxNext

\* Every variable keeps its type: no count of references wraps below zero, the
\* pieces left of a datagram are never overdrawn, and the queues hold datagrams
\* that were received.
THEOREM SessionTypeCorrect == Spec => []TypeOK
<1>1. Init => ControlTyped
  BY DEF Init, ControlTyped
<1>2. ControlTyped /\ [Next]_vars => ControlTyped'
  <2>1. ControlTyped /\ UNCHANGED vars => ControlTyped'
    BY DEF ControlTyped, vars, control, receiver, parser
  <2>2. QED
    BY <2>1, ControlStep
<1>3. IInv /\ RefInv /\ ControlTyped => TypeOK
  BY DEF IInv, RefInv, RefsTyped, ControlTyped, TypeOK
<1>4. QED
  BY <1>1, <1>2, <1>3, SessionInvariance, RefInvAlways, PTL DEF Spec
=============================================================================
