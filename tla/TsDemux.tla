-------------------------------- MODULE TsDemux --------------------------------
(***************************************************************************)
(* One filter of the transport stream demultiplexer (tsdemux/tsdemux.c)    *)
(* for a video stream: packets come in, blocks of elementary data go out   *)
(* to the decoder, each with bits that say whether it begins or ends a     *)
(* frame and whether its time stamp is valid.                              *)
(*                                                                         *)
(* The sender puts each frame into a PES packet, which tells its length or *)
(* not, and may leave the end of a frame to the next one.  PES packets are *)
(* cut anywhere into transport packets, each of which may be lost.  A      *)
(* datum is a frame's number, its place in the frame, the number of the    *)
(* PES packet it travels in (there are as many as frames) and its value:   *)
(* a frame begins with a start code, 00 00 01 or 00 00 00 01, which no     *)
(* other data imitate.  The header of a PES packet has a time stamp and is *)
(* in one transport packet.  The player grants every block asked for until *)
(* it stops.                                                               *)
(***************************************************************************)
EXTENDS Naturals, SequencesExt

CONSTANTS
    MaxFrames,  \* bound: frames sent
    MaxData,    \* bound: data of a frame in its own PES packet
    MaxRest,    \* bound: data of a frame in the next PES packet
    MaxPackets, \* bound: transport packets of a PES packet
    BlockSizes  \* sizes of the blocks that are granted

CodeLen == 3    \* 00 00 01, which the search looks for
Other == 2      \* a value that is neither 0 nor 1
ASSUME TsAssumption ==
    MaxFrames \in Nat /\ MaxData \in Nat /\ MaxData >= CodeLen
    /\ MaxRest \in Nat /\ MaxPackets \in Nat \ {0} /\ BlockSizes \subseteq Nat \ {0}

VARIABLES
    frames,     \* the sender: frames begun
    carry,      \* what it has left to the next PES packet
    pes,        \* the PES packet it is sending: its rest, its length, header sent,
                \* transport packets left
    received,   \* data that arrived since the first PES header
    headers,    \* frames whose PES header arrived
    lost,       \* a packet has been lost
    cut,        \* history: frames whose start code the packets cut (CutsCode)
    filter      \* filter_t, and in out the blocks given to updatedatacb

tsVars == <<frames, carry, pes, received, headers, lost, cut, filter>>

submitted == filter.out

Datum(f, p, n, v) == [frame |-> f, place |-> p, packet |-> n, value |-> v]
IsStart(d) == d.place = 1
Drop(s, n) == SubSeq(s, n + 1, Len(s))
Take(s, n) == SubSeq(s, 1, n)

-----------------------------------------------------------------------------
(* The filter.                                                             *)

\* A block is given to the decoder; the next data need a new one.
Submit(st) ==
    [st EXCEPT !.out = Append(@, [data |-> st.data, bits |-> st.bits]),
               !.data = <<>>, !.bits = {}, !.free = 0]

\* A block that holds as much as the PES packet had ends the frame; one that
\* holds more gives up counting.
Counted(st) ==
    IF Len(st.data) = st.payload THEN [st EXCEPT !.bits = @ \cup {"last"}]
    ELSE [st EXCEPT !.payload = 0]

\* A full block of which the PES packet has more to come.
CountedFull(st) ==
    IF st.payload > 0 /\ Len(st.data) < st.payload
      THEN [st EXCEPT !.payload = @ - Len(st.data)]
    ELSE IF st.payload > 0 THEN Counted(st) ELSE st

\* A round of the loop of push_es_data: data fill the block, which is requested
\* when there is none, of the size given for the datum that will begin it; the
\* first round marks a new frame.
FillBlock(loop, size) ==
    LET st == loop.st
        room == IF st.free = 0 THEN size[Head(loop.data)] ELSE st.free
        n == IF room > Len(loop.data) THEN Len(loop.data) ELSE room
        marks == IF ~loop.isNew THEN {} ELSE IF st.pts THEN {"first", "pts"} ELSE {"first"}
        copied == [st EXCEPT !.data = @ \o Take(loop.data, n), !.free = room - n,
                             !.bits = @ \cup marks]
    IN [data |-> Drop(loop.data, n), isNew |-> FALSE,
        st |-> IF copied.free = 0 THEN Submit(CountedFull(copied))
               ELSE IF copied.payload > 0 /\ Len(copied.data) >= copied.payload
                 THEN Submit(Counted(copied)) ELSE copied]

\* The loop, until no data are left: each round takes a datum at least.
FillBlocks(st, data, isNew, size) ==
    LET loop[k \in 0 .. Len(data)] ==
          IF k = 0 THEN [st |-> st, data |-> data, isNew |-> isNew]
          ELSE LET last == loop[k - 1] IN
               IF last.data = <<>> THEN last ELSE FillBlock(last, size)
    IN loop[Len(data)].st

\* Mutant: a new frame forgets what the last one left.
PushEsDataForgets(st, data, isNew, size) ==
    FillBlocks(IF isNew THEN [st EXCEPT !.data = <<>>, !.bits = {}, !.free = 0] ELSE st,
               data, isNew, size)

\* push_es_data: a new frame first ends the block that the last one left.
PushEsData(st, data, isNew, size) ==
    FillBlocks(IF isNew /\ st.data # <<>>
                 THEN Submit([st EXCEPT !.bits = @ \cup {"last"}]) ELSE st,
               data, isNew, size)

\* find_start_code_pos: the search ends at the first value 1 that two others
\* precede; the length of the piece when these are not 0.  A third 0 before them
\* belongs to the start code.
StartCodePos(data) ==
    LET ones == {k \in CodeLen .. Len(data) : data[k].value = 1}
        first == CHOOSE k \in ones : \A j \in ones : k <= j
        zero(k) == data[k].value = 0
    IN IF ones = {} \/ ~zero(first - 1) \/ ~zero(first - 2) THEN Len(data)
       ELSE IF first > CodeLen /\ zero(first - CodeLen) THEN first - CodeLen - 1
       ELSE first - CodeLen

\* A frame is looked for in pieces as long as a start code, and taken to begin
\* where a shorter one does.
Begins(st, data) ==
    st.isNew /\ (Len(data) >= CodeLen => StartCodePos(data) < Len(data))

\* Mutant: what comes before a start code is taken for the new frame.
LastFramePartNone(st, data) == 0

\* How much of a piece comes before the start code.
LastFramePart(st, data) ==
    IF Begins(st, data) /\ Len(data) >= CodeLen THEN StartCodePos(data) ELSE 0

\* MPEGTS_PESPAYLOAD: a piece of a PES packet.  What comes before the start
\* code belongs to the last frame and does not count as this packet's; without
\* a start code the frame is looked for in the next piece.
Payload(st, piece, size) ==
    LET data == IF st.total = 0 \/ st.total > Len(piece) THEN piece
                ELSE Take(piece, st.total)
        n == LastFramePart(st, data)
        uncounted == PushEsData([st EXCEPT !.payload = 0], Take(data, n), FALSE, size)
        before == IF n = 0 THEN st ELSE [uncounted EXCEPT !.payload = st.payload]
    IN IF data = <<>> THEN st
       ELSE [PushEsData(before, Drop(data, n), Begins(st, data), size)
               EXCEPT !.isNew = @ /\ ~Begins(st, data), !.pts = FALSE]

\* MPEGTS_PESHEADER and MPEGTS_PESHEADER_FILL; length is 0 when unknown.
Header(st, length) ==
    [st EXCEPT !.state = "payload", !.total = length, !.payload = length,
               !.isNew = TRUE, !.pts = TRUE]

\* handle_packet_payload: data before the first header are taken for one, are
\* found not to be one, and are skipped.
HandlePacketPayload(st, isStart, length, piece, size) ==
    LET started == IF isStart THEN Header(st, length) ELSE st
    IN IF started.state = "skip" THEN started ELSE Payload(started, piece, size)

-----------------------------------------------------------------------------
Idle == [rest |-> <<>>, length |-> 0, begun |-> TRUE, packets |-> 0]

TsInit ==
    /\ frames = 0 /\ carry = <<>> /\ pes = Idle
    /\ received = <<>> /\ headers = {} /\ lost = FALSE /\ cut = {}
    /\ filter = [state |-> "skip", total |-> 0, payload |-> 0, isNew |-> FALSE,
                 pts |-> FALSE, data |-> <<>>, bits |-> {}, free |-> 0, out |-> <<>>]

\* The value at place p of a frame whose start code has the given length.
CodeValue(p, code) == IF p < code THEN 0 ELSE IF p = code THEN 1 ELSE Other

\* The sender begins a frame and the PES packet that carries it.
BeginFrame ==
    /\ pes.begun /\ pes.rest = <<>> /\ frames < MaxFrames
    /\ frames' = frames + 1
    /\ \E code \in {CodeLen, CodeLen + 1} : \E n \in code .. MaxData,
          r \in 0 .. MaxRest, sized \in BOOLEAN, v \in {1, Other} :
          LET own == [p \in 1 .. n |-> Datum(frames + 1, p, frames + 1, CodeValue(p, code))]
              rest == carry \o own
          IN
          /\ frames' = MaxFrames => r = 0
          /\ pes' = [rest |-> rest, begun |-> FALSE, packets |-> MaxPackets,
                     length |-> IF sized THEN Len(rest) ELSE 0]
          /\ carry' = [k \in 1 .. r |-> 
                        Datum(frames + 1, n + k, frames + 2, IF k = r THEN v ELSE Other)]
    /\ UNCHANGED <<received, headers, lost, cut, filter>>

\* The lengths of the next packet's piece.
Pieces ==
    {n \in 0 .. Len(pes.rest) :
        /\ n > 0 \/ ~pes.begun
        /\ pes.packets = 1 => n = Len(pes.rest)}

\* A piece that ends within the start code, or is too short to be searched and is
\* not the code's beginning.
CutsCode(n) ==
    \E k \in DOMAIN pes.rest, e \in DOMAIN pes.rest :
        /\ IsStart(pes.rest[k]) /\ pes.rest[e].value = 1
        /\ pes.rest[e].frame = pes.rest[k].frame
        /\ IF n < CodeLen THEN n > 0 /\ k > 1 ELSE k <= n /\ n < e

Sent(n) == pes' = [pes EXCEPT !.rest = Drop(@, n), !.begun = TRUE, !.packets = @ - 1]

\* ts_demux_handle_packets: a packet of this filter arrives.
HandlePacket ==
    \E n \in Pieces : \E size \in [ToSet(Take(pes.rest, n)) -> BlockSizes] :
        LET piece == Take(pes.rest, n) IN
        /\ Sent(n)
        /\ cut' = IF CutsCode(n) THEN cut \cup {frames} ELSE cut
        /\ filter' = HandlePacketPayload(filter, ~pes.begun, pes.length, piece, size)
        /\ received' = IF filter'.state = "skip" THEN received ELSE received \o piece
        /\ headers' = IF pes.begun THEN headers ELSE headers \cup {frames}
        /\ UNCHANGED <<frames, carry, lost>>

LosePacket ==
    \E n \in Pieces :
        /\ Sent(n)
        /\ lost' = TRUE
        /\ UNCHANGED <<frames, carry, received, headers, cut, filter>>

TsNext == BeginFrame \/ HandlePacket \/ LosePacket

TsSpec == TsInit /\ [][TsNext]_tsVars

-----------------------------------------------------------------------------
(* Properties.                                                             *)

\* All that has left the filter or is in its block, in order.
Output == FlattenSeq([k \in DOMAIN submitted |-> submitted[k].data])
          \o filter.data

\* Whatever the sizes of packets and blocks, what reaches the decoder is in the
\* order in which it was sent, no datum comes twice, and without losses none is
\* missing since the first header (push_es_data).
DeliveredInOrder ==
    LET out == Output IN
    /\ ~lost => out = received
    /\ \A j, k \in DOMAIN out : j < k =>
          \/ out[j].frame < out[k].frame
          \/ /\ out[j].frame = out[k].frame
             /\ out[j].place < out[k].place

\* No value 1 that could end the search before a start code has arrived.
NoStrayOne ==
    \A k \in DOMAIN received :
        received[k].value = 1 => received[k].packet = received[k].frame

\* Every frame keeps to its own PES packet.
NothingLeft ==
    \A k \in DOMAIN received : received[k].packet = received[k].frame

\* A frame whose PES header arrived, and whose start code is not cut, begins a block
\* of its own, with the bit that says so, whatever was lost or cut around it.
StartIsFirst ==
    \A k \in DOMAIN submitted : \A j \in DOMAIN submitted[k].data :
        LET d == submitted[k].data[j] IN
        IsStart(d) /\ d.frame \in headers \ cut =>
            j = 1 /\ "first" \in submitted[k].bits

\* A block that is said to begin a frame does so, in whichever piece the start
\* code comes, but where it is cut.
FirstIsStart ==
    \A k \in DOMAIN submitted :
        LET d == submitted[k].data[1] IN
        "first" \in submitted[k].bits => IsStart(d) \/ d.packet \in cut

\* A block that is said to end a frame does so, whether the length of the packet
\* is known and counted down over several blocks or not.
LastIsEnd ==
    \A k \in DOMAIN submitted :
        "last" \in submitted[k].bits =>
            LET after == IF k = Len(submitted) THEN filter.data
                         ELSE submitted[k + 1].data
            IN after # <<>> => IsStart(Head(after))

\* The first block of a frame has the time stamp of its PES header.
FirstHasPts ==
    \A k \in DOMAIN submitted :
        "first" \in submitted[k].bits => "pts" \in submitted[k].bits

\* As long as no value 1 comes in front of a start code, a block goes on from one
\* frame into the next only where the next one's PES header is lost, its start code
\* cut, or a piece too short to be searched comes before it; and without losses a
\* block wrongly said to begin a frame is of a PES packet with such a start code.
\* When moreover no start code is cut and nothing is left to the next packet, the
\* bits tell where a frame ends, and its time stamp goes with it
\* (handle_packet_payload, find_start_code_pos).
FramesApart ==
    /\ NoStrayOne => StartIsFirst
    /\ NoStrayOne /\ ~lost => FirstIsStart
    /\ NothingLeft /\ ~lost /\ cut = {} => LastIsEnd /\ FirstHasPts
==============================================================================
