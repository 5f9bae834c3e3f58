--------------------------- MODULE VideoPlayback ---------------------------
(***************************************************************************)
(* Video playback (wfd_player/playback): the video decoder thread and the  *)
(* video render thread under the commands of the player.                   *)
(*                                                                         *)
(* Beyond the message loop of module Player, the render thread posts to    *)
(* the decoder: the decoder stops at a change of resolution, and the       *)
(* renderer reopens the decoding engine and sends it a CONTINUE.           *)
(*                                                                         *)
(* The end of stream is not modelled: nothing in the program sets it for a *)
(* video decoder.  The decoding library and the display layer are          *)
(* external; a picture is a count.                                         *)
(***************************************************************************)
EXTENDS Player

CONSTANT Buffers   \* pictures that the decoding library has room for

ASSUME BuffersAssumption == Buffers \in Nat \ {0}

VARIABLES
    clock,      \* nTimeBase is set; the AvTimer is running
    first,      \* FIRST_FRAME_READY, bFirstPictureShowed
    crashed,    \* the decoder's bCrashFlag
    resChange,  \* the decoder's bResolutionChange
    hadBuffers, \* the renderer's bHadSetBufferToDecoderFlag
    ptsNotified,\* the renderer's bFirstPtsNotified
    held,       \* the renderer's pPicture is not NULL
    short,      \* nSetToDecoderBufferNum < nGpuBufferNum
    fbm, ready  \* in the library: its frame buffers, pictures to be shown

decVars == <<crashed, resChange>>
renVars == <<hadBuffers, ptsNotified, held, short>>
library == <<fbm, ready>>
streamVars == <<first, decVars, renVars, library>>
vars == <<playerVars, threads, status, clock, streamVars>>

Phase == {"get", "check", "post", "decode", "flags", "request", "asked", "look",
          "reopen", "wakeCheck", "wakePost", "show", "gone"}

Init ==
    /\ PlayerInit
    /\ clock = [base |-> FALSE, running |-> FALSE]
    /\ first = [c \in Comp |-> FALSE]
    /\ crashed = FALSE /\ resChange = FALSE
    /\ hadBuffers = FALSE /\ ptsNotified = FALSE /\ held = FALSE /\ short = FALSE
    /\ fbm = "none" /\ ready = 0

SetFirst(c, b) == first' = [first EXCEPT ![c] = b]

\* doDecode and doRender do nothing in any other state.
Working(c) ==
    status[c] = "started" \/ (status[c] = "paused" /\ ~first[c])

ContinueWork(c) == Continues(c) /\ UNCHANGED <<clock, streamVars>>

-----------------------------------------------------------------------------
(* The player's commands and the media clock.                              *)

\* After a pause the timer goes on if it has been set.
Start ==
    /\ CallStart
    /\ clock' = IF player.status = "paused"
                THEN [clock EXCEPT !.running = clock.base]
                ELSE [base |-> FALSE, running |-> FALSE]
    /\ UNCHANGED streamVars

Stop == CallStop /\ UNCHANGED <<clock, streamVars>>
Pause == CallPause /\ UNCHANGED <<clock, streamVars>>
Reset == CallReset /\ UNCHANGED <<clock, streamVars>>
Clear == CallClear /\ UNCHANGED <<clock, streamVars>>

PlayerWaits == (PlayerPosts \/ PlayerResumes) /\ UNCHANGED <<clock, streamVars>>

\* The timer is stopped, the time base forgotten, eStatus set.
PlayerActs ==
    \E what \in OwnSteps :
        /\ PlayerDoes(what)
        /\ clock' = [base |-> clock.base /\ what # "rewound",
                     running |-> clock.running /\ what = "started"]
        /\ UNCHANGED streamVars

-----------------------------------------------------------------------------
(* The decoder thread (videoDecComponent.c).                               *)

\* ResetVideoDecoder drops the pictures that have not been requested.
FlushDecoder == ready' = 0 /\ UNCHANGED fbm

\* Mutant: a paused decoder is started without a CONTINUE.
DecStartQuiet ==
    /\ Handle("dec", "start")
    /\ JustReply("dec", "start")
    /\ SetStatus("dec", "started")
    /\ IF status["dec"] = "stopped" THEN FlushDecoder ELSE UNCHANGED library
    /\ UNCHANGED <<playerVars, clock, first, decVars, renVars>>

\* handleStart: a decoder that runs already is not kept going.
DecStart ==
    /\ Handle("dec", "start")
    /\ CASE status["dec"] = "started" ->
                JustReply("dec", "start") /\ UNCHANGED <<status, library>>
         [] status["dec"] = "paused" ->
                /\ IF crashed THEN JustReply("dec", "start")
                              ELSE ContinueThenReply("dec", "start")
                /\ SetStatus("dec", "started") /\ UNCHANGED library
         [] status["dec"] = "stopped" ->
                /\ ContinueThenReply("dec", "start")
                /\ SetStatus("dec", "started") /\ FlushDecoder
    /\ UNCHANGED <<playerVars, clock, first, decVars, renVars>>

\* handleStop: the reply to a stopped decoder's stop is posted twice.
DecStop ==
    /\ Handle("dec", "stop")
    /\ replies' = [replies EXCEPT !["dec"]["stop"] =
                       @ + IF status["dec"] = "stopped" THEN 2 ELSE 1]
    /\ SetFirst("dec", FALSE) /\ SetStatus("dec", "stopped") /\ FlushDecoder
    /\ UNCHANGED <<playerVars, clock, pc, owed, decVars, renVars>>

\* handlePause.
DecPause ==
    /\ Handle("dec", "pause")
    /\ IF Working("dec")
       THEN /\ SetStatus("dec", "paused")
            /\ IF first["dec"] THEN JustReply("dec", "pause")
                               ELSE ContinueThenReply("dec", "pause")
       ELSE JustReply("dec", "pause") /\ UNCHANGED status
    /\ UNCHANGED <<playerVars, clock, first, decVars, renVars, library>>

\* handleReset replies before it posts a CONTINUE.
DecReset ==
    /\ Handle("dec", "reset")
    /\ SetFirst("dec", FALSE) /\ FlushDecoder
    /\ IF status["dec"] = "stopped" THEN JustReply("dec", "reset")
                                    ELSE ReplyThenContinue("dec", "reset")
    /\ UNCHANGED <<playerVars, clock, status, decVars, renVars>>

\* handleQuit.
DecQuit ==
    /\ Handle("dec", "quit")
    /\ Reply("dec", "quit") /\ GoTo("dec", "gone")
    /\ SetStatus("dec", "stopped") /\ FlushDecoder
    /\ UNCHANGED <<playerVars, clock, owed, first, decVars, renVars>>

\* doDecode, up to the call of DecodeVideoStream.
DoDecode ==
    /\ Handle("dec", "continue")
    /\ GoTo("dec", IF Working("dec") /\ ~crashed THEN "decode" ELSE "get")
    /\ UNCHANGED <<playerVars, clock, owed, replies, status, first, decVars, renVars, library>>

DecodeReturns == pc["dec"] = "decode" /\ UNCHANGED <<playerVars, clock, mq, owed, replies, status, renVars>>

\* No bitstream, no frame buffer, or nothing to show yet; the sequence header
\* may have told the library what frame buffers it needs.
DecodeNothing ==
    /\ DecodeReturns
    /\ fbm' \in {fbm} \cup IF fbm = "none" THEN {"made"} ELSE {}
    /\ GoTo("dec", "check")
    /\ UNCHANGED <<first, decVars, ready>>

\* VDECODE_RESULT_FRAME_DECODED.
DecodeFrame ==
    /\ DecodeReturns
    /\ fbm = "supplied" /\ ready + (IF held THEN 1 ELSE 0) < Buffers
    /\ ready' = ready + 1
    /\ SetFirst("dec", TRUE)
    /\ GoTo("dec", IF status["dec"] = "started" THEN "check" ELSE "get")
    /\ UNCHANGED <<decVars, fbm>>

\* Mutant: the decoder goes on while the engine is to be reopened.
DecodeResolutionGoesOn ==
    /\ DecodeReturns
    /\ fbm # "none"
    /\ resChange' = TRUE
    /\ GoTo("dec", "check")
    /\ UNCHANGED <<first, crashed, library>>

\* VDECODE_RESULT_RESOLUTION_CHANGE: the thread waits for the renderer.
DecodeResolution ==
    /\ DecodeReturns
    /\ fbm # "none"
    /\ resChange' = TRUE
    /\ GoTo("dec", "get")
    /\ UNCHANGED <<first, crashed, library>>

DecodeCrash ==
    /\ DecodeReturns
    /\ crashed' = TRUE
    /\ GoTo("dec", "get")
    /\ UNCHANGED <<first, resChange, library>>

-----------------------------------------------------------------------------
(* The render thread (videoRenderComponent_newDisplay.c).                  *)

\* handleStart replies first and posts a CONTINUE in every case.
RenStart ==
    /\ Handle("ren", "start")
    /\ IF status["ren"] = "stopped" THEN SetFirst("ren", FALSE) /\ ptsNotified' = FALSE
                                    ELSE UNCHANGED <<first, ptsNotified>>
    /\ SetStatus("ren", "started")
    /\ ReplyThenContinue("ren", "start")
    /\ UNCHANGED <<playerVars, clock, decVars, hadBuffers, held, short, library>>

\* handleStop returns the picture (returnOldPic).
RenStop ==
    /\ Handle("ren", "stop")
    /\ SetStatus("ren", "stopped")
    /\ held' = (held /\ status["ren"] = "stopped")
    /\ JustReply("ren", "stop")
    /\ UNCHANGED <<playerVars, clock, first, decVars, hadBuffers, ptsNotified, short, library>>

\* handlePause.
RenPause ==
    /\ Handle("ren", "pause")
    /\ IF Working("ren")
       THEN /\ SetStatus("ren", "paused")
            /\ IF first["ren"] THEN JustReply("ren", "pause")
                               ELSE ReplyThenContinue("ren", "pause")
       ELSE JustReply("ren", "pause") /\ UNCHANGED status
    /\ UNCHANGED <<playerVars, clock, first, decVars, renVars, library>>

\* Mutant: the first picture of the new position will not set the time.
RenResetKeepsPts ==
    /\ Handle("ren", "reset")
    /\ held' = FALSE
    /\ SetFirst("ren", FALSE) /\ UNCHANGED ptsNotified
    /\ IF status["ren"] = "stopped" THEN JustReply("ren", "reset")
                                    ELSE ReplyThenContinue("ren", "reset")
    /\ UNCHANGED <<playerVars, clock, status, decVars, hadBuffers, short, library>>

\* handleReset.
RenReset ==
    /\ Handle("ren", "reset")
    /\ held' = FALSE
    /\ SetFirst("ren", FALSE) /\ ptsNotified' = FALSE
    /\ IF status["ren"] = "stopped" THEN JustReply("ren", "reset")
                                    ELSE ReplyThenContinue("ren", "reset")
    /\ UNCHANGED <<playerVars, clock, status, decVars, hadBuffers, short, library>>

\* handleQuit.
RenQuit ==
    /\ Handle("ren", "quit")
    /\ held' = FALSE
    /\ Reply("ren", "quit") /\ GoTo("ren", "gone")
    /\ SetStatus("ren", "stopped")
    /\ UNCHANGED <<playerVars, clock, owed, first, decVars, hadBuffers, ptsNotified, short, library>>

AfterFlags == IF held THEN "show" ELSE "request"

\* doRender.
DoRender ==
    /\ Handle("ren", "continue")
    /\ GoTo("ren", IF ~Working("ren") THEN "get"
                   ELSE IF hadBuffers THEN AfterFlags ELSE "flags")
    /\ UNCHANGED <<playerVars, clock, owed, replies, status, first, decVars, renVars, library>>

RenSteps(phase) ==
    pc["ren"] = phase /\ UNCHANGED <<playerVars, clock, owed, replies, status, decVars>>

\* checkFlags: the layer's buffers are given to the library, perhaps not all.
SupplyBuffers ==
    /\ RenSteps("flags")
    /\ fbm # "none" /\ fbm' = "supplied"
    /\ hadBuffers' = TRUE /\ short' \in BOOLEAN
    /\ GoTo("ren", AfterFlags)
    /\ UNCHANGED <<mq, first, ptsNotified, held, ready>>

\* A message ends every wait of the renderer.
WaitEnds ==
    /\ \/ RenSteps("flags") /\ fbm = "none"
       \/ RenSteps("look")
    /\ mq["ren"] # <<>>
    /\ GoTo("ren", "get")
    /\ UNCHANGED <<mq, first, renVars, library>>

\* requestPicture: a picture, or why there is none.
RequestPicture ==
    /\ RenSteps("request")
    /\ \/ ready > 0 /\ ready' = ready - 1 /\ held' = TRUE /\ GoTo("ren", "show")
       \/ ready = 0 /\ UNCHANGED <<ready, held>> /\ GoTo("ren", "asked")
    /\ UNCHANGED <<mq, first, hadBuffers, ptsNotified, short, fbm>>

\* Mutant: the messages that come meanwhile are not looked at.
LookForever ==
    /\ \/ RenSteps("asked") /\ GoTo("ren", IF resChange THEN "reopen" ELSE "look")
       \/ RenSteps("look") /\ GoTo("ren", "request")
    /\ UNCHANGED <<mq, first, renVars, library>>

\* Without a picture the decoder's flag is read, then the messages are counted.
LookAgain ==
    /\ \/ RenSteps("asked") /\ GoTo("ren", IF resChange THEN "reopen" ELSE "look")
       \/ RenSteps("look") /\ mq["ren"] = <<>> /\ GoTo("ren", "request")
    /\ UNCHANGED <<mq, first, renVars, library>>

\* WFD_VideoDecCompReopenVideoEngine, up to its BaseCompContinue.
Reopen ==
    /\ pc["ren"] = "reopen"
    /\ resChange' = FALSE
    /\ hadBuffers' = FALSE
    /\ fbm' = "none" /\ ready' = 0
    /\ GoTo("ren", "wakeCheck")
    /\ UNCHANGED <<playerVars, clock, mq, owed, replies, status, first, crashed,
                   ptsNotified, held, short>>

\* Mutant: the decoder is not told that the engine has been reopened.
WakeNobody ==
    /\ RenSteps("wakeCheck")
    /\ GoTo("ren", "check")
    /\ UNCHANGED <<mq, first, renVars, library>>

WakeCheck ==
    /\ RenSteps("wakeCheck")
    /\ GoTo("ren", IF mq["dec"] = <<>> THEN "wakePost" ELSE "check")
    /\ UNCHANGED <<mq, first, renVars, library>>

WakePost ==
    /\ RenSteps("wakePost")
    /\ PostMessage("dec", "continue")
    /\ GoTo("ren", "check")
    /\ UNCHANGED <<first, renVars, library>>

\* The second picture sets the time base and starts the timer.
NotifyFirstPts ==
    IF first["ren"] /\ ~ptsNotified
    THEN ptsNotified' = TRUE /\ clock' = [base |-> TRUE, running |-> TRUE]
    ELSE UNCHANGED <<ptsNotified, clock>>

Showing ==
    /\ pc["ren"] = "show"
    /\ NotifyFirstPts
    /\ UNCHANGED <<player, waiting, mq, owed, replies, status, decVars, hadBuffers, library>>

\* showProgressivePicture: the picture goes to the layer, another comes back.
ShowPicture ==
    /\ Showing
    /\ held' = FALSE /\ short' \in {FALSE, short}
    /\ SetFirst("ren", TRUE)
    /\ GoTo("ren", IF status["ren"] = "started" THEN "check" ELSE "get")

\* LayerDequeueBuffer fails while buffers are missing: the picture stays.
ShowFails ==
    /\ Showing
    /\ short
    /\ GoTo("ren", "check")
    /\ UNCHANGED <<held, short, first>>

-----------------------------------------------------------------------------
PlayerStep == PlayerWaits \/ PlayerActs
Decode == DecodeNothing \/ DecodeFrame \/ DecodeResolution \/ DecodeCrash
DecThread ==
    \/ DecStart \/ DecStop \/ DecPause \/ DecReset \/ DecQuit \/ DoDecode \/ Decode
    \/ ContinueWork("dec")
RenThread ==
    \/ RenStart \/ RenStop \/ RenPause \/ RenReset \/ RenQuit \/ DoRender
    \/ SupplyBuffers \/ WaitEnds \/ RequestPicture \/ LookAgain \/ Reopen
    \/ WakeCheck \/ WakePost \/ ShowPicture \/ ShowFails
    \/ ContinueWork("ren")

\* After Clear the player is of no more use.
Cleared == player.status = "cleared" /\ UNCHANGED vars

Next ==
    \/ Start \/ Stop \/ Pause \/ Reset \/ Clear \/ PlayerStep
    \/ DecThread \/ RenThread \/ Cleared

Spec == Init /\ [][Next]_vars

\* Threads run; the layer does not refuse its buffers for ever.
Fairness ==
    /\ WF_vars(PlayerStep) /\ WF_vars(DecThread) /\ WF_vars(RenThread)
    /\ SF_vars(ShowPicture)

FairSpec == Spec /\ Fairness
-----------------------------------------------------------------------------
(* Properties.                                                             *)

TypeOK ==
    /\ LoopTypeOK
    /\ clock \in [base : BOOLEAN, running : BOOLEAN]
    /\ pc \in [Comp -> Phase]
    /\ first \in [Comp -> BOOLEAN]
    /\ {crashed, resChange, hadBuffers, ptsNotified, held, short} \subseteq BOOLEAN
    /\ fbm \in {"none", "made", "supplied"}
    /\ ready \in 0 .. Buffers

\* Nobody ever posts to a full queue, which would abort the program: neither
\* the player, nor a thread that has looked before, nor the renderer.
PostNeverFull == RoomToPost /\ (pc["ren"] = "wakePost" => Len(mq["dec"]) < Capacity)

\* A thread that has work to do never waits on an empty queue: a CONTINUE is
\* dropped only for a message whose handler posts it again.  The decoder may
\* wait for the renderer to reopen the engine, and then resChange is set.
ChainAlive ==
    \A c \in Comp :
        (pc[c] = "get" /\ mq[c] = <<>> /\ Working(c)) =>
            c = "dec" /\ (crashed \/ resChange \/ pc["ren"] \in {"wakeCheck", "wakePost"})

\* Between commands the two components are in the player's state.
StatusAgrees ==
    Idle => \A c \in Comp :
        status[c] = IF player.status = "cleared" THEN "stopped" ELSE player.status

\* Between commands the timer runs while a started player has shown its second
\* picture, and only then; the time base is set when the renderer has set it.
ClockAgrees ==
    Idle => /\ clock.base = ptsNotified
            /\ clock.running = (ptsNotified /\ player.status = "started")

\* The second half of a seek, in which the components are started again.
Restarting == player.todo \in {RestartComps, Tail(RestartComps)}

\* The renderer calls into a decoder that has been started, but for the end of
\* a seek.
RenderRunsWithDecoder ==
    (status["ren"] = "started" /\ ~Restarting) => status["dec"] = "started"

\* The engine is not reopened under the decoder's feet, in a player that
\* has only been started, perhaps is being stopped: the life WFDPlayer2 gives it.
ReopenAlone == player.straight => ~(pc["ren"] = "reopen" /\ pc["dec"] = "decode")

\* In a started player that does not crash decoding goes on, over changes of
\* resolution, pauses and seeks.
DecodingGoesOn ==
    <>[](Idle /\ player.status = "started" /\ ~crashed) => []<>(pc["dec"] = "decode")
=============================================================================
