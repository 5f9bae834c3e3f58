------------------------ MODULE VideoPlaybackProofs ------------------------
(***************************************************************************)
(* Proofs about VideoPlayback, for every capacity of the queues and every  *)
(* number of pictures: commands are answered once and nobody posts to a    *)
(* full queue; between commands the components and the clock are in the    *)
(* player's state; a thread with work to do is always kept going; and the  *)
(* engine is not reopened under the decoder's feet.                        *)
(*                                                                         *)
(* What PlayerProofs says of the exchange and of the place in the list of  *)
(* the command in progress is joined by what each place in a list says of  *)
(* the components and the clock.                                           *)
(***************************************************************************)
EXTENDS VideoPlayback, PlayerProofs

USE BuffersAssumption

-----------------------------------------------------------------------------
(* The invariant.                                                          *)

ThreadsType == pc \in [Comp -> Phase] /\ status \in [Comp -> Status]

FlagsType ==
    /\ crashed \in BOOLEAN /\ resChange \in BOOLEAN /\ hadBuffers \in BOOLEAN
    /\ ptsNotified \in BOOLEAN /\ held \in BOOLEAN /\ short \in BOOLEAN

MediaType ==
    /\ clock \in [base : BOOLEAN, running : BOOLEAN]
    /\ first \in [Comp -> BOOLEAN]
    /\ fbm \in {"none", "made", "supplied"}

VideoType == ThreadsType /\ FlagsType /\ MediaType /\ ready \in 0 .. Buffers

\* The clock before step k of the list, when e is the step that is still to be
\* carried out: the time base is set while the renderer has notified it, but in
\* the part of a seek that forgets it.
ClockIn(s, k, e) ==
    CASE s = "start" -> IF e > 2 THEN clock.base = ptsNotified /\ clock.running = ptsNotified
                        ELSE /\ clock.running = clock.base
                             /\ IF player.status = "stopped" THEN ~clock.base
                                                             ELSE clock.base = ptsNotified
      [] s = "stop" -> clock.base = ptsNotified /\ (k > 3 => ~clock.running)
      [] s = "pause" -> clock.base = ptsNotified /\ (k > 3 => ~clock.running)
      [] s = "seek" -> IF k > 5 THEN clock.base = ptsNotified /\ clock.running = ptsNotified
                       ELSE IF e > 4 THEN ~ptsNotified ELSE clock.base = ptsNotified
      [] s = "rewind" -> /\ ~clock.running
                         /\ IF k > 3 THEN ~clock.base /\ ~ptsNotified
                            ELSE IF e > 2 THEN ~ptsNotified ELSE clock.base = ptsNotified
      [] s = "clear" -> clock.base = ptsNotified /\ ~clock.running

\* The life of a player that has only been started, perhaps is being stopped.
Straight(s) == player.straight => s \in {"start", "stop"} /\ player.status # "paused"

Row(s, k, e) ==
    /\ status["ren"] = RenAt(s, e, player.status)
    /\ status["dec"] = DecAt(s, e, player.status)
    /\ ClockIn(s, k, e)
    /\ Straight(s)

InRow == \E s, k : Doing(s, k) /\ Row(s, k, Turn(k))

\* Where the renderer is while it does something that it may do only while
\* there is work.
Rendering == {"flags", "request", "asked", "look", "reopen", "wakeCheck", "wakePost", "show"}

WorkInv == pc["ren"] \in Rendering => Working("ren")

\* In a straight player one CONTINUE, at most, keeps the decoder going, or it
\* decodes, or a change of resolution is under way: it is about to be reopened
\* and will be kept going by the renderer.
NoContinue(q) == \A i \in 1 .. Len(q) : q[i] # "continue"
OneContinue(q) == \A i, j \in 1 .. Len(q) : q[i] = "continue" /\ q[j] = "continue" => i = j

Waking == pc["ren"] \in {"wakeCheck", "wakePost"}
DecAtRest == NoContinue(mq["dec"]) /\ pc["dec"] \in {"get", "gone"}

OneToken ==
    /\ pc["ren"] = "reopen" => resChange
    /\ resChange => ~Waking /\ DecAtRest
    /\ Waking => DecAtRest
    /\ ~NoContinue(mq["dec"]) => pc["dec"] \in {"get", "gone"}
    /\ OneContinue(mq["dec"])
    /\ player.status = "stopped" /\ status["dec"] = "stopped" => DecAtRest /\ ~resChange /\ ~Waking

TokenInv == player.straight => OneToken

VideoInv == PlayInv /\ VideoType /\ InRow /\ WorkInv /\ ChainAlive /\ TokenInv

LEMMA TypeParts == PlayInv /\ VideoType => TypeOK
BY DEF TypeOK, LoopTypeOK, PlayInv, PlayerType, LoopType, VideoType, ThreadsType, FlagsType,
       MediaType, Step, Message

LEMMA AtFirst == Init => VideoInv
<1> SUFFICES ASSUME Init PROVE VideoInv
  OBVIOUS
<1>1. PlayInv /\ Doing("stop", 4)
  BY FirstExchange, FirstDoing DEF Init
<1>2. ~Handled /\ player.straight /\ player.status = "stopped" /\ mq["dec"] = <<>> /\ mq["ren"] = <<>>
      /\ pc["dec"] = "get" /\ pc["ren"] = "get" /\ status["ren"] = "stopped" /\ status["dec"] = "stopped"
  BY DEF Init, PlayerInit, Handled, Comp
<1>3. VideoType
  <2>1. ThreadsType
    BY DEF Init, PlayerInit, ThreadsType, Status, Comp, Phase
  <2>2. FlagsType
    BY DEF Init, FlagsType
  <2>3. MediaType
    BY DEF Init, MediaType
  <2>4. ready \in 0 .. Buffers
    BY DEF Init
  <2> QED BY <2>1, <2>2, <2>3, <2>4 DEF VideoType
<1>4. Row("stop", 4, 4)
  BY <1>2 DEF Init, Row, RenAt, DecAt, ClockIn, Straight
<1>5. InRow
  BY <1>1, <1>2, <1>4 DEF InRow, Turn
<1>6. WorkInv /\ ChainAlive
  BY <1>2 DEF WorkInv, Rendering, ChainAlive, Working, Comp
<1>7. TokenInv
  BY <1>2 DEF Init, TokenInv, OneToken, Waking, DecAtRest, NoContinue, OneContinue
<1> QED BY <1>1, <1>3, <1>5, <1>6, <1>7 DEF VideoInv

-----------------------------------------------------------------------------
(* What the steps of the two threads are to the exchange.                  *)

RenCommand == RenStart \/ RenStop \/ RenPause \/ RenReset \/ RenQuit
RenOther ==
    \/ DoRender \/ SupplyBuffers \/ WaitEnds \/ RequestPicture \/ LookAgain \/ Reopen
    \/ WakeCheck \/ WakePost \/ ShowPicture \/ ShowFails \/ ContinueWork("ren")

DecCommand == DecStart \/ DecStop \/ DecPause \/ DecReset \/ DecQuit
DecOther == DoDecode \/ Decode \/ ContinueWork("dec")

\* The handlers of the renderer's commands.
LEMMA RenCommands ==
    /\ RenStart => Replied("ren", "start", "check")
    /\ RenStop => Replied("ren", "stop", "get")
    /\ RenPause => Replied("ren", "pause", "get") \/ Replied("ren", "pause", "check")
    /\ RenReset => Replied("ren", "reset", "get") \/ Replied("ren", "reset", "check")
    /\ RenQuit => Replied("ren", "quit", "gone")
    /\ RenCommand => UNCHANGED playerVars
BY DEF RenCommand, RenStart, RenStop, RenPause, RenReset, RenQuit, Replied, JustReply,
       ReplyThenContinue, playerVars

\* And of the decoder's, if it is not stopped when it is stopped.
LEMMA DecCommands ==
    ASSUME ThreadsType, LoopType
    PROVE  /\ DecStart => Replied("dec", "start", "get") \/ Owes("dec", "start")
           /\ DecStop /\ status["dec"] # "stopped" => Replied("dec", "stop", "get")
           /\ DecPause => Replied("dec", "pause", "get") \/ Owes("dec", "pause")
           /\ DecReset => Replied("dec", "reset", "get") \/ Replied("dec", "reset", "check")
           /\ DecQuit => Replied("dec", "quit", "gone")
           /\ DecCommand => UNCHANGED playerVars
<1>1. DecStart => Replied("dec", "start", "get") \/ Owes("dec", "start")
  BY DEF DecStart, ThreadsType, Status, Comp, Replied, Owes, JustReply
<1>2. DecStop /\ status["dec"] # "stopped" => Replied("dec", "stop", "get")
  <2> SUFFICES ASSUME DecStop, status["dec"] # "stopped" PROVE Replied("dec", "stop", "get")
    OBVIOUS
  <2>1. Handle("dec", "stop") /\ pc' = pc /\ owed' = owed /\ pc["dec"] = "get"
    BY DEF DecStop, Handle
  <2>2. Reply("dec", "stop")
    BY DEF DecStop, Reply
  <2>3. pc' = [pc EXCEPT !["dec"] = "get"]
    BY <2>1 DEF ThreadsType
  <2> QED BY <2>1, <2>2, <2>3 DEF Replied, GoTo
<1>3. DecPause => Replied("dec", "pause", "get") \/ Owes("dec", "pause")
  BY DEF DecPause, Replied, Owes, JustReply
<1>4. DecReset => Replied("dec", "reset", "get") \/ Replied("dec", "reset", "check")
  BY DEF DecReset, Replied, JustReply, ReplyThenContinue
<1>5. DecQuit => Replied("dec", "quit", "gone")
  BY DEF DecQuit, Replied
<1>6. DecCommand => UNCHANGED playerVars
  BY DEF DecCommand, DecStart, DecStop, DecPause, DecReset, DecQuit, playerVars
<1> QED BY <1>1, <1>2, <1>3, <1>4, <1>5, <1>6

\* Their other steps, which leave the states of the components alone.
LEMMA RenOthers ==
    ASSUME RenOther
    PROVE  OtherStep("ren") /\ UNCHANGED <<playerVars, status>>
<1>1. CASE DoRender
  <2>1. Took("ren", "get") \/ Took("ren", "show") \/ Took("ren", "request") \/ Took("ren", "flags")
    BY <1>1 DEF DoRender, Took, AfterFlags
  <2> QED BY <1>1, <2>1 DEF DoRender, OtherStep
<1>2. CASE SupplyBuffers \/ WaitEnds \/ RequestPicture \/ LookAgain \/ WakeCheck
  <2>1. Works("ren", "get") \/ Works("ren", "show") \/ Works("ren", "request")
            \/ Works("ren", "asked") \/ Works("ren", "look") \/ Works("ren", "reopen") \/ Works("ren", "wakePost")
            \/ Works("ren", "check")
    BY <1>2 DEF SupplyBuffers, WaitEnds, RequestPicture, LookAgain, WakeCheck, RenSteps, Works, AfterFlags
  <2>2. UNCHANGED <<playerVars, status>>
    BY <1>2 DEF SupplyBuffers, WaitEnds, RequestPicture, LookAgain, WakeCheck, RenSteps
  <2> QED BY <2>1, <2>2 DEF OtherStep
<1>3. CASE Reopen
  <2>1. Works("ren", "wakeCheck")
    BY <1>3 DEF Reopen, Works
  <2> QED BY <1>3, <2>1 DEF Reopen, OtherStep
<1>4. CASE ShowPicture \/ ShowFails
  <2>1. Works("ren", "get") \/ Works("ren", "check")
    BY <1>4 DEF ShowPicture, ShowFails, Showing, Works
  <2> QED BY <1>4, <2>1 DEF ShowPicture, ShowFails, Showing, OtherStep, playerVars
<1>5. CASE WakePost
  BY <1>5 DEF WakePost, RenSteps, Wakes, OtherStep
<1>6. CASE ContinueWork("ren")
  BY <1>6 DEF ContinueWork, Continues, Looks, Posts, OtherStep
<1> QED BY <1>1, <1>2, <1>3, <1>4, <1>5, <1>6 DEF RenOther

LEMMA DecOthers ==
    ASSUME DecOther
    PROVE  OtherStep("dec") /\ UNCHANGED <<playerVars, status>>
<1>1. CASE DoDecode
  <2>1. Took("dec", "get") \/ Took("dec", "decode")
    BY <1>1 DEF DoDecode, Took
  <2> QED BY <1>1, <2>1 DEF DoDecode, OtherStep
<1>2. CASE Decode
  <2>1. Works("dec", "get") \/ Works("dec", "check")
    BY <1>2 DEF Decode, DecodeNothing, DecodeFrame, DecodeResolution, DecodeCrash, DecodeReturns, Works
  <2>2. UNCHANGED <<playerVars, status>>
    BY <1>2 DEF Decode, DecodeNothing, DecodeFrame, DecodeResolution, DecodeCrash, DecodeReturns
  <2> QED BY <2>1, <2>2 DEF OtherStep
<1>3. CASE ContinueWork("dec")
  BY <1>3 DEF ContinueWork, Continues, Looks, Posts, OtherStep
<1> QED BY <1>1, <1>2, <1>3 DEF DecOther

\* What the steps of the decoder leave alone.
LEMMA DecLeaves ==
    ASSUME LoopType, ThreadsType, MediaType, DecCommand \/ DecOther
    PROVE  /\ UNCHANGED <<clock, ptsNotified, player, waiting>>
           /\ pc'["ren"] = pc["ren"] /\ mq'["ren"] = mq["ren"]
           /\ status'["ren"] = status["ren"] /\ first'["ren"] = first["ren"]
<1> USE DEF LoopType, ThreadsType, MediaType, Comp, playerVars, renVars
<1> USE DEF Handle, JustReply, ReplyThenContinue, ContinueThenReply, GoTo, SetStatus, SetFirst
<1>1. CASE DecStart
  <2>1. JustReply("dec", "start") \/ ContinueThenReply("dec", "start")
    BY <1>1 DEF DecStart, Status
  <2>2. UNCHANGED status \/ SetStatus("dec", "started")
    BY <1>1 DEF DecStart, Status
  <2> QED BY <1>1, <2>1, <2>2 DEF DecStart
<1>2. CASE DecStop \/ DecPause \/ DecReset
  BY <1>2 DEF DecStop, DecPause, DecReset
<1>3. CASE DecQuit \/ DoDecode
  BY <1>3 DEF DecQuit, DoDecode
<1>4. CASE Decode
  BY <1>4 DEF Decode, DecodeNothing, DecodeFrame, DecodeResolution, DecodeCrash, DecodeReturns
<1>5. CASE ContinueWork("dec")
  <2>1. UNCHANGED <<playerVars, status, clock, streamVars>>
    BY <1>5 DEF ContinueWork, Continues, Looks, Posts
  <2>2. pc'["ren"] = pc["ren"] /\ mq'["ren"] = mq["ren"]
    BY <1>5 DEF ContinueWork, Continues, Looks, Posts, PostMessage, HandlerEnds
  <2> QED BY <2>1, <2>2 DEF streamVars
<1> QED BY <1>1, <1>2, <1>3, <1>4, <1>5 DEF DecCommand, DecOther

\* And those of the renderer, but for the reopening of the engine.
LEMMA RenLeaves ==
    ASSUME LoopType, ThreadsType, MediaType, RenCommand \/ RenOther
    PROVE  /\ UNCHANGED <<crashed, player, waiting>> /\ pc'["dec"] = pc["dec"]
           /\ status'["dec"] = status["dec"] /\ first'["dec"] = first["dec"]
           /\ mq'["dec"] = mq["dec"] \/ WakePost
           /\ resChange' = resChange \/ Reopen
<1> USE DEF LoopType, ThreadsType, MediaType, Comp, playerVars, decVars
<1> USE DEF Handle, JustReply, ReplyThenContinue, GoTo, SetStatus, SetFirst
<1>1. CASE RenStart \/ RenStop \/ RenQuit \/ DoRender
  BY <1>1 DEF RenStart, RenStop, RenQuit, DoRender
<1>2. CASE RenPause \/ RenReset
  BY <1>2 DEF RenPause, RenReset
<1>3. CASE SupplyBuffers \/ WaitEnds \/ RequestPicture \/ LookAgain \/ WakeCheck \/ WakePost
  BY <1>3 DEF SupplyBuffers, WaitEnds, RequestPicture, LookAgain, WakeCheck, WakePost, RenSteps
<1>4. CASE Reopen
  BY <1>4 DEF Reopen
<1>5. CASE ShowPicture \/ ShowFails
  BY <1>5 DEF ShowPicture, ShowFails, Showing
<1>6. CASE ContinueWork("ren")
  <2>1. UNCHANGED <<playerVars, status, clock, streamVars>>
    BY <1>6 DEF ContinueWork, Continues, Looks, Posts
  <2>2. pc'["dec"] = pc["dec"] /\ mq'["dec"] = mq["dec"]
    BY <1>6 DEF ContinueWork, Continues, Looks, Posts, PostMessage, HandlerEnds
  <2> QED BY <2>1, <2>2 DEF streamVars
<1> QED BY <1>1, <1>2, <1>3, <1>4, <1>5, <1>6 DEF RenCommand, RenOther

\* The clock is touched by the renderer only when it shows its second picture.
Notifies ==
    /\ pc["ren"] = "show" /\ first["ren"]
    /\ ptsNotified' = TRUE /\ clock' = [base |-> TRUE, running |-> TRUE]

LEMMA ClockLeft ==
    ASSUME RenOther
    PROVE  UNCHANGED <<clock, ptsNotified>> \/ Notifies
<1> USE DEF renVars
<1>1. CASE DoRender \/ SupplyBuffers \/ WaitEnds \/ RequestPicture \/ LookAgain \/ WakeCheck
               \/ WakePost \/ Reopen
  BY <1>1 DEF DoRender, SupplyBuffers, WaitEnds, RequestPicture, LookAgain, WakeCheck, WakePost,
              Reopen, RenSteps
<1>2. CASE ShowPicture \/ ShowFails
  BY <1>2 DEF ShowPicture, ShowFails, Showing, NotifyFirstPts, Notifies
<1>3. CASE ContinueWork("ren")
  BY <1>3 DEF ContinueWork, streamVars
<1> QED BY <1>1, <1>2, <1>3 DEF RenOther

-----------------------------------------------------------------------------
(* The row of the player's place in its list.                              *)

\* The handlers of the renderer's commands.
LEMMA RenRow ==
    ASSUME PlayInv, VideoType, RenCommand, NEW s, NEW k, Doing(s, k), Row(s, k, Turn(k))
    PROVE  PlayInv' /\ Doing(s, k)' /\ Row(s, k, Turn(k))'
<1>1. /\ UNCHANGED <<playerVars, player>> /\ status'["dec"] = status["dec"]
      /\ player.status \in StatusIn(s, k)
  BY RenCommands, RenLeaves DEF PlayInv, VideoType, Doing
<1>2. status \in [Comp -> Status] /\ "ren" \in Comp /\ "dec" \in Comp
  BY DEF VideoType, ThreadsType, Comp
<1>3. CASE RenStart
  <2>1. Replied("ren", "start", "check") /\ Handle("ren", "start")
    BY <1>3, RenCommands DEF RenStart
  <2>2. /\ (s = "start" /\ k = 2) \/ (s = "seek" /\ k = 6)
        /\ Turn(k) = k /\ Turn(k)' = k + 1 /\ PlayInv' /\ Doing(s, k)'
    BY <1>1, <1>2, <2>1, TakenTurn, CommandTurn, Turns DEF Command
  <2>3. /\ status'["ren"] = "started" /\ clock' = clock
        /\ ptsNotified' = IF status["ren"] = "stopped" THEN FALSE ELSE ptsNotified
    BY <1>2, <1>3 DEF RenStart, SetStatus
  <2>7. CASE s = "start"
    <3>1. s = "start" /\ k = 2 /\ Turn(k) = 2 /\ Turn(k)' = 3
      BY <2>2, <2>7
    <3>2. clock.base \in BOOLEAN /\ clock.running \in BOOLEAN /\ ptsNotified \in BOOLEAN
      BY DEF VideoType, MediaType, FlagsType
    <3>3. /\ status["ren"] = player.status /\ clock.running = clock.base
          /\ player.status = "stopped" => clock.base = FALSE
          /\ player.status # "stopped" => clock.base = ptsNotified
      BY <3>1, <3>2 DEF Row, RenAt, ClockIn
    <3>4. clock'.base = ptsNotified' /\ clock'.running = ptsNotified'
      BY <2>3, <3>3
    <3>5. ClockIn(s, k, Turn(k))'
      BY <3>1, <3>4 DEF ClockIn
    <3> QED BY <1>1, <2>2, <2>3, <3>1, <3>5 DEF Row, RenAt, DecAt, Straight, StatusIn
  <2>8. CASE s = "seek"
    <3>1. s = "seek" /\ k = 6 /\ Turn(k) = 6 /\ Turn(k)' = 7
      BY <2>2, <2>8
    <3> QED BY <1>1, <2>2, <2>3, <3>1 DEF Row, RenAt, DecAt, ClockIn, Straight, StatusIn
  <2> QED BY <2>2, <2>7, <2>8
<1>4. CASE RenStop
  <2>1. Replied("ren", "stop", "get") /\ Handle("ren", "stop")
    BY <1>4, RenCommands DEF RenStop
  <2>2. /\ s = "stop" /\ k = 1
        /\ Turn(k) = k /\ Turn(k)' = k + 1 /\ PlayInv' /\ Doing(s, k)'
    BY <1>1, <1>2, <2>1, TakenTurn, CommandTurn, Turns DEF Command
  <2>3. status'["ren"] = "stopped" /\ clock' = clock /\ ptsNotified' = ptsNotified
    BY <1>2, <1>4 DEF RenStop, SetStatus
  <2> QED BY <1>1, <2>2, <2>3 DEF Row, RenAt, DecAt, ClockIn, Straight, StatusIn
<1>5. CASE RenPause
  <2>1. (Replied("ren", "pause", "get") \/ Replied("ren", "pause", "check")) /\ Handle("ren", "pause")
    BY <1>5, RenCommands DEF RenPause
  <2>2. /\ s \in {"pause", "seek"} /\ k = 1
        /\ Turn(k) = k /\ Turn(k)' = k + 1 /\ PlayInv' /\ Doing(s, k)'
    BY <1>1, <1>2, <2>1, TakenTurn, CommandTurn, Turns DEF Command
  <2>3. status["ren"] = "started"
    BY <2>2 DEF Row, RenAt
  <2>4. status'["ren"] = "paused" /\ clock' = clock /\ ptsNotified' = ptsNotified
    BY <1>2, <1>5, <2>3 DEF RenPause, SetStatus, Working, renVars
  <2>7. CASE s = "pause"
    <3>1. s = "pause" /\ k = 1 /\ Turn(k) = 1 /\ Turn(k)' = 2
      BY <2>2, <2>7
    <3> QED BY <1>1, <2>2, <2>4, <3>1 DEF Row, RenAt, DecAt, ClockIn, Straight, StatusIn
  <2>8. CASE s = "seek"
    <3>1. s = "seek" /\ k = 1 /\ Turn(k) = 1 /\ Turn(k)' = 2
      BY <2>2, <2>8
    <3> QED BY <1>1, <2>2, <2>4, <3>1 DEF Row, RenAt, DecAt, ClockIn, Straight, StatusIn
  <2> QED BY <2>2, <2>7, <2>8
<1>6. CASE RenReset
  <2>1. (Replied("ren", "reset", "get") \/ Replied("ren", "reset", "check")) /\ Handle("ren", "reset")
    BY <1>6, RenCommands DEF RenReset
  <2>2. /\ (s = "seek" /\ k = 4) \/ (s = "rewind" /\ k = 2)
        /\ Turn(k) = k /\ Turn(k)' = k + 1 /\ PlayInv' /\ Doing(s, k)'
    BY <1>1, <1>2, <2>1, TakenTurn, CommandTurn, Turns DEF Command
  <2>3. status' = status /\ clock' = clock /\ ptsNotified' = FALSE
    BY <1>6 DEF RenReset
  <2>7. CASE s = "rewind"
    <3>1. s = "rewind" /\ k = 2 /\ Turn(k) = 2 /\ Turn(k)' = 3
      BY <2>2, <2>7
    <3> QED BY <1>1, <2>2, <2>3, <3>1 DEF Row, RenAt, DecAt, ClockIn, Straight, StatusIn
  <2>8. CASE s = "seek"
    <3>1. s = "seek" /\ k = 4 /\ Turn(k) = 4 /\ Turn(k)' = 5
      BY <2>2, <2>8
    <3> QED BY <1>1, <2>2, <2>3, <3>1 DEF Row, RenAt, DecAt, ClockIn, Straight, StatusIn
  <2> QED BY <2>2, <2>7, <2>8
<1>7. CASE RenQuit
  <2>1. Replied("ren", "quit", "gone") /\ Handle("ren", "quit")
    BY <1>7, RenCommands DEF RenQuit
  <2>2. /\ s = "clear" /\ k = 1
        /\ Turn(k) = k /\ Turn(k)' = k + 1 /\ PlayInv' /\ Doing(s, k)'
    BY <1>1, <1>2, <2>1, TakenTurn, CommandTurn, Turns DEF Command
  <2>3. status'["ren"] = "stopped" /\ clock' = clock /\ ptsNotified' = ptsNotified
    BY <1>2, <1>7 DEF RenQuit, SetStatus
  <2> QED BY <1>1, <2>2, <2>3 DEF Row, RenAt, DecAt, ClockIn, Straight, StatusIn
<1> QED BY <1>3, <1>4, <1>5, <1>6, <1>7 DEF RenCommand

\* A command that the decoder takes finds it as the list says.
LEMMA DecAsked ==
    ASSUME PlayInv, NEW m \in Command, Handle("dec", m), NEW s, NEW k, Doing(s, k), Row(s, k, Turn(k))
    PROVE  /\ m = "start" => status["dec"] \in {"stopped", "paused"}
           /\ m = "stop" => status["dec"] \in {"started", "paused"}
           /\ m = "pause" => status["dec"] = "started"
<1>1. /\ s \in PlanName /\ k \in 1 .. Len(Plan(s)) /\ Plan(s)[k] = Send("dec", m) /\ Turn(k) = k
      /\ player.status \in StatusIn(s, k)
  BY TakenTurn DEF Comp, Doing
<1>2. status["dec"] = DecAt(s, k, player.status)
  BY <1>1 DEF Row
<1> QED BY <1>1, <1>2, Turns DEF DecAt, StatusIn

\* The handlers of the decoder's commands.
LEMMA DecRow ==
    ASSUME PlayInv, VideoType, DecCommand, NEW s, NEW k, Doing(s, k), Row(s, k, Turn(k))
    PROVE  PlayInv' /\ Doing(s, k)' /\ Row(s, k, Turn(k))'
<1>1. /\ UNCHANGED <<playerVars, player, clock, ptsNotified>> /\ status'["ren"] = status["ren"]
      /\ player.status \in StatusIn(s, k)
  BY DecCommands, DecLeaves DEF PlayInv, VideoType, Doing
<1>2. status \in [Comp -> Status] /\ "ren" \in Comp /\ "dec" \in Comp /\ LoopType /\ ThreadsType
  BY DEF VideoType, ThreadsType, Comp, PlayInv
<1>3. CASE DecStart
  <2>1. (Replied("dec", "start", "get") \/ Owes("dec", "start")) /\ Handle("dec", "start")
    BY <1>2, <1>3, DecCommands DEF DecStart
  <2>2. /\ (s = "start" /\ k = 1) \/ (s = "seek" /\ k = 7)
        /\ Turn(k) = k /\ Turn(k)' = k + 1 /\ PlayInv' /\ Doing(s, k)'
    BY <1>1, <1>2, <2>1, TakenTurn, CommandTurn, Turns DEF Command
  <2>3. status'["dec"] = "started"
    BY <1>2, <1>3 DEF DecStart, SetStatus, Status
  <2>7. CASE s = "start"
    <3>1. s = "start" /\ k = 1 /\ Turn(k) = 1 /\ Turn(k)' = 2
      BY <2>2, <2>7
    <3> QED BY <1>1, <2>2, <2>3, <3>1 DEF Row, RenAt, DecAt, ClockIn, Straight, StatusIn
  <2>8. CASE s = "seek"
    <3>1. s = "seek" /\ k = 7 /\ Turn(k) = 7 /\ Turn(k)' = 8
      BY <2>2, <2>8
    <3> QED BY <1>1, <2>2, <2>3, <3>1 DEF Row, RenAt, DecAt, ClockIn, Straight, StatusIn
  <2> QED BY <2>2, <2>7, <2>8
<1>4. CASE DecStop
  <2>1. status["dec"] # "stopped" /\ Handle("dec", "stop")
    BY <1>4, DecAsked DEF DecStop, Command
  <2>2. Replied("dec", "stop", "get")
    BY <1>2, <1>4, <2>1, DecCommands
  <2>3. /\ s = "stop" /\ k = 2
        /\ Turn(k) = k /\ Turn(k)' = k + 1 /\ PlayInv' /\ Doing(s, k)'
    BY <1>1, <1>2, <2>1, <2>2, TakenTurn, CommandTurn, Turns DEF Command
  <2>4. status'["dec"] = "stopped"
    BY <1>2, <1>4 DEF DecStop, SetStatus
  <2> QED BY <1>1, <2>3, <2>4 DEF Row, RenAt, DecAt, ClockIn, Straight, StatusIn
<1>5. CASE DecPause
  <2>1. (Replied("dec", "pause", "get") \/ Owes("dec", "pause")) /\ Handle("dec", "pause")
    BY <1>2, <1>5, DecCommands DEF DecPause
  <2>2. /\ s \in {"pause", "seek"} /\ k = 2
        /\ Turn(k) = k /\ Turn(k)' = k + 1 /\ PlayInv' /\ Doing(s, k)'
    BY <1>1, <1>2, <2>1, TakenTurn, CommandTurn, Turns DEF Command
  <2>3. status["dec"] = "started"
    BY <2>1, DecAsked DEF Command
  <2>4. status'["dec"] = "paused"
    BY <1>2, <1>5, <2>3 DEF DecPause, SetStatus, Working
  <2>7. CASE s = "pause"
    <3>1. s = "pause" /\ k = 2 /\ Turn(k) = 2 /\ Turn(k)' = 3
      BY <2>2, <2>7
    <3> QED BY <1>1, <2>2, <2>4, <3>1 DEF Row, RenAt, DecAt, ClockIn, Straight, StatusIn
  <2>8. CASE s = "seek"
    <3>1. s = "seek" /\ k = 2 /\ Turn(k) = 2 /\ Turn(k)' = 3
      BY <2>2, <2>8
    <3> QED BY <1>1, <2>2, <2>4, <3>1 DEF Row, RenAt, DecAt, ClockIn, Straight, StatusIn
  <2> QED BY <2>2, <2>7, <2>8
<1>6. CASE DecReset
  <2>1. (Replied("dec", "reset", "get") \/ Replied("dec", "reset", "check")) /\ Handle("dec", "reset")
    BY <1>2, <1>6, DecCommands DEF DecReset
  <2>2. /\ (s = "seek" /\ k = 3) \/ (s = "rewind" /\ k = 1)
        /\ Turn(k) = k /\ Turn(k)' = k + 1 /\ PlayInv' /\ Doing(s, k)'
    BY <1>1, <1>2, <2>1, TakenTurn, CommandTurn, Turns DEF Command
  <2>3. status' = status
    BY <1>6 DEF DecReset
  <2>7. CASE s = "rewind"
    <3>1. s = "rewind" /\ k = 1 /\ Turn(k) = 1 /\ Turn(k)' = 2
      BY <2>2, <2>7
    <3> QED BY <1>1, <2>2, <2>3, <3>1 DEF Row, RenAt, DecAt, ClockIn, Straight, StatusIn
  <2>8. CASE s = "seek"
    <3>1. s = "seek" /\ k = 3 /\ Turn(k) = 3 /\ Turn(k)' = 4
      BY <2>2, <2>8
    <3> QED BY <1>1, <2>2, <2>3, <3>1 DEF Row, RenAt, DecAt, ClockIn, Straight, StatusIn
  <2> QED BY <2>2, <2>7, <2>8
<1>7. CASE DecQuit
  <2>1. Replied("dec", "quit", "gone") /\ Handle("dec", "quit")
    BY <1>2, <1>7, DecCommands DEF DecQuit
  <2>2. /\ s = "clear" /\ k = 2
        /\ Turn(k) = k /\ Turn(k)' = k + 1 /\ PlayInv' /\ Doing(s, k)'
    BY <1>1, <1>2, <2>1, TakenTurn, CommandTurn, Turns DEF Command
  <2>3. status'["dec"] = "stopped"
    BY <1>2, <1>7 DEF DecQuit, SetStatus
  <2> QED BY <1>1, <2>2, <2>3 DEF Row, RenAt, DecAt, ClockIn, Straight, StatusIn
<1> QED BY <1>3, <1>4, <1>5, <1>6, <1>7 DEF DecCommand

\* Their other steps: the clock is started in a renderer that has been started.
LEMMA OtherRow ==
    ASSUME PlayInv, VideoType, WorkInv, RenOther \/ DecOther, NEW s, NEW k, Doing(s, k),
           Row(s, k, Turn(k))
    PROVE  PlayInv' /\ Doing(s, k)' /\ Row(s, k, Turn(k))'
<1>1. /\ OtherStep("ren") \/ OtherStep("dec")
      /\ UNCHANGED <<playerVars, player, status>>
  BY RenOthers, DecOthers DEF playerVars
<1>2. PlayInv' /\ Doing(s, k)' /\ Turn(k)' = Turn(k)
  BY <1>1, OtherTurn DEF Comp
<1>3. UNCHANGED <<clock, ptsNotified>> \/ Notifies
  BY ClockLeft, DecLeaves DEF PlayInv, VideoType
<1>4. CASE UNCHANGED <<clock, ptsNotified>>
  BY <1>1, <1>2, <1>4 DEF Row, ClockIn, Straight
<1>5. CASE Notifies
  <2>1. status["ren"] = "started"
    BY <1>5 DEF Notifies, WorkInv, Rendering, Working
  <2>2. /\ s \in PlanName /\ k \in 1 .. (IF s = "seek" THEN 8 ELSE 4)
        /\ Turn(k) \in {k, k + 1} /\ player.status \in StatusIn(s, k)
    <3> DEFINE n == Len(Plan(s))
    <3>1. s \in PlanName /\ n = (IF s = "seek" THEN 7 ELSE 3)
      BY NextStep
    <3>2. k \in 1 .. n + 1 /\ player.status \in StatusIn(s, k)
      BY DEF Doing
    <3> HIDE DEF n
    <3>3. k \in 1 .. (IF s = "seek" THEN 8 ELSE 4)
      BY <3>1, <3>2
    <3>4. Turn(k) \in {k, k + 1}
      BY DEF Turn
    <3> QED BY <3>1, <3>2, <3>3, <3>4
  <2>3. RenAt(s, Turn(k), player.status) = "started"
    BY <2>1 DEF Row
  <2>4. /\ s \in {"start", "stop", "pause", "seek"}
        /\ s = "start" => Turn(k) > 2
        /\ s \in {"stop", "pause"} => k = 1
        /\ s = "seek" => k > 5 \/ Turn(k) = 1
    <3> DEFINE e == Turn(k)
    <3>1. e \in {k, k + 1} /\ RenAt(s, e, player.status) = "started"
      BY <2>2, <2>3
    <3> HIDE DEF e
    <3>2. e \in Nat /\ k \in Nat /\ k > 0
      BY <2>2, <3>1
    <3>3. s = "start" => e > 2
      BY <2>2, <3>1, <3>2 DEF RenAt, StatusIn
    <3>4. s \in {"stop", "pause"} => k = 1
      BY <2>2, <3>1, <3>2 DEF RenAt, StatusIn
    <3>5. s = "seek" => k > 5 \/ e = 1
      BY <2>2, <3>1, <3>2 DEF RenAt, StatusIn
    <3>6. s \in {"start", "stop", "pause", "seek"}
      BY <2>2, <3>1 DEF RenAt, PlanName
    <3> QED BY <3>3, <3>4, <3>5, <3>6 DEF e
  <2>5. ptsNotified' = TRUE /\ clock'.base = TRUE /\ clock'.running = TRUE
    BY <1>5 DEF Notifies
  <2>6. ClockIn(s, k, Turn(k))'
    <3> DEFINE e == Turn(k)
    <3>1. e' = e
      BY <1>2
    <3>3. /\ s \in {"start", "stop", "pause", "seek"}
          /\ s = "start" => e > 2
          /\ s \in {"stop", "pause"} => k = 1
          /\ s = "seek" => (k > 5 \/ e = 1)
      BY <2>4
    <3> HIDE DEF e
    <3>2. ClockIn(s, k, e)'
      <4>1. CASE s = "start" /\ e > 2
        BY <2>5, <3>1, <4>1 DEF ClockIn
      <4>2. CASE s \in {"stop", "pause"} /\ k = 1
        <5>1. ~(k > 3)
          BY <4>2
        <5> QED BY <2>5, <4>2, <5>1 DEF ClockIn
      <4>3. CASE s = "seek" /\ k > 5
        BY <2>5, <4>3 DEF ClockIn
      <4>4. CASE s = "seek" /\ e = 1
        <5>1. ~(e' > 4)
          BY <3>1, <4>4
        <5> QED BY <2>5, <4>4, <5>1 DEF ClockIn
      <4> QED BY <3>3, <4>1, <4>2, <4>3, <4>4
    <3> QED BY <3>2 DEF e
  <2> QED BY <1>1, <1>2, <2>6 DEF Row, Straight
<1> QED BY <1>3, <1>4, <1>5

Calling == Start \/ Stop \/ Pause \/ Reset \/ Clear

\* Between commands the components and the clock are in the player's state.
LEMMA AgreedAtRest ==
    ASSUME PlayInv, VideoType, InRow
    PROVE  /\ StatusAgrees /\ ClockAgrees
           /\ Idle /\ player.straight => player.status # "paused"
<1> SUFFICES ASSUME Idle
             PROVE  /\ StatusAgrees /\ ClockAgrees
                    /\ player.straight => player.status # "paused"
  BY DEF StatusAgrees, ClockAgrees
<1>1. PICK s, k : Doing(s, k) /\ Row(s, k, Turn(k))
  BY DEF InRow
<1>2. /\ Turn(k) = k /\ s \in PlanName /\ k = (IF s = "seek" THEN 8 ELSE 4)
      /\ player.status \in StatusIn(s, k)
      /\ RenAt(s, k, player.status) = IF player.status = "cleared" THEN "stopped" ELSE player.status
      /\ DecAt(s, k, player.status) = RenAt(s, k, player.status)
  BY <1>1, AtRestHandled, AtTheEnd DEF Doing
<1>3. StatusAgrees
  BY <1>1, <1>2 DEF StatusAgrees, Row, Comp
<1>4. clock.base \in BOOLEAN /\ clock.running \in BOOLEAN /\ ptsNotified \in BOOLEAN
  BY DEF VideoType, MediaType, FlagsType
<1>5. ClockIn(s, k, k)
  BY <1>1, <1>2 DEF Row
<1>6. clock.base = ptsNotified /\ clock.running = (ptsNotified /\ player.status = "started")
  <2>1. CASE s \in {"start", "stop", "pause"}
    <3>1. k = 4
      BY <1>2, <2>1
    <3>2. k > 3 /\ k > 2
      BY <3>1
    <3>3. player.status = (IF s = "start" THEN "started" ELSE IF s = "stop" THEN "stopped" ELSE "paused")
      BY <1>2, <2>1, <3>2 DEF StatusIn
    <3> QED BY <1>4, <1>5, <2>1, <3>2, <3>3 DEF ClockIn
  <2>2. CASE s \in {"rewind", "clear"}
    <3>1. k = 4
      BY <1>2, <2>2
    <3>2. k > 3
      BY <3>1
    <3>3. player.status = (IF s = "rewind" THEN "paused" ELSE "cleared")
      BY <1>2, <2>2, <3>2 DEF StatusIn
    <3> QED BY <1>4, <1>5, <2>2, <3>2, <3>3 DEF ClockIn
  <2>3. CASE s = "seek"
    <3>1. k = 8
      BY <1>2, <2>3
    <3>2. k > 5
      BY <3>1
    <3>3. player.status = "started"
      BY <1>2, <2>3 DEF StatusIn
    <3> QED BY <1>4, <1>5, <2>3, <3>2, <3>3 DEF ClockIn
  <2> QED BY <1>2, <2>1, <2>2, <2>3 DEF PlanName
<1>7. player.straight => player.status # "paused"
  BY <1>1 DEF Row, Straight
<1> QED BY <1>3, <1>6, <1>7 DEF ClockAgrees

\* A call begins its list, and a start sets the timer.
BeginsList(cmd, s) ==
    /\ Call(cmd, Plan(s)) /\ player.status \in StatusIn(s, 1)
    /\ IF s = "start" THEN Start ELSE UNCHANGED clock
    /\ UNCHANGED streamVars

\* It begins the first row of the list.
LEMMA CallRow ==
    ASSUME PlayInv, VideoType, InRow, Calling
    PROVE  PlayInv' /\ InRow' /\ Idle /\ UNCHANGED <<threads, status, streamVars>>
<1>1. \/ BeginsList("start", "start") \/ BeginsList("stop", "stop") \/ BeginsList("pause", "pause")
      \/ BeginsList("reset", "seek") \/ BeginsList("reset", "rewind") \/ BeginsList("clear", "clear")
  <2>1. Start => BeginsList("start", "start")
    BY Calls DEF Start, BeginsList
  <2>2. Stop => BeginsList("stop", "stop")
    BY Calls DEF Stop, BeginsList
  <2>3. Pause => BeginsList("pause", "pause")
    BY Calls DEF Pause, BeginsList
  <2>4. Reset => BeginsList("reset", "seek") \/ BeginsList("reset", "rewind")
    BY Calls DEF Reset, BeginsList
  <2>5. Clear => BeginsList("clear", "clear")
    BY Calls DEF Clear, BeginsList
  <2> QED BY <2>1, <2>2, <2>3, <2>4, <2>5 DEF Calling
<1>2. PICK cmd \in PlanName \cup {"reset"}, s \in PlanName :
          BeginsList(cmd, s) /\ (s \in {"start", "stop"} <=> cmd \in {"start", "stop"})
  BY <1>1 DEF PlanName
<1>3. /\ PlayInv' /\ Doing(s, 1)' /\ Idle /\ Turn(1)' = 1
      /\ player'.status = player.status
      /\ player'.straight = (player.straight /\ cmd \in {"start", "stop"})
      /\ UNCHANGED <<threads, status>>
  BY <1>2, CallStep DEF Turn, BeginsList
<1>4. UNCHANGED <<status, ptsNotified>>
  BY <1>2, <1>3 DEF streamVars, renVars, BeginsList
<1>5. /\ status["ren"] = IF player.status = "cleared" THEN "stopped" ELSE player.status
      /\ status["dec"] = IF player.status = "cleared" THEN "stopped" ELSE player.status
      /\ clock.base = ptsNotified
      /\ clock.running = (ptsNotified /\ player.status = "started")
      /\ player.straight => player.status # "paused"
  BY <1>3, AgreedAtRest DEF StatusAgrees, ClockAgrees, Comp
<1>6. /\ status'["ren"] = RenAt(s, 1, player'.status)
      /\ status'["dec"] = DecAt(s, 1, player'.status)
  BY <1>2, <1>3, <1>4, <1>5 DEF RenAt, DecAt, StatusIn, PlanName, BeginsList
<1>7. ClockIn(s, 1, 1)'
  <2>4. ~(1 > 2) /\ ~(1 > 3) /\ ~(1 > 4) /\ ~(1 > 5)
    OBVIOUS
  <2>1. CASE s = "start"
    <3>1. player.status \in {"stopped", "paused"}
      BY <1>2, <2>1 DEF StatusIn, BeginsList
    <3>2. clock' = IF player.status = "paused" THEN [clock EXCEPT !.running = clock.base]
                   ELSE [base |-> FALSE, running |-> FALSE]
      BY <1>2, <2>1 DEF Start, BeginsList
    <3>3. clock \in [base : BOOLEAN, running : BOOLEAN]
      BY DEF VideoType, MediaType
    <3>4. CASE player.status = "paused"
      <4>1. clock'.running = clock.base /\ clock'.base = clock.base
        BY <3>2, <3>3, <3>4
      <4> QED BY <1>3, <1>4, <1>5, <2>1, <3>4, <4>1 DEF ClockIn
    <3>5. CASE player.status = "stopped"
      <4>1. clock'.running = FALSE /\ clock'.base = FALSE
        BY <3>2, <3>5
      <4>2. player'.status = "stopped" /\ clock'.running = clock'.base /\ ~clock'.base
        BY <1>3, <3>5, <4>1
      <4> QED BY <2>1, <2>4, <4>2 DEF ClockIn
    <3> QED BY <3>1, <3>4, <3>5
  <2>2. CASE s \in {"stop", "pause", "seek"}
    <3>1. UNCHANGED clock
      BY <1>2, <2>2 DEF BeginsList
    <3> QED BY <1>4, <1>5, <2>2, <2>4, <3>1 DEF ClockIn
  <2>3. CASE s \in {"rewind", "clear"}
    <3>1. player.status # "started"
      BY <1>2, <2>3 DEF StatusIn, BeginsList
    <3>2. UNCHANGED clock
      BY <1>2, <2>3 DEF BeginsList
    <3>3. clock'.base = ptsNotified' /\ clock'.running = FALSE
      BY <1>4, <1>5, <3>1, <3>2
    <3> QED BY <2>3, <2>4, <3>3 DEF ClockIn
  <2> QED BY <2>1, <2>2, <2>3 DEF PlanName
<1>8. Straight(s)'
  BY <1>2, <1>3, <1>5 DEF Straight
<1>9. Row(s, 1, Turn(1))'
  BY <1>3, <1>6, <1>7, <1>8 DEF Row
<1> QED BY <1>2, <1>3, <1>9 DEF InRow, BeginsList

\* The rows of a list, before and after a reply is taken.
LEMMA WaitsRow ==
    ASSUME PlayInv, VideoType, InRow, PlayerWaits
    PROVE  PlayInv' /\ InRow'
<1>1. PICK s, k : Doing(s, k) /\ Row(s, k, Turn(k))
  BY DEF InRow
<1>2. UNCHANGED <<clock, ptsNotified>>
  BY DEF PlayerWaits, streamVars, renVars
<1>3. CASE PlayerPosts
  <2>1. PlayInv' /\ Doing(s, k)' /\ Turn(k)' = Turn(k) /\ UNCHANGED <<player, status>>
    BY <1>1, <1>3, PostStep DEF Turn
  <2>2. Row(s, k, Turn(k))'
    BY <1>1, <1>2, <2>1 DEF Row, ClockIn, Straight
  <2> QED BY <2>1, <2>2 DEF InRow
<1>4. CASE PlayerResumes
  <2>1. /\ PlayInv' /\ Doing(s, k + 1)' /\ Turn(k) = k + 1 /\ Turn(k + 1)' = k + 1
        /\ player'.status = player.status /\ player'.straight = player.straight
        /\ UNCHANGED status /\ k \in 1 .. Len(Plan(s)) /\ Plan(s)[k] = Head(player.todo)
        /\ Handled /\ s \in PlanName
    BY <1>1, <1>4, ResumeStep DEF Turn, Doing
  <2>2. Plan(s)[k].to \in Comp
    BY <2>1, HeadStep DEF PlayInv, Handled, PlayerType
  <2>3. k \in Nat /\ (IF s = "seek" THEN k # 5 ELSE k # 3)
    <3>1. k \in Nat /\ (k = 3 => s = "seek") /\ (s = "seek" => k # 5)
      BY <2>1, <2>2, PlanSteps DEF Own, Comp, PlanName
    <3> QED BY <3>1
  <2>4. (k > 5 <=> k + 1 > 5) \/ s # "seek"
    BY <2>3
  <2>5. (k > 3 <=> k + 1 > 3) \/ s = "seek"
    BY <2>3
  <2>6. ClockIn(s, k, k + 1)
    BY <1>1, <2>1 DEF Row
  <2>7. ClockIn(s, k + 1, k + 1)
    BY <2>1, <2>4, <2>5, <2>6 DEF ClockIn, PlanName
  <2>8. ClockIn(s, k + 1, k + 1)'
    BY <1>2, <2>1, <2>7 DEF ClockIn
  <2>9. Row(s, k + 1, k + 1)'
    BY <1>1, <2>1, <2>8 DEF Row, Straight
  <2> QED BY <2>1, <2>9 DEF InRow
<1> QED BY <1>3, <1>4 DEF PlayerWaits

\* What the player does itself.
LEMMA ActsRow ==
    ASSUME PlayInv, VideoType, InRow, PlayerActs
    PROVE  PlayInv' /\ InRow' /\ UNCHANGED <<threads, status, streamVars>>
<1>1. PICK s, k : Doing(s, k) /\ Row(s, k, Turn(k))
  BY DEF InRow
<1>2. PICK what \in OwnSteps :
          /\ PlayerDoes(what)
          /\ clock' = [base |-> clock.base /\ what # "rewound",
                       running |-> clock.running /\ what = "started"]
          /\ UNCHANGED streamVars
  BY DEF PlayerActs
<1>3. UNCHANGED ptsNotified
  BY <1>2 DEF streamVars, renVars
<1>4. /\ PlayInv' /\ Doing(s, k + 1)' /\ Turn(k) = k /\ Turn(k + 1)' = k + 1
      /\ player'.status = (IF what = "rewound" THEN player.status ELSE what)
      /\ player'.straight = (player.straight /\ what = "started")
      /\ UNCHANGED <<threads, status>>
      /\ s \in PlanName /\ k \in 1 .. Len(Plan(s)) /\ Plan(s)[k] = Own(what)
      /\ player.status \in StatusIn(s, k)
  BY <1>1, <1>2, DoesStep DEF Turn, Doing
<1>5. \/ s = "start" /\ k = 3 /\ what = "started"
      \/ s = "stop" /\ k = 3 /\ what = "stopped"
      \/ s = "pause" /\ k = 3 /\ what = "paused"
      \/ s = "seek" /\ k = 5 /\ what = "rewound"
      \/ s = "rewind" /\ k = 3 /\ what = "rewound"
      \/ s = "clear" /\ k = 3 /\ what = "cleared"
  BY <1>4, Turns
<1>6. clock.base \in BOOLEAN /\ clock.running \in BOOLEAN /\ ptsNotified \in BOOLEAN
  BY DEF VideoType, MediaType, FlagsType
<1>7. /\ clock'.base = (clock.base /\ what # "rewound")
      /\ clock'.running = (clock.running /\ what = "started")
  BY <1>2
<1>8. /\ status["ren"] = RenAt(s, k, player.status) /\ status["dec"] = DecAt(s, k, player.status)
      /\ ClockIn(s, k, k) /\ Straight(s)
  BY <1>1, <1>4 DEF Row
<1>9. Row(s, k + 1, k + 1)'
  <2>1. status'["ren"] = RenAt(s, k + 1, player'.status)
    BY <1>4, <1>5, <1>8 DEF RenAt, StatusIn, threads
  <2>2. status'["dec"] = DecAt(s, k + 1, player'.status)
    BY <1>4, <1>5, <1>8 DEF DecAt, StatusIn
  <2>3. Straight(s)'
    BY <1>4, <1>5, <1>8 DEF Straight
  <2>4. ClockIn(s, k + 1, k + 1)'
    <3>1. CASE s = "start" /\ k = 3 /\ what = "started"
      BY <1>3, <1>6, <1>7, <1>8, <3>1 DEF ClockIn
    <3>2. CASE s = "stop" /\ k = 3 /\ what = "stopped"
      BY <1>3, <1>6, <1>7, <1>8, <3>2 DEF ClockIn
    <3>3. CASE s = "pause" /\ k = 3 /\ what = "paused"
      BY <1>3, <1>6, <1>7, <1>8, <3>3 DEF ClockIn
    <3>4. CASE s = "seek" /\ k = 5 /\ what = "rewound"
      BY <1>3, <1>6, <1>7, <1>8, <3>4 DEF ClockIn
    <3>5. CASE s = "rewind" /\ k = 3 /\ what = "rewound"
      BY <1>3, <1>6, <1>7, <1>8, <3>5 DEF ClockIn
    <3>6. CASE s = "clear" /\ k = 3 /\ what = "cleared"
      BY <1>3, <1>6, <1>7, <1>8, <3>6 DEF ClockIn
    <3> QED BY <1>5, <3>1, <3>2, <3>3, <3>4, <3>5, <3>6
  <2> QED BY <2>1, <2>2, <2>3, <2>4 DEF Row
<1> QED BY <1>2, <1>4, <1>9 DEF InRow

\* Every step.
LEMMA RowStep ==
    ASSUME PlayInv, VideoType, InRow, WorkInv, [Next]_vars
    PROVE  PlayInv' /\ InRow'
<1>1. PICK s, k : Doing(s, k) /\ Row(s, k, Turn(k))
  BY DEF InRow
<1>2. CASE DecCommand \/ RenCommand \/ DecOther \/ RenOther
  <2>1. PlayInv' /\ Doing(s, k)' /\ Row(s, k, Turn(k))'
    BY <1>1, <1>2, DecRow, RenRow, OtherRow
  <2> QED BY <2>1 DEF InRow
<1>3. CASE PlayerStep
  BY <1>3, WaitsRow, ActsRow DEF PlayerStep
<1>4. CASE UNCHANGED vars
  <2>1. PlayInv' /\ Doing(s, k)' /\ Turn(k)' = Turn(k)
    BY <1>1, <1>4 DEF vars, playerVars, threads, PlayInv, PlayerType, LoopType, ExchangeWith,
       AwaitedOf, Posting, Doing, Turn, Handled
  <2>2. Row(s, k, Turn(k))'
    BY <1>1, <1>4, <2>1 DEF vars, playerVars, streamVars, renVars, Row, ClockIn, Straight
  <2> QED BY <2>1, <2>2 DEF InRow
<1> QED BY <1>2, <1>3, <1>4, CallRow
        DEF Next, Calling, DecThread, RenThread, DecCommand, RenCommand, DecOther, RenOther, Cleared

-----------------------------------------------------------------------------
(* Types.                                                                  *)

LEMMA PlaceTyped ==
    ASSUME ThreadsType, DecThread \/ RenThread
    PROVE  pc' \in [Comp -> Phase]
<1>1. ASSUME NEW c \in Comp, NEW at \in Phase, GoTo(c, at) \/ UNCHANGED pc
      PROVE  pc' \in [Comp -> Phase]
  BY <1>1 DEF ThreadsType, GoTo
<1> USE DEF JustReply, ReplyThenContinue, ContinueThenReply, HandlerEnds
<1>2. /\ "dec" \in Comp /\ "ren" \in Comp
      /\ {"get", "check", "post", "gone", "decode", "flags", "request", "asked", "look", "reopen",
          "wakeCheck", "wakePost", "show"} \subseteq Phase
  BY DEF Comp, Phase
<1>3. CASE DecStart
  <2>1. GoTo("dec", "get") \/ GoTo("dec", "check")
    BY <1>3 DEF DecStart, ThreadsType, Status, Comp
  <2> QED BY <1>1, <1>2, <2>1
<1>4. CASE DecStop \/ DecPause \/ DecReset \/ DecQuit \/ DoDecode
  <2>1. GoTo("dec", "get") \/ GoTo("dec", "check") \/ GoTo("dec", "gone") \/ GoTo("dec", "decode")
            \/ UNCHANGED pc
    BY <1>4 DEF DecStop, DecPause, DecReset, DecQuit, DoDecode
  <2> QED BY <1>1, <1>2, <2>1
<1>5. CASE Decode
  <2>1. GoTo("dec", "get") \/ GoTo("dec", "check")
    BY <1>5 DEF Decode, DecodeNothing, DecodeFrame, DecodeResolution, DecodeCrash
  <2> QED BY <1>1, <1>2, <2>1
<1>6. ASSUME NEW c \in Comp, ContinueWork(c) PROVE pc' \in [Comp -> Phase]
  <2>1. GoTo(c, "get") \/ GoTo(c, "post")
    BY <1>6 DEF ContinueWork, Continues, Looks, Posts
  <2> QED BY <1>1, <1>2, <2>1
<1>7. CASE RenStart \/ RenStop \/ RenPause \/ RenReset \/ RenQuit
  <2>1. GoTo("ren", "get") \/ GoTo("ren", "check") \/ GoTo("ren", "gone")
    BY <1>7 DEF RenStart, RenStop, RenPause, RenReset, RenQuit
  <2> QED BY <1>1, <1>2, <2>1
<1>8. CASE DoRender \/ SupplyBuffers \/ WaitEnds \/ RequestPicture \/ LookAgain
  <2>1. GoTo("ren", "get") \/ GoTo("ren", "flags") \/ GoTo("ren", "request") \/ GoTo("ren", "asked") \/ GoTo("ren", "look")
            \/ GoTo("ren", "reopen") \/ GoTo("ren", "show")
    BY <1>8 DEF DoRender, SupplyBuffers, WaitEnds, RequestPicture, LookAgain, AfterFlags
  <2> QED BY <1>1, <1>2, <2>1
<1>9. CASE Reopen \/ WakeCheck \/ WakePost \/ ShowPicture \/ ShowFails
  <2>1. GoTo("ren", "get") \/ GoTo("ren", "check") \/ GoTo("ren", "wakeCheck") \/ GoTo("ren", "wakePost")
    BY <1>9 DEF Reopen, WakeCheck, WakePost, ShowPicture, ShowFails
  <2> QED BY <1>1, <1>2, <2>1
<1> QED BY <1>2, <1>3, <1>4, <1>5, <1>6, <1>7, <1>8, <1>9 DEF DecThread, RenThread

LEMMA StatusTyped ==
    ASSUME ThreadsType, DecThread \/ RenThread
    PROVE  status' \in [Comp -> Status]
<1> USE DEF ThreadsType, SetStatus, Status, Comp
<1>1. ASSUME NEW c \in Comp, NEW st \in Status, SetStatus(c, st) \/ UNCHANGED status
      PROVE  status' \in [Comp -> Status]
  BY <1>1
<1>2. CASE DecStart
  BY <1>1, <1>2 DEF DecStart
<1>3. CASE DecStop \/ DecPause \/ DecReset \/ DecQuit \/ DoDecode
  BY <1>1, <1>3 DEF DecStop, DecPause, DecReset, DecQuit, DoDecode
<1>4. CASE Decode
  BY <1>4 DEF Decode, DecodeNothing, DecodeFrame, DecodeResolution, DecodeCrash, DecodeReturns
<1>5. CASE ContinueWork("dec") \/ ContinueWork("ren")
  BY <1>5 DEF ContinueWork, Continues, Looks, Posts
<1>6. CASE RenStart \/ RenStop \/ RenPause \/ RenReset \/ RenQuit \/ DoRender
  BY <1>1, <1>6 DEF RenStart, RenStop, RenPause, RenReset, RenQuit, DoRender
<1>7. CASE SupplyBuffers \/ WaitEnds \/ RequestPicture \/ LookAgain \/ WakeCheck \/ WakePost
  BY <1>7 DEF RenSteps, SupplyBuffers, WaitEnds, RequestPicture, LookAgain, WakeCheck, WakePost
<1>8. CASE Reopen \/ ShowPicture \/ ShowFails
  BY <1>8 DEF Reopen, Showing, ShowPicture, ShowFails
<1> QED BY <1>2, <1>3, <1>4, <1>5, <1>6, <1>7, <1>8 DEF DecThread, RenThread

LEMMA PicturesTyped == ASSUME ThreadsType, ready \in 0 .. Buffers, Next PROVE ready' \in 0 .. Buffers
<1>13. ASSUME ready' = ready \/ ready' = 0 PROVE ready' \in 0 .. Buffers
  BY <1>13
<1>14. CASE DecodeFrame
  BY <1>14 DEF DecodeFrame
<1>15. CASE RequestPicture
  BY <1>15 DEF RequestPicture
<1>16. CASE DecodeNothing \/ DecodeResolution \/ DecodeCrash
  BY <1>13, <1>16 DEF DecodeNothing, DecodeResolution, DecodeCrash, library
<1> USE DEF decVars, renVars, library, Comp
<1>1. CASE Start \/ Stop \/ Pause \/ Reset \/ Clear \/ PlayerWaits \/ PlayerActs
  <2>1. UNCHANGED streamVars
    BY <1>1 DEF Start, Stop, Pause, Reset, Clear, PlayerWaits, PlayerActs
  <2> QED BY <1>13, <2>1 DEF streamVars
<1>2. CASE ContinueWork("dec") \/ ContinueWork("ren") \/ Cleared
  BY <1>13, <1>2 DEF ContinueWork, Cleared, streamVars, vars
<1>3. CASE DecStart
  BY <1>13, <1>3 DEF DecStart, FlushDecoder, ThreadsType, Status
<1>4. CASE DecStop \/ DecReset \/ DecQuit
  BY <1>13, <1>4 DEF DecStop, DecReset, DecQuit, FlushDecoder, SetFirst
<1>5. CASE DecPause \/ DoDecode
  BY <1>13, <1>5 DEF DecPause, DoDecode
<1>6. CASE Decode
  BY <1>14, <1>16, <1>6 DEF Decode
<1>7. CASE RenStart \/ RenReset
  BY <1>13, <1>7 DEF RenStart, RenReset, SetFirst
<1>8. CASE RenStop \/ RenPause \/ RenQuit \/ DoRender
  BY <1>13, <1>8 DEF RenStop, RenPause, RenQuit, DoRender
<1>9. CASE SupplyBuffers
  BY <1>13, <1>9 DEF SupplyBuffers
<1>10. CASE WaitEnds \/ LookAgain \/ WakeCheck \/ WakePost
  BY <1>13, <1>10 DEF WaitEnds, LookAgain, WakeCheck, WakePost, RenSteps
<1>11. CASE Reopen
  BY <1>13, <1>11 DEF Reopen
<1>12. CASE ShowPicture \/ ShowFails
  BY <1>13, <1>12 DEF ShowPicture, ShowFails, Showing, NotifyFirstPts, SetFirst
<1> QED BY <1>1, <1>2, <1>3, <1>4, <1>5, <1>6, <1>7, <1>8, <1>9, <1>10, <1>11, <1>12, <1>15
        DEF Next, PlayerStep, DecThread, RenThread

LEMMA FlagsTyped == ASSUME ThreadsType, FlagsType, Next PROVE FlagsType'
<1> USE DEF FlagsType
<1> USE DEF decVars, renVars, library, Comp
<1>1. CASE Start \/ Stop \/ Pause \/ Reset \/ Clear \/ PlayerWaits \/ PlayerActs
  BY <1>1 DEF Start, Stop, Pause, Reset, Clear, PlayerWaits, PlayerActs, streamVars
<1>2. CASE ContinueWork("dec") \/ ContinueWork("ren") \/ Cleared
  BY <1>2 DEF ContinueWork, Cleared, streamVars, vars
<1>3. CASE DecStart
  BY <1>3 DEF DecStart, FlushDecoder, ThreadsType, Status
<1>4. CASE DecStop \/ DecReset \/ DecQuit
  BY <1>4 DEF DecStop, DecReset, DecQuit, FlushDecoder, SetFirst
<1>5. CASE DecPause \/ DoDecode
  BY <1>5 DEF DecPause, DoDecode
<1>6. CASE Decode
  BY <1>6 DEF Decode, DecodeNothing, DecodeFrame, DecodeResolution, DecodeCrash, DecodeReturns, SetFirst
<1>7. CASE RenStart \/ RenReset
  BY <1>7 DEF RenStart, RenReset, SetFirst
<1>8. CASE RenStop \/ RenPause \/ RenQuit \/ DoRender
  BY <1>8 DEF RenStop, RenPause, RenQuit, DoRender
<1>9. CASE SupplyBuffers \/ RequestPicture
  BY <1>9 DEF SupplyBuffers, RequestPicture, RenSteps
<1>10. CASE WaitEnds \/ LookAgain \/ WakeCheck \/ WakePost
  BY <1>10 DEF WaitEnds, LookAgain, WakeCheck, WakePost, RenSteps
<1>11. CASE Reopen
  BY <1>11 DEF Reopen
<1>12. CASE ShowPicture \/ ShowFails
  BY <1>12 DEF ShowPicture, ShowFails, Showing, NotifyFirstPts, SetFirst
<1> QED BY <1>1, <1>2, <1>3, <1>4, <1>5, <1>6, <1>7, <1>8, <1>9, <1>10, <1>11, <1>12
        DEF Next, PlayerStep, DecThread, RenThread

LEMMA ClockTyped ==
    ASSUME NEW a \in BOOLEAN, NEW b \in BOOLEAN
    PROVE  [base |-> a, running |-> b] \in [base : BOOLEAN, running : BOOLEAN]
OBVIOUS

LEMMA MediaTyped == ASSUME ThreadsType, MediaType, Next PROVE MediaType'
<1> USE DEF MediaType
<1> USE DEF decVars, renVars, library, Comp
<1>1. CASE Start \/ Stop \/ Pause \/ Reset \/ Clear \/ PlayerWaits \/ PlayerActs
  <2>1. UNCHANGED streamVars
    BY <1>1 DEF Start, Stop, Pause, Reset, Clear, PlayerWaits, PlayerActs
  <2>2. CASE Stop \/ Pause \/ Reset \/ Clear \/ PlayerWaits
    BY <2>1, <2>2 DEF Stop, Pause, Reset, Clear, PlayerWaits, streamVars
  <2>3. CASE Start
    <3>1. clock' = [clock EXCEPT !.running = clock.base] \/ clock' = [base |-> FALSE, running |-> FALSE]
      BY <2>3 DEF Start
    <3>2. [clock EXCEPT !.running = clock.base] = [base |-> clock.base, running |-> clock.base]
          /\ clock.base \in BOOLEAN
      OBVIOUS
    <3>3. PICK b \in BOOLEAN : clock' = [base |-> b, running |-> b]
      BY <3>1, <3>2, Zenon
    <3>4. clock' \in [base : BOOLEAN, running : BOOLEAN]
      BY <3>3, ClockTyped
    <3> QED BY <2>1, <3>4 DEF streamVars
  <2>4. CASE PlayerActs
    <3>1. PICK what \in OwnSteps : clock' = [base |-> clock.base /\ what # "rewound",
                                             running |-> clock.running /\ what = "started"]
      BY <2>4 DEF PlayerActs
    <3>2. clock' \in [base : BOOLEAN, running : BOOLEAN]
      BY <3>1
    <3> QED BY <2>1, <3>2 DEF streamVars
  <2> QED BY <1>1, <2>2, <2>3, <2>4
<1>2. CASE ContinueWork("dec") \/ ContinueWork("ren") \/ Cleared
  BY <1>2 DEF ContinueWork, Cleared, streamVars, vars
<1>3. CASE DecStart
  BY <1>3 DEF DecStart, FlushDecoder, ThreadsType, Status
<1>4. CASE DecStop \/ DecReset \/ DecQuit
  BY <1>4 DEF DecStop, DecReset, DecQuit, FlushDecoder, SetFirst
<1>5. CASE DecPause \/ DoDecode
  BY <1>5 DEF DecPause, DoDecode
<1>6. CASE Decode
  BY <1>6 DEF Decode, DecodeNothing, DecodeFrame, DecodeResolution, DecodeCrash, DecodeReturns, SetFirst
<1>7. CASE RenStart \/ RenReset
  BY <1>7 DEF RenStart, RenReset, SetFirst
<1>8. CASE RenStop \/ RenPause \/ RenQuit \/ DoRender
  BY <1>8 DEF RenStop, RenPause, RenQuit, DoRender
<1>9. CASE SupplyBuffers \/ RequestPicture
  BY <1>9 DEF SupplyBuffers, RequestPicture, RenSteps
<1>10. CASE WaitEnds \/ LookAgain \/ WakeCheck \/ WakePost
  BY <1>10 DEF WaitEnds, LookAgain, WakeCheck, WakePost, RenSteps
<1>11. CASE Reopen
  BY <1>11 DEF Reopen
<1>12. CASE ShowPicture \/ ShowFails
  <2>1. clock' = clock \/ clock' = [base |-> TRUE, running |-> TRUE]
    BY <1>12 DEF ShowPicture, ShowFails, Showing, NotifyFirstPts
  <2>2. first' = first \/ first' = [first EXCEPT !["ren"] = TRUE]
    BY <1>12 DEF ShowPicture, ShowFails, SetFirst
  <2>3. fbm' = fbm
    BY <1>12 DEF ShowPicture, ShowFails, Showing
  <2>4. clock' \in [base : BOOLEAN, running : BOOLEAN]
    BY <2>1, ClockTyped, Zenon
  <2>5. first' \in [Comp -> BOOLEAN]
    BY <2>2
  <2> QED BY <2>3, <2>4, <2>5
<1> QED BY <1>1, <1>2, <1>3, <1>4, <1>5, <1>6, <1>7, <1>8, <1>9, <1>10, <1>11, <1>12
        DEF Next, PlayerStep, DecThread, RenThread

LEMMA TypeStep == ASSUME VideoType, [Next]_vars PROVE VideoType'
<1>1. CASE UNCHANGED vars
  BY <1>1 DEF vars, threads, streamVars, decVars, renVars, library,
              VideoType, ThreadsType, FlagsType, MediaType
<1>2. CASE Next
  <2>1. FlagsType' /\ MediaType' /\ ready' \in 0 .. Buffers
    BY <1>2, PicturesTyped, FlagsTyped, MediaTyped DEF VideoType
  <2>2. CASE DecThread \/ RenThread
    BY <2>1, <2>2, PlaceTyped, StatusTyped DEF VideoType, ThreadsType
  <2>3. CASE ~(DecThread \/ RenThread)
    <3>1. UNCHANGED <<pc, status>>
      BY <1>2, <2>3 DEF Next, Start, Stop, Pause, Reset, Clear, CallStart, CallStop, CallPause,
         CallReset, CallClear, Call, PlayerStep, PlayerWaits, PlayerPosts, PlayerResumes, PlayerActs,
         PlayerDoes, Cleared, vars, threads
    <3> QED BY <2>1, <3>1 DEF VideoType, ThreadsType
  <2> QED BY <2>2, <2>3
<1> QED BY <1>1, <1>2

-----------------------------------------------------------------------------
(* A thread with work to do is kept going.                                 *)

\* The thread has work to do and waits for a message.
Waits(c) == pc[c] = "get" /\ mq[c] = <<>> /\ Working(c)

\* What the player does leaves the threads alone, but for a message.
LEMMA PlayerLeaves ==
    ASSUME Calling \/ PlayerStep \/ UNCHANGED vars
    PROVE  /\ UNCHANGED <<pc, status, streamVars>>
           /\ UNCHANGED mq \/ PlayerPosts
BY DEF Calling, Start, Stop, Pause, Reset, Clear, CallStart, CallStop, CallPause, CallReset,
       CallClear, Call, PlayerStep, PlayerWaits, PlayerPosts, PlayerResumes, PlayerActs, PlayerDoes,
       vars, threads

\* A post leaves no queue empty that was not.
LEMMA PostsFill ==
    ASSUME LoopType, NEW c \in Comp, NEW m, mq' = [mq EXCEPT ![c] = Append(@, m)]
    PROVE  mq'[c] # <<>> /\ \A d \in Comp \ {c} : mq'[d] = mq[d]
<1> DEFINE q == mq[c]
<1>1. q \in Seq(Message) /\ mq'[c] = Append(q, m) /\ \A d \in Comp \ {c} : mq'[d] = mq[d]
  BY DEF LoopType
<1> HIDE DEF q
<1>2. Append(q, m) # <<>>
  BY <1>1
<1> QED BY <1>1, <1>2

\* The loop itself never leaves a thread waiting.
LEMMA LoopWaitsNot ==
    ASSUME LoopType, ThreadsType, NEW c \in Comp, ContinueWork(c)
    PROVE  ~Waits(c)'
<1>1. CASE Looks(c)
  BY <1>1 DEF Looks, HandlerEnds, GoTo, Waits, ThreadsType
<1>2. CASE Posts(c)
  <2>1. mq'[c] # <<>>
    BY <1>2, PostsFill DEF Posts, PostMessage
  <2> QED BY <2>1 DEF Waits
<1> QED BY <1>1, <1>2 DEF ContinueWork, Continues

\* Nor do the renderer's other steps.
LEMMA RenWaitsNot ==
    ASSUME LoopType, ThreadsType, MediaType, RenCommand \/ RenOther
    PROVE  ~Waits("ren")'
<1> USE DEF ThreadsType, MediaType, Waits, Working, Comp
<1> USE DEF JustReply, ReplyThenContinue, GoTo, SetStatus, SetFirst
<1>1. CASE RenStart \/ RenStop \/ RenQuit
  BY <1>1 DEF RenStart, RenStop, RenQuit
<1>2. CASE RenPause \/ RenReset
  BY <1>2 DEF RenPause, RenReset
<1>3. CASE DoRender \/ SupplyBuffers \/ RequestPicture
  BY <1>3 DEF DoRender, SupplyBuffers, RequestPicture, AfterFlags
<1>4. CASE WaitEnds
  BY <1>4 DEF WaitEnds
<1>5. CASE LookAgain \/ Reopen \/ WakeCheck \/ WakePost \/ ShowFails
  BY <1>5 DEF LookAgain, Reopen, WakeCheck, WakePost, ShowFails
<1>6. CASE ShowPicture
  BY <1>6 DEF ShowPicture, Showing
<1>7. CASE ContinueWork("ren")
  BY <1>7, LoopWaitsNot
<1> QED BY <1>1, <1>2, <1>3, <1>4, <1>5, <1>6, <1>7 DEF RenCommand, RenOther

\* And the decoder's, if it is not started when it is started, leave it waiting
\* only after a crash or at a change of resolution.
LEMMA DecWaitsFor ==
    ASSUME LoopType, ThreadsType, MediaType, DecCommand \/ DecOther,
           DecStart => status["dec"] # "started", Waits("dec")'
    PROVE  crashed' \/ resChange'
<1> USE DEF ThreadsType, MediaType, Waits, Working, Comp, decVars
<1> USE DEF JustReply, ReplyThenContinue, ContinueThenReply, GoTo, SetStatus, SetFirst
<1>1. CASE DecStart
  BY <1>1 DEF DecStart, Status
<1>2. CASE DecStop \/ DecQuit
  BY <1>2 DEF DecStop, DecQuit
<1>3. CASE DecPause \/ DecReset
  BY <1>3 DEF DecPause, DecReset
<1>4. CASE DoDecode
  BY <1>4 DEF DoDecode
<1>5. CASE DecodeNothing \/ DecodeFrame
  BY <1>5 DEF DecodeNothing, DecodeFrame, DecodeReturns
<1>6. CASE DecodeResolution \/ DecodeCrash
  BY <1>6 DEF DecodeResolution, DecodeCrash
<1>7. CASE ContinueWork("dec")
  BY <1>7, LoopWaitsNot
<1> QED BY <1>1, <1>2, <1>3, <1>4, <1>5, <1>6, <1>7 DEF DecCommand, DecOther, Decode

\* While it waits for the renderer to reopen the engine, it will be woken.
LEMMA RenWakes ==
    ASSUME LoopType, ThreadsType, MediaType, RenCommand \/ RenOther,
           Waits("dec") => crashed \/ resChange \/ Waking, Waits("dec")'
    PROVE  crashed' \/ resChange' \/ Waking'
<1>1. /\ UNCHANGED crashed /\ pc'["dec"] = pc["dec"]
      /\ status'["dec"] = status["dec"] /\ first'["dec"] = first["dec"]
      /\ mq'["dec"] = mq["dec"] \/ WakePost
      /\ resChange' = resChange \/ Reopen
  BY RenLeaves
<1>2. CASE WakePost
  <2>1. mq'["dec"] # <<>>
    BY <1>2, PostsFill DEF WakePost, PostMessage, Comp
  <2> QED BY <2>1 DEF Waits
<1>3. CASE Reopen
  BY <1>3 DEF Reopen, Waking, GoTo, ThreadsType, Comp
<1>4. CASE ~WakePost /\ ~Reopen
  <2>1. Waits("dec")
    BY <1>1, <1>4 DEF Waits, Working
  <2>2. CASE crashed \/ resChange
    BY <1>1, <1>4, <2>2
  <2>3. CASE Waking
    <3>1. WakeCheck
      BY <1>4, <2>3 DEF Waking, RenCommand, RenOther, RenStart, RenStop, RenPause, RenReset, RenQuit,
         DoRender, Handle, SupplyBuffers, WaitEnds, RequestPicture, LookAgain, RenSteps, ShowPicture,
         ShowFails, Showing, ContinueWork, Continues, Looks, Posts
    <3> QED BY <2>1, <3>1 DEF Waits, WakeCheck, Waking, GoTo, ThreadsType, Comp
  <2> QED BY <2>1, <2>2, <2>3
<1> QED BY <1>2, <1>3, <1>4

LEMMA ChainStep ==
    ASSUME PlayInv, VideoType, InRow, ChainAlive, [Next]_vars
    PROVE  ChainAlive'
<1> USE DEF PlayInv, VideoType
<1>1. ~Waits("ren") /\ (Waits("dec") => crashed \/ resChange \/ Waking)
  BY DEF ChainAlive, Waits, Waking, Comp
<1>2. CASE Calling \/ PlayerStep \/ UNCHANGED vars
  <2>1. UNCHANGED <<pc, status, first, crashed, resChange>>
    BY <1>2, PlayerLeaves DEF streamVars, decVars
  <2>2. mq' = mq \/ \A d \in Comp : mq'[d] = mq[d] \/ mq'[d] # <<>>
    BY <1>2, PlayerLeaves, PostStep, PostsFill
  <2>3. \A d \in Comp : Waits(d)' => Waits(d)
    BY <2>1, <2>2 DEF Waits, Working
  <2> QED BY <1>1, <2>1, <2>3 DEF ChainAlive, Waits, Waking, Comp
<1>3. CASE DecCommand \/ DecOther
  <2>1. DecStart => status["dec"] # "started"
    <3>1. PICK s, k : Doing(s, k) /\ Row(s, k, Turn(k))
      BY DEF InRow
    <3> QED BY <3>1, DecAsked DEF DecStart, Command
  <2>2. Waits("dec")' => crashed' \/ resChange'
    BY <1>3, <2>1, DecWaitsFor
  <2>3. Waits("ren")' = Waits("ren")
    BY <1>3, DecLeaves DEF Waits, Working
  <2> QED BY <1>1, <2>2, <2>3 DEF ChainAlive, Waits, Waking, Comp
<1>4. CASE RenCommand \/ RenOther
  BY <1>1, <1>4, RenWaitsNot, RenWakes DEF ChainAlive, Waits, Waking, Comp
<1> QED BY <1>2, <1>3, <1>4 DEF Next, Calling, DecThread, RenThread, DecCommand, RenCommand,
        DecOther, RenOther, Cleared

\* The renderer is at work only while there is work.
LEMMA RenderStep ==
    ASSUME PlayInv, VideoType, WorkInv, [Next]_vars
    PROVE  WorkInv'
<1> USE DEF PlayInv, VideoType
<1>1. CASE Calling \/ PlayerStep \/ UNCHANGED vars
  BY <1>1, PlayerLeaves DEF WorkInv, Working, streamVars
<1>2. CASE DecCommand \/ DecOther
  BY <1>2, DecLeaves DEF WorkInv, Working
<1>3. CASE RenCommand \/ ShowPicture \/ ContinueWork("ren")
  BY <1>3 DEF RenCommand, RenStart, RenStop, RenPause, RenReset, RenQuit, ShowPicture,
     ContinueWork, Continues, Looks, Posts, JustReply, ReplyThenContinue, HandlerEnds, GoTo,
     ThreadsType, Comp, WorkInv, Rendering
<1>4. CASE DoRender
  BY <1>4 DEF DoRender, GoTo, ThreadsType, Comp, WorkInv, Rendering, Working
<1>5. CASE SupplyBuffers \/ WaitEnds \/ RequestPicture \/ LookAgain \/ Reopen \/ WakeCheck
               \/ WakePost \/ ShowFails
  <2>1. pc["ren"] \in Rendering
    BY <1>5 DEF SupplyBuffers, WaitEnds, RequestPicture, LookAgain, Reopen, WakeCheck, WakePost,
       ShowFails, Showing, RenSteps, Rendering
  <2>2. UNCHANGED <<status, first>>
    BY <1>5 DEF SupplyBuffers, WaitEnds, RequestPicture, LookAgain, Reopen, WakeCheck, WakePost,
       ShowFails, Showing, RenSteps
  <2> QED BY <2>1, <2>2 DEF WorkInv, Working
<1> QED BY <1>1, <1>2, <1>3, <1>4, <1>5 DEF Next, Calling, DecThread, RenThread, DecCommand, RenCommand,
        DecOther, RenOther, Cleared

-----------------------------------------------------------------------------
(* What keeps the decoder going in a player that has only been started.    *)

LEMMA ContinuesTaken ==
    ASSUME NEW q \in Seq(Message), q # <<>>
    PROVE  /\ NoContinue(q) => NoContinue(Tail(q)) /\ Head(q) # "continue"
           /\ OneContinue(q) => OneContinue(Tail(q))
           /\ OneContinue(q) /\ Head(q) = "continue" => NoContinue(Tail(q))
<1>1. /\ Len(Tail(q)) = Len(q) - 1 /\ Len(q) \in Nat /\ Len(q) >= 1 /\ Head(q) = q[1]
      /\ \A i \in 1 .. Len(Tail(q)) : i + 1 \in 1 .. Len(q) /\ Tail(q)[i] = q[i + 1]
  OBVIOUS
<1> DEFINE t == Tail(q)
<1>2. /\ Len(t) = Len(q) - 1 /\ 1 \in 1 .. Len(q)
      /\ \A i \in 1 .. Len(t) : i \in Nat /\ i + 1 \in 1 .. Len(q) /\ t[i] = q[i + 1]
  BY <1>1
<1> HIDE DEF t
<1>3. NoContinue(q) => NoContinue(t) /\ Head(q) # "continue"
  BY <1>1, <1>2 DEF NoContinue
<1>4. ASSUME OneContinue(q), NEW i \in 1 .. Len(t), NEW j \in 1 .. Len(t), t[i] = "continue",
             t[j] = "continue"
      PROVE  i = j
  <2>1. i + 1 = j + 1
    BY <1>2, <1>4 DEF OneContinue
  <2> QED BY <1>2, <2>1
<1>5. ASSUME OneContinue(q), Head(q) = "continue", NEW i \in 1 .. Len(t)
      PROVE  t[i] # "continue"
  <2>1. q[i + 1] = "continue" => i + 1 = 1
    BY <1>1, <1>2, <1>5 DEF OneContinue
  <2> QED BY <1>2, <2>1
<1> QED BY <1>3, <1>4, <1>5 DEF NoContinue, OneContinue, t

LEMMA ContinuesPosted ==
    ASSUME NEW q \in Seq(Message), NEW m \in Message
    PROVE  /\ NoContinue(q) => OneContinue(Append(q, m))
           /\ m # "continue" /\ NoContinue(q) => NoContinue(Append(q, m))
           /\ m # "continue" /\ OneContinue(q) => OneContinue(Append(q, m))
<1> DEFINE a == Append(q, m)
<1>1. /\ Len(q) \in Nat /\ Len(a) = Len(q) + 1 /\ a[Len(q) + 1] = m
      /\ \A i \in 1 .. Len(q) : a[i] = q[i]
  OBVIOUS
<1> HIDE DEF a
<1>2. \A i \in 1 .. Len(a) : i \in 1 .. Len(q) \/ i = Len(q) + 1
  BY <1>1
<1>3. NoContinue(q) => OneContinue(a)
  BY <1>1, <1>2 DEF NoContinue, OneContinue
<1>4. m # "continue" /\ NoContinue(q) => NoContinue(a)
  BY <1>1, <1>2 DEF NoContinue
<1>5. m # "continue" /\ OneContinue(q) => OneContinue(a)
  BY <1>1, <1>2 DEF OneContinue
<1> QED BY <1>3, <1>4, <1>5 DEF a

LEMMA NoneIsOne == ASSUME NEW q, NoContinue(q) PROVE OneContinue(q)
BY DEF NoContinue, OneContinue

\* A message that is posted to a queue, and one that is taken.
LEMMA DecQueue ==
    ASSUME LoopType
    PROVE  /\ mq["dec"] \in Seq(Message)
           /\ \A m \in Message : mq' = [mq EXCEPT !["dec"] = Append(@, m)] => mq'["dec"] = Append(mq["dec"], m)
           /\ \A m : Handle("dec", m) => mq'["dec"] = Tail(mq["dec"]) /\ mq["dec"] # <<>>
                                            /\ Head(mq["dec"]) = m /\ pc["dec"] = "get"
BY DEF LoopType, Handle, Comp

\* Steps of the player: only a start leaves it straight.
LEMMA TokenPlayer ==
    ASSUME PlayInv, VideoType, InRow, TokenInv, Calling \/ PlayerStep \/ UNCHANGED vars
    PROVE  TokenInv'
<1> SUFFICES ASSUME player'.straight PROVE OneToken'
  BY DEF TokenInv
<1> USE DEF PlayInv
<1>1. UNCHANGED <<pc, status, resChange>> /\ (UNCHANGED mq \/ PlayerPosts)
  BY PlayerLeaves DEF streamVars, decVars
<1>2. player.straight /\ (player'.status = "stopped" => player.status = "stopped")
  <2>1. CASE Calling
    <3>1. \E cmd, todo : Call(cmd, todo)
      BY <2>1 DEF Calling, Start, Stop, Pause, Reset, Clear, CallStart, CallStop, CallPause,
         CallReset, CallClear
    <3>2. PICK cmd, todo : player' = [player EXCEPT !.todo = todo,
                                                    !.straight = @ /\ cmd \in {"start", "stop"}]
      BY <3>1 DEF Call
    <3> QED BY <3>2 DEF PlayerType
  <2>2. CASE PlayerWaits
    <3>1. player' = player \/ player' = [player EXCEPT !.todo = Tail(@)]
      BY <2>2 DEF PlayerWaits, PlayerPosts, PlayerResumes
    <3> QED BY <3>1 DEF PlayerType
  <2>3. CASE PlayerActs
    <3>1. PICK what \in OwnSteps : PlayerDoes(what)
      BY <2>3 DEF PlayerActs
    <3> QED BY <3>1, DoesStep
  <2>4. CASE UNCHANGED vars
    BY <2>4 DEF vars, playerVars
  <2> QED BY <2>1, <2>2, <2>3, <2>4 DEF PlayerStep
<1>3. OneToken
  BY <1>2 DEF TokenInv
<1>4. /\ NoContinue(mq["dec"]) => NoContinue(mq'["dec"])
      /\ OneContinue(mq["dec"]) => OneContinue(mq'["dec"])
  <2>1. CASE PlayerPosts
    <3>1. PICK c \in Comp : /\ mq' = [mq EXCEPT ![c] = Append(@, Head(player.todo).what)]
                            /\ Head(player.todo) = Send(c, Head(player.todo).what)
      BY <2>1, PostStep
    <3>2. Head(player.todo).what \in Command
      BY <2>1, <3>1, HeadStep DEF Send, PlayerPosts
    <3>3. CASE c = "dec"
      <4> DEFINE q == mq["dec"]  m == Head(player.todo).what
      <4>1. q \in Seq(Message) /\ mq'["dec"] = Append(q, m) /\ m \in Message /\ m # "continue"
        BY <3>1, <3>2, <3>3, DecQueue DEF Message, Command
      <4> HIDE DEF q, m
      <4> QED BY <4>1, ContinuesPosted DEF q
    <3>4. CASE c = "ren"
      <4>1. mq'["dec"] = mq["dec"]
        BY <3>1, <3>4 DEF LoopType, Comp
      <4> QED BY <4>1
    <3> QED BY <3>3, <3>4 DEF Comp
  <2> QED BY <1>1, <2>1
<1> QED BY <1>1, <1>2, <1>3, <1>4 DEF OneToken, DecAtRest, Waking

\* The decoder's commands: a start finds it at rest, and of the others only a
\* stop is given to a player that has only been started.
LEMMA TokenCommand ==
    ASSUME PlayInv, VideoType, InRow, TokenInv, DecCommand
    PROVE  TokenInv'
<1> SUFFICES ASSUME player'.straight PROVE OneToken'
  BY DEF TokenInv
<1> USE DEF PlayInv, VideoType
<1>1. /\ UNCHANGED player /\ pc'["ren"] = pc["ren"]
  BY DecLeaves
<1>2. OneToken /\ UNCHANGED resChange
  BY <1>1 DEF TokenInv, DecCommand, DecStart, DecStop, DecPause, DecReset, DecQuit, decVars
<1>3. PICK s, k : Doing(s, k) /\ Row(s, k, Turn(k))
  BY DEF InRow
<1>4. s \in {"start", "stop"} /\ player.status # "paused" /\ player.status \in StatusIn(s, k)
  BY <1>1, <1>3 DEF Row, Straight, Doing
<1>5. ASSUME NEW m \in Command, Handle("dec", m)
      PROVE  /\ mq'["dec"] = Tail(mq["dec"]) /\ pc["dec"] = "get"
             /\ NoContinue(mq["dec"]) => NoContinue(mq'["dec"])
             /\ OneContinue(mq["dec"]) => OneContinue(mq'["dec"])
             /\ s \in PlanName /\ k \in 1 .. Len(Plan(s)) /\ Plan(s)[k] = Send("dec", m) /\ Turn(k) = k
  <2> DEFINE q == mq["dec"]
  <2>1. q \in Seq(Message) /\ q # <<>> /\ mq'["dec"] = Tail(q) /\ pc["dec"] = "get"
    BY <1>5, DecQueue
  <2>2. s \in PlanName /\ k \in 1 .. Len(Plan(s)) /\ Plan(s)[k] = Send("dec", m) /\ Turn(k) = k
    BY <1>3, <1>5, TakenTurn DEF Comp
  <2> HIDE DEF q
  <2>3. /\ NoContinue(q) => NoContinue(mq'["dec"])
        /\ OneContinue(q) => OneContinue(mq'["dec"])
    BY <2>1, ContinuesTaken
  <2> QED BY <2>1, <2>2, <2>3 DEF q
<1>6. CASE DecStart
  <2>1. /\ s \in PlanName /\ k \in 1 .. Len(Plan(s)) /\ Plan(s)[k] = Send("dec", "start") /\ Turn(k) = k
        /\ NoContinue(mq["dec"]) => NoContinue(mq'["dec"])
    BY <1>5, <1>6 DEF DecStart, Command
  <2>2. s = "start" /\ k = 1
    BY <1>4, <2>1, Turns
  <2>3. player.status = "stopped" /\ status["dec"] = player.status
    <3>1. player.status = "stopped"
      BY <1>4, <2>2 DEF StatusIn
    <3>2. status["dec"] = DecAt("start", 1, player.status)
      BY <1>3, <2>1, <2>2 DEF Row
    <3> QED BY <3>1, <3>2 DEF DecAt
  <2>4. DecAtRest /\ ~resChange /\ ~Waking
    BY <1>2, <2>3 DEF OneToken
  <2>5. status'["dec"] = "started"
    BY <1>6, <2>3 DEF DecStart, SetStatus, ThreadsType, Comp
  <2>6. NoContinue(mq'["dec"]) /\ OneContinue(mq'["dec"])
    BY <2>1, <2>4, NoneIsOne DEF DecAtRest
  <2> QED BY <1>1, <1>2, <2>4, <2>5, <2>6 DEF OneToken, Waking
<1>7. CASE DecStop
  <2>1. /\ s \in PlanName /\ k \in 1 .. Len(Plan(s)) /\ Plan(s)[k] = Send("dec", "stop")
        /\ NoContinue(mq["dec"]) => NoContinue(mq'["dec"])
        /\ OneContinue(mq["dec"]) => OneContinue(mq'["dec"])
        /\ pc' = pc /\ pc["dec"] = "get"
    BY <1>5, <1>7 DEF DecStop, Command
  <2>2. s = "stop" /\ k = 2
    BY <2>1, Turns
  <2>3. player.status # "stopped"
    BY <1>4, <2>2 DEF StatusIn
  <2> QED BY <1>1, <1>2, <2>1, <2>3 DEF OneToken, Waking, DecAtRest
<1>8. CASE DecPause \/ DecReset \/ DecQuit
  <2>1. PICK m \in {"pause", "reset", "quit"} : Handle("dec", m)
    BY <1>8 DEF DecPause, DecReset, DecQuit
  <2>2. s \in PlanName /\ k \in 1 .. Len(Plan(s)) /\ Plan(s)[k] = Send("dec", m)
    BY <1>5, <2>1 DEF Command
  <2>3. s \notin {"start", "stop"}
    BY <2>1, <2>2, Turns
  <2> QED BY <1>4, <2>3
<1> QED BY <1>6, <1>7, <1>8 DEF DecCommand

\* Its other steps use up its one CONTINUE, or post it again.
LEMMA TokenDec ==
    ASSUME PlayInv, VideoType, TokenInv, DecOther
    PROVE  TokenInv'
<1> SUFFICES ASSUME player'.straight PROVE OneToken'
  BY DEF TokenInv
<1> USE DEF PlayInv, VideoType
<1>1. UNCHANGED <<player, status>> /\ pc'["ren"] = pc["ren"]
  BY DecLeaves, DecOthers DEF playerVars
<1>2. OneToken
  BY <1>1 DEF TokenInv
<1> DEFINE q == mq["dec"]
<1>3. q \in Seq(Message)
  BY DecQueue
<1>4. CASE DoDecode
  <2>1. /\ q # <<>> /\ Head(q) = "continue" /\ mq'["dec"] = Tail(q) /\ UNCHANGED resChange
        /\ pc["dec"] = "get"
    BY <1>4, DecQueue DEF DoDecode, decVars
  <2> HIDE DEF q
  <2>2. ~NoContinue(q) /\ OneContinue(q)
    BY <1>2, <1>3, <2>1, ContinuesTaken DEF OneToken, q
  <2>3. NoContinue(mq'["dec"]) /\ OneContinue(mq'["dec"])
    BY <1>3, <2>1, <2>2, ContinuesTaken, NoneIsOne
  <2>4. ~resChange /\ ~Waking /\ ~(player.status = "stopped" /\ status["dec"] = "stopped")
    BY <1>2, <2>2 DEF OneToken, DecAtRest, q
  <2> QED BY <1>1, <1>2, <2>1, <2>3, <2>4 DEF OneToken, Waking
<1>5. CASE Decode \/ ContinueWork("dec")
  <2>1. pc["dec"] \in {"decode", "check", "post"}
    BY <1>5 DEF Decode, DecodeNothing, DecodeFrame, DecodeResolution, DecodeCrash, DecodeReturns,
       ContinueWork, Continues, Looks, Posts
  <2>2. /\ NoContinue(q) /\ ~resChange /\ ~Waking
        /\ ~(player.status = "stopped" /\ status["dec"] = "stopped")
    BY <1>2, <2>1 DEF OneToken, DecAtRest
  <2>3. CASE Decode
    <3>1. mq' = mq /\ (UNCHANGED resChange \/ (DecodeResolution /\ pc'["dec"] = "get"))
      BY <2>3 DEF Decode, DecodeNothing, DecodeFrame, DecodeResolution, DecodeCrash, DecodeReturns,
         decVars, GoTo, ThreadsType, Comp
    <3> QED BY <1>1, <1>2, <2>2, <3>1 DEF OneToken, Waking, DecAtRest
  <2>4. CASE Looks("dec") /\ UNCHANGED resChange
    <3>1. mq' = mq
      BY <2>4 DEF Looks
    <3> QED BY <1>1, <1>2, <2>2, <2>4, <3>1 DEF OneToken, Waking
  <2>5. CASE Posts("dec") /\ UNCHANGED resChange
    <3>1. mq'["dec"] = Append(q, "continue")
      BY <2>5, DecQueue DEF Posts, PostMessage, Message
    <3>2. pc'["dec"] = "get"
      BY <2>5 DEF Posts, HandlerEnds, GoTo, ThreadsType, Comp
    <3> HIDE DEF q
    <3>3. OneContinue(mq'["dec"])
      BY <1>3, <2>2, <3>1, ContinuesPosted DEF Message
    <3> QED BY <1>1, <1>2, <2>2, <2>5, <3>2, <3>3 DEF OneToken, Waking
  <2> QED BY <1>5, <2>3, <2>4, <2>5 DEF ContinueWork, Continues, streamVars, decVars
<1> QED BY <1>4, <1>5 DEF DecOther

\* The renderer reopens the engine of a decoder at rest, and then wakes it.
LEMMA TokenRen ==
    ASSUME PlayInv, VideoType, TokenInv, RenCommand \/ RenOther
    PROVE  TokenInv'
<1> SUFFICES ASSUME player'.straight PROVE OneToken'
  BY DEF TokenInv
<1> USE DEF PlayInv, VideoType
<1>1. /\ UNCHANGED player /\ pc'["dec"] = pc["dec"] /\ status'["dec"] = status["dec"]
      /\ mq'["dec"] = mq["dec"] \/ WakePost
      /\ resChange' = resChange \/ Reopen
  BY RenLeaves
<1>2. OneToken
  BY <1>1 DEF TokenInv
<1>3. CASE Reopen
  <2>1. /\ pc["ren"] = "reopen" /\ ~resChange' /\ mq' = mq /\ pc'["ren"] = "wakeCheck"
    BY <1>3 DEF Reopen, GoTo, ThreadsType, Comp
  <2> QED BY <1>1, <1>2, <2>1 DEF OneToken, Waking, DecAtRest
<1>4. CASE WakeCheck
  <2>1. /\ Waking /\ UNCHANGED <<resChange, mq>> /\ pc'["ren"] # "reopen"
    BY <1>4 DEF WakeCheck, Waking, RenSteps, decVars, GoTo, ThreadsType, Comp
  <2> QED BY <1>1, <1>2, <2>1 DEF OneToken, Waking, DecAtRest
<1>5. CASE WakePost
  <2> DEFINE q == mq["dec"]
  <2>1. /\ Waking /\ UNCHANGED resChange /\ pc'["ren"] = "check"
    BY <1>5 DEF WakePost, Waking, RenSteps, decVars, GoTo, ThreadsType, Comp
  <2>2. q \in Seq(Message) /\ mq'["dec"] = Append(q, "continue")
    BY <1>5, DecQueue DEF WakePost, PostMessage, Message
  <2>3. NoContinue(q) /\ pc["dec"] \in {"get", "gone"}
    BY <1>2, <2>1 DEF OneToken, DecAtRest
  <2> HIDE DEF q
  <2>4. OneContinue(mq'["dec"])
    BY <2>2, <2>3, ContinuesPosted DEF Message
  <2> QED BY <1>1, <1>2, <2>1, <2>3, <2>4 DEF OneToken, Waking
<1>6. CASE ~(Reopen \/ WakeCheck \/ WakePost)
  <2>1. ~Waking' /\ (pc'["ren"] = "reopen" => resChange)
    <3> USE DEF Waking, JustReply, ReplyThenContinue, GoTo, ThreadsType, Comp
    <3>1. CASE RenCommand
      BY <3>1 DEF RenCommand, RenStart, RenStop, RenPause, RenReset, RenQuit
    <3>2. CASE DoRender \/ SupplyBuffers \/ RequestPicture
      BY <3>2 DEF DoRender, SupplyBuffers, RequestPicture, AfterFlags
    <3>3. CASE WaitEnds \/ LookAgain \/ ShowPicture \/ ShowFails
      BY <3>3 DEF WaitEnds, LookAgain, ShowPicture, ShowFails
    <3>4. CASE ContinueWork("ren")
      BY <3>4 DEF ContinueWork, Continues, Looks, Posts, HandlerEnds
    <3> QED BY <1>6, <3>1, <3>2, <3>3, <3>4 DEF RenOther
  <2> QED BY <1>1, <1>2, <1>6, <2>1 DEF OneToken, DecAtRest, Waking
<1> QED BY <1>3, <1>4, <1>5, <1>6

-----------------------------------------------------------------------------
(* The theorems.                                                           *)

\* The end of a seek's list.
LEMMA SeekEnds == SubSeq(Plan("seek"), 6, 7) = RestartComps /\ SubSeq(Plan("seek"), 7, 7) = Tail(RestartComps)
<1> DEFINE p == Plan("seek")  t == SubSeq(p, 6, 7)
<1>1. p \in Seq(Step) /\ Len(p) = 7 /\ p[6] = Send("ren", "start") /\ p[7] = Send("dec", "start")
  BY PlanType, PlanSteps DEF PlanName
<1> HIDE DEF p
<1>2. /\ t \in Seq(Step) /\ Len(t) = 2 /\ t[1] = p[6] /\ t[2] = p[7]
      /\ Tail(t) = SubSeq(p, 7, 7)
  <2>1. \A i \in 6 .. 7 : p[i] \in Step
    <3>1. p[6] \in Step /\ p[7] \in Step
      BY <1>1 DEF Send, Step, Comp, Command
    <3>2. \A i \in 6 .. 7 : i = 6 \/ i = 7
      OBVIOUS
    <3> QED BY <3>1, <3>2
  <2>2. t \in Seq(Step) /\ Len(t) = 2 /\ \A i \in 1 .. 2 : t[i] = p[6 + i - 1]
    BY <2>1, SubSeqProperties
  <2>3. Tail(t) = SubSeq(p, 7, 7)
    BY <1>1, HeadTailOfSubSeq
  <2> QED BY <2>2, <2>3
<1>3. RestartComps \in Seq(Step) /\ Len(RestartComps) = 2
      /\ RestartComps[1] = Send("ren", "start") /\ RestartComps[2] = Send("dec", "start")
  BY DEF RestartComps, Send, Step, Comp, Command
<1> HIDE DEF t
<1>4. t = RestartComps
  BY <1>1, <1>2, <1>3, SeqEqual
<1> QED BY <1>2, <1>4 DEF p, t

LEMMA InvStep == VideoInv /\ [Next]_vars => VideoInv'
<1> SUFFICES ASSUME VideoInv, [Next]_vars PROVE VideoInv'
  OBVIOUS
<1>1. PlayInv /\ VideoType /\ InRow /\ WorkInv /\ ChainAlive /\ TokenInv
  BY DEF VideoInv
<1>2. PlayInv' /\ InRow'
  BY <1>1, RowStep
<1>3. VideoType'
  BY <1>1, TypeStep
<1>4. WorkInv'
  BY <1>1, RenderStep
<1>5. ChainAlive'
  BY <1>1, ChainStep
<1>6. TokenInv'
  BY <1>1, TokenPlayer, TokenCommand, TokenDec, TokenRen
     DEF Next, Calling, DecThread, RenThread, DecCommand, RenCommand, DecOther, RenOther, Cleared
<1> QED BY <1>2, <1>3, <1>4, <1>5, <1>6 DEF VideoInv

\* The exchange between the player and its components, the place of the command
\* in progress in its list, the states that go with it, and what keeps the two
\* threads going.
THEOREM ExchangeAlways == Spec => []VideoInv
BY AtFirst, InvStep, PTL DEF Spec

\* The variables have their types.
THEOREM Typed == Spec => []TypeOK
BY ExchangeAlways, TypeParts, PTL DEF VideoInv

\* A reply is posted once, to the command that waits for it, although the
\* handler of a stopped decoder posts the reply to a stop twice.
THEOREM RepliesMatch == Spec => []NoStrayReply
<1>1. VideoInv => NoStrayReply
  BY OneReplyAwaited DEF VideoInv
<1> QED BY <1>1, ExchangeAlways, PTL

\* No message is ever posted to a full queue, which would abort the program,
\* whatever the capacity is, from three on.
THEOREM RoomAlways == Spec => []PostNeverFull
<1>1. VideoInv => PostNeverFull
  BY RoomForPosts DEF VideoInv, PostNeverFull
<1> QED BY <1>1, ExchangeAlways, PTL

\* Between commands the two components are in the player's state, whatever
\* list of commands has led there.
THEOREM StatusAlways == Spec => []StatusAgrees
<1>1. VideoInv => StatusAgrees
  BY AgreedAtRest DEF VideoInv
<1> QED BY <1>1, ExchangeAlways, PTL

\* Between commands the timer runs just while a started player has shown its
\* second picture, over pauses and seeks.
THEOREM ClockAlways == Spec => []ClockAgrees
<1>1. VideoInv => ClockAgrees
  BY AgreedAtRest DEF VideoInv
<1> QED BY <1>1, ExchangeAlways, PTL

\* A thread with work to do never waits on an empty queue: the messages that
\* keep it going are not lost, whatever the two threads and the player do
\* between looking at a queue and posting to it.
THEOREM ChainAlways == Spec => []ChainAlive
<1>1. VideoInv => ChainAlive
  BY DEF VideoInv
<1> QED BY <1>1, ExchangeAlways, PTL

\* In a player that is only started, perhaps stopped, the engine is not reopened
\* while the decoder is inside it.
THEOREM ReopenAlways == Spec => []ReopenAlone
<1>1. VideoInv => ReopenAlone
  BY DEF VideoInv, TokenInv, OneToken, DecAtRest, ReopenAlone
<1> QED BY <1>1, ExchangeAlways, PTL

\* The renderer never calls into a decoder that is not started, but for the
\* end of a seek, which starts the renderer first.
THEOREM RenderAlways == Spec => []RenderRunsWithDecoder
<1>1. VideoInv => RenderRunsWithDecoder
  <2> SUFFICES ASSUME VideoInv, status["ren"] = "started", ~Restarting PROVE status["dec"] = "started"
    BY DEF RenderRunsWithDecoder
  <2>1. PICK s, k : Doing(s, k) /\ Row(s, k, Turn(k))
    BY DEF VideoInv, InRow
  <2> DEFINE e == Turn(k)
  <2>2. /\ s \in PlanName /\ k \in Nat \ {0} /\ Len(Plan(s)) = (IF s = "seek" THEN 7 ELSE 3)
        /\ e \in {k, k + 1} /\ player.status \in StatusIn(s, k)
        /\ player.todo = SubSeq(Plan(s), k, Len(Plan(s)))
    BY <2>1, NextStep DEF Doing, Turn
  <2>3. RenAt(s, e, player.status) = "started" /\ status["dec"] = DecAt(s, e, player.status)
    BY <2>1 DEF Row
  <2> HIDE DEF e
  <2>4. CASE s # "seek"
    BY <2>2, <2>3, <2>4 DEF RenAt, DecAt, StatusIn, PlanName
  <2>5. CASE s = "seek"
    <3>1. k \notin {6, 7}
      <4>1. ASSUME k = 6 PROVE FALSE
        <5>1. player.todo = RestartComps
          BY <2>2, <2>5, <4>1, SeekEnds
        <5> QED BY <5>1 DEF Restarting
      <4>2. ASSUME k = 7 PROVE FALSE
        <5>1. player.todo = Tail(RestartComps)
          BY <2>2, <2>5, <4>2, SeekEnds
        <5> QED BY <5>1 DEF Restarting
      <4> QED BY <4>1, <4>2
    <3>2. e = 1 \/ e > 7
      BY <2>2, <2>3, <2>5, <3>1 DEF RenAt
    <3> QED BY <2>2, <2>3, <2>5, <3>2 DEF DecAt
  <2> QED BY <2>4, <2>5
<1> QED BY <1>1, ExchangeAlways, PTL
=============================================================================
