------------------------ MODULE AudioPlaybackProofs ------------------------
(***************************************************************************)
(* Proofs about AudioPlayback, for every capacity of the queues, every     *)
(* number of rates and every room for PCM data: between commands the       *)
(* components are in the player's state, or the decoder's failure to start *)
(* is known; the sound device is opened, set and started in order; and, if *)
(* a player whose decoder did not start is not rewound, the renderer never *)
(* reaches into a decoder that is not there.                               *)
(*                                                                         *)
(* As for video, each place in a command's list says what the components   *)
(* are in; a decoder that failed to start is the exception that every      *)
(* place allows.                                                           *)
(***************************************************************************)
EXTENDS AudioPlayback, PlayerProofs

USE PcmAssumption, ResetAssumption

-----------------------------------------------------------------------------
(* The invariant.                                                          *)

AudioType ==
    /\ status \in [Comp -> Status]
    /\ crashed \in BOOLEAN /\ audioCrash \in BOOLEAN /\ firstSent \in BOOLEAN
    /\ rate \in 1 .. Rates

\* The decoder could not be started.
Failed == status["dec"] = "stopped" /\ decoder = "none"

\* The decoder's state when e is the step that is still to be carried out.
DecIn(s, e) ==
    \/ status["dec"] = DecAt(s, e, player.status)
    \/ /\ Failed
       /\ s \in {"seek", "rewind"} => ResetAfterFailure
       /\ (s = "start" /\ e > 1) \/ (s = "seek" /\ e > 7) => crashed
    \/ pc["dec"] = "init" /\ status["dec"] = "stopped" /\ (s = "start" \/ ResetAfterFailure)

\* Between the decoder's stop or reset and the player's own step, which forgets
\* a crash, the decoder alone has forgotten it.
Forgotten(s, k, e) ==
    \/ s = "stop" /\ e > 2 /\ ~(k > 3)
    \/ s = "seek" /\ e > 3 /\ ~(k > 5)
    \/ s = "rewind" /\ e > 1 /\ ~(k > 3)

CrashIn(s, k, e) == IF Forgotten(s, k, e) THEN ~crashed ELSE audioCrash = crashed

Row(s, k, e) ==
    /\ status["ren"] = RenAt(s, e, player.status)
    /\ DecIn(s, e)
    /\ CrashIn(s, k, e)

InRow == \E s, k : Doing(s, k) /\ Row(s, k, Turn(k))

\* The decoder is there while it is not stopped; it is created in a start.
DecoderInv ==
    /\ decoder = IF pc["dec"] = "init" THEN "created"
                 ELSE IF status["dec"] = "stopped" THEN "none" ELSE "ready"
    /\ pc["dec"] = "init" => /\ status["dec"] = "stopped"
                             /\ waiting /\ Head(player.todo) = Send("dec", "start")
    /\ pc["dec"] = "decode" => status["dec"] = "started"

Holding == {"rate", "start", "notify", "write"}
Rendering == {"format", "request", "ask"} \cup Holding

\* The renderer works in a player that runs, and the device goes with it.
DeviceInv ==
    /\ pc["ren"] \in Rendering => status["ren"] = "started"
    /\ pc["ren"] \in {"request", "ask"} \cup Holding => known # 0
    /\ pc["ren"] = "format" => ~firstSent
    /\ firstSent => known # 0
    /\ known # 0 => format = known
    /\ device # "stopped" => firstSent
    /\ status["ren"] # "started" => device # "started"
    /\ status["ren"] = "stopped" => device = "stopped"
    /\ status["ren"] = "started" /\ firstSent => device = "started" \/ refused

AudioInv == PlayInv /\ AudioType /\ InRow /\ DecoderInv /\ DeviceInv

\* What the renderer holds of the decoder's data is still there.
HeldInv ==
    /\ pcm \in Nat /\ chunk \in Nat /\ chunk <= pcm
    /\ chunk > 0 <=> pc["ren"] \in Holding
    /\ InsideDecoder => decoder = "ready"

LEMMA AtFirst == Init => AudioInv /\ HeldInv
<1> SUFFICES ASSUME Init PROVE AudioInv /\ HeldInv
  OBVIOUS
<1>1. PlayInv /\ Doing("stop", 4)
  BY FirstExchange, FirstDoing DEF Init
<1>2. ~Handled /\ player.status = "stopped" /\ pc["dec"] = "get" /\ pc["ren"] = "get"
      /\ status["ren"] = "stopped" /\ status["dec"] = "stopped" /\ status \in [Comp -> Status]
  BY DEF Init, PlayerInit, Handled, Comp, Status
<1>3. AudioType
  <2>1. rate \in 1 .. Rates
    BY DEF Init
  <2>2. crashed \in BOOLEAN /\ audioCrash \in BOOLEAN /\ firstSent \in BOOLEAN
    BY DEF Init
  <2> QED BY <1>2, <2>1, <2>2 DEF AudioType
<1>4. Row("stop", 4, 4)
  <2>1. 4 > 1 /\ 4 > 2 /\ 4 > 3
    OBVIOUS
  <2>2. RenAt("stop", 4, player.status) = "stopped" /\ DecAt("stop", 4, player.status) = "stopped"
    BY <2>1 DEF RenAt, DecAt
  <2>3. ~Forgotten("stop", 4, 4)
    BY <2>1 DEF Forgotten
  <2>4. audioCrash = crashed
    BY DEF Init
  <2> QED BY <1>2, <2>2, <2>3, <2>4 DEF Row, DecIn, CrashIn
<1>5. InRow
  BY <1>1, <1>2, <1>4 DEF InRow, Turn
<1>6. DecoderInv /\ DeviceInv /\ HeldInv
  BY <1>2 DEF Init, DecoderInv, DeviceInv, HeldInv, InsideDecoder, Rendering, Holding
<1> QED BY <1>1, <1>3, <1>5, <1>6 DEF AudioInv

-----------------------------------------------------------------------------
(* What the steps of the two threads are to the exchange.                  *)

RenCommand == RenStart \/ RenStop \/ RenPause \/ RenReset \/ RenQuit
RenOther ==
    \/ DoRender \/ InitSoundDevice \/ RequestPcmData \/ PlybkRequestPcmBuffer
    \/ CheckSampleRate \/ StartSoundDevice \/ NotifyAudioPts \/ Write \/ ContinueWork("ren")

DecCommand == DecResume \/ DecStop \/ DecPause \/ DecReset \/ DecQuit
DecOther == DoDecode \/ Decode \/ ContinueWork("dec")

LEMMA RenCommands ==
    /\ RenStart => Replied("ren", "start", "check")
    /\ RenStop => Replied("ren", "stop", "get")
    /\ RenPause => Replied("ren", "pause", "get")
    /\ RenReset => Replied("ren", "reset", "get") \/ Replied("ren", "reset", "check")
    /\ RenQuit => Replied("ren", "quit", "gone")
    /\ RenCommand => UNCHANGED playerVars
BY DEF RenCommand, RenStart, RenStop, RenPause, RenReset, RenQuit, Replied, JustReply,
       ReplyThenContinue, playerVars

\* The decoder's handlers; a start may begin now and be answered later.
LEMMA DecCommands ==
    /\ DecResume => Replied("dec", "start", "get") \/ Owes("dec", "start")
    /\ DecCreate => Begins("dec", "start") \/ Replied("dec", "start", "get")
    /\ DecInit => Completes("dec", "start")
    /\ DecStop => Replied("dec", "stop", "get")
    /\ DecPause => Replied("dec", "pause", "get")
    /\ DecReset => Replied("dec", "reset", "get") \/ Replied("dec", "reset", "check")
    /\ DecQuit => Replied("dec", "quit", "gone")
    /\ DecCommand \/ DecCreate \/ DecInit => UNCHANGED playerVars
BY DEF DecCommand, DecResume, DecCreate, DecInit, DecStop, DecPause, DecReset, DecQuit, Replied,
       Owes, Begins, Completes, JustReply, ReplyThenContinue, playerVars

LEMMA RenOthers ==
    ASSUME RenOther
    PROVE  OtherStep("ren") /\ UNCHANGED <<playerVars, status>>
<1>1. CASE DoRender
  <2>1. Took("ren", "get") \/ Took("ren", "format") \/ Took("ren", "request")
    BY <1>1 DEF DoRender, Took
  <2> QED BY <1>1, <2>1 DEF DoRender, OtherStep
<1>2. CASE InitSoundDevice \/ RequestPcmData \/ PlybkRequestPcmBuffer \/ CheckSampleRate
               \/ StartSoundDevice \/ NotifyAudioPts \/ Write
  <2>1. UNCHANGED <<playerVars, mq, owed, replies, status>>
    BY <1>2 DEF InitSoundDevice, RequestPcmData, PlybkRequestPcmBuffer, CheckSampleRate,
       StartSoundDevice, NotifyAudioPts, Write, WritePiece, WriteRefused, RenSteps
  <2>2. pc["ren"] \in {"format", "request", "ask", "rate", "start", "notify", "write"}
    BY <1>2 DEF InitSoundDevice, RequestPcmData, PlybkRequestPcmBuffer, CheckSampleRate,
       StartSoundDevice, NotifyAudioPts, Write, WritePiece, WriteRefused, RenSteps
  <2>3. GoTo("ren", "request") \/ GoTo("ren", "ask") \/ GoTo("ren", "get") \/ GoTo("ren", "rate")
        \/ GoTo("ren", "notify") \/ GoTo("ren", "start") \/ GoTo("ren", "write") \/ GoTo("ren", "check")
    BY <1>2 DEF InitSoundDevice, RequestPcmData, PlybkRequestPcmBuffer, CheckSampleRate,
       StartSoundDevice, NotifyAudioPts, Write, WritePiece, WriteRefused
  <2>4. \E at : Works("ren", at)
    BY <2>1, <2>2, <2>3 DEF Works
  <2> QED BY <2>1, <2>4 DEF OtherStep
<1>3. CASE ContinueWork("ren")
  BY <1>3 DEF ContinueWork, Continues, Looks, Posts, OtherStep
<1> QED BY <1>1, <1>2, <1>3 DEF RenOther

LEMMA DecOthers ==
    ASSUME DecOther
    PROVE  OtherStep("dec") /\ UNCHANGED <<playerVars, status, decoder>>
<1>1. CASE DoDecode
  <2>1. Took("dec", "get") \/ Took("dec", "decode") \/ Took("dec", "check")
    BY <1>1 DEF DoDecode, Took
  <2> QED BY <1>1, <2>1 DEF DoDecode, OtherStep, decVars
<1>2. CASE Decode
  <2>1. Works("dec", "get") \/ Works("dec", "check")
    BY <1>2 DEF Decode, Decodes, DecodesNothing, DecodeCrash, DecodeReturns, Works
  <2>2. UNCHANGED <<playerVars, status, decoder>>
    BY <1>2 DEF Decode, Decodes, DecodesNothing, DecodeCrash, DecodeReturns
  <2> QED BY <2>1, <2>2 DEF OtherStep
<1>3. CASE ContinueWork("dec")
  BY <1>3 DEF ContinueWork, Continues, Looks, Posts, OtherStep, decVars
<1> QED BY <1>1, <1>2, <1>3 DEF DecOther

\* What the steps of the decoder leave alone.
LEMMA DecLeaves ==
    ASSUME LoopType, AudioType, DecThread
    PROVE  /\ UNCHANGED <<renVars, player, waiting>>
           /\ pc'["ren"] = pc["ren"] /\ status'["ren"] = status["ren"]
<1> USE DEF LoopType, AudioType, Comp, playerVars
<1> USE DEF Handle, JustReply, ReplyThenContinue, ContinueThenReply, GoTo, SetStatus
<1>1. CASE DecResume \/ DecCreate \/ DecInit
  BY <1>1 DEF DecResume, DecCreate, DecInit
<1>2. CASE DecStop \/ DecPause \/ DecReset
  BY <1>2 DEF DecStop, DecPause, DecReset
<1>3. CASE DecQuit \/ DoDecode
  BY <1>3 DEF DecQuit, DoDecode
<1>4. CASE Decode
  BY <1>4 DEF Decode, Decodes, DecodesNothing, DecodeCrash, DecodeReturns
<1>5. CASE ContinueWork("dec")
  BY <1>5 DEF ContinueWork, Continues, Looks, Posts, HandlerEnds
<1> QED BY <1>1, <1>2, <1>3, <1>4, <1>5 DEF DecThread

\* And those of the renderer.
LEMMA RenLeaves ==
    ASSUME LoopType, AudioType, RenThread
    PROVE  /\ UNCHANGED <<decoder, rate, crashed, audioCrash, player, waiting>>
           /\ pc'["dec"] = pc["dec"] /\ status'["dec"] = status["dec"]
<1> USE DEF LoopType, AudioType, Comp, playerVars, decVars
<1> USE DEF Handle, JustReply, ReplyThenContinue, GoTo, SetStatus
<1>1. CASE RenStart \/ RenStop \/ RenQuit \/ DoRender
  BY <1>1 DEF RenStart, RenStop, RenQuit, DoRender
<1>2. CASE RenPause \/ RenReset
  BY <1>2 DEF RenPause, RenReset
<1>3. CASE InitSoundDevice \/ RequestPcmData \/ PlybkRequestPcmBuffer \/ CheckSampleRate \/ StartSoundDevice
  BY <1>3 DEF InitSoundDevice, RequestPcmData, PlybkRequestPcmBuffer, CheckSampleRate,
              StartSoundDevice, RenSteps
<1>4. CASE NotifyAudioPts \/ Write
  BY <1>4 DEF NotifyAudioPts, Write, WritePiece, WriteRefused, RenSteps
<1>5. CASE ContinueWork("ren")
  BY <1>5 DEF ContinueWork, Continues, Looks, Posts, HandlerEnds
<1> QED BY <1>1, <1>2, <1>3, <1>4, <1>5 DEF RenThread

-----------------------------------------------------------------------------
(* The row of the player's place in its list.                              *)

\* What the row says of the decoder, where the list says the same of it.
SameOfDec(s, k, e, k2, e2) ==
    /\ DecAt(s, e2, player.status) = DecAt(s, e, player.status)
    /\ (s = "start" /\ e2 > 1) => e > 1
    /\ (s = "seek" /\ e2 > 7) => e > 7
    /\ Forgotten(s, k2, e2) <=> Forgotten(s, k, e)

LEMMA DecKept ==
    ASSUME NEW s, NEW k, NEW e, NEW k2, NEW e2, DecIn(s, e), CrashIn(s, k, e),
           SameOfDec(s, k, e, k2, e2), UNCHANGED <<decoder, crashed, audioCrash>>,
           player'.status = player.status,
           pc'["dec"] = pc["dec"], status'["dec"] = status["dec"]
    PROVE  DecIn(s, e2)' /\ CrashIn(s, k2, e2)'
<1>1. DecIn(s, e2)'
  BY DEF DecIn, SameOfDec, Failed
<1>2. CrashIn(s, k2, e2)'
  BY DEF CrashIn, SameOfDec, Forgotten
<1> QED BY <1>1, <1>2

\* The handlers of the renderer's commands, of which the decoder knows nothing.
LEMMA RenRow ==
    ASSUME PlayInv, AudioType, RenCommand, NEW s, NEW k, Doing(s, k), Row(s, k, Turn(k))
    PROVE  PlayInv' /\ Doing(s, k)' /\ Row(s, k, Turn(k))'
<1>1. /\ UNCHANGED <<playerVars, player, decoder, crashed, audioCrash>>
      /\ status'["dec"] = status["dec"] /\ pc'["dec"] = pc["dec"]
      /\ player.status \in StatusIn(s, k)
  BY RenCommands, RenLeaves DEF PlayInv, Doing, RenThread, RenCommand
<1>2. status \in [Comp -> Status] /\ "ren" \in Comp
  BY DEF AudioType, Comp
<1>3. ASSUME NEW at, NEW m \in Command, Replied("ren", m, at)
      PROVE  /\ s \in PlanName /\ k \in 1 .. Len(Plan(s)) /\ Plan(s)[k] = Send("ren", m)
             /\ Turn(k) = k /\ Turn(k)' = k + 1 /\ PlayInv' /\ Doing(s, k)'
  BY <1>1, <1>2, <1>3, TakenTurn, CommandTurn DEF Replied
<1>4. ASSUME Turn(k)' = k + 1, Turn(k) = k, SameOfDec(s, k, k, k, k + 1),
             status'["ren"] = RenAt(s, k + 1, player.status)
      PROVE  Row(s, k, Turn(k))'
  BY <1>1, <1>4, DecKept DEF Row
<1>5. CASE RenStart
  <2>1. /\ (s = "start" /\ k = 2) \/ (s = "seek" /\ k = 6)
        /\ Turn(k) = k /\ Turn(k)' = k + 1 /\ PlayInv' /\ Doing(s, k)'
    BY <1>3, <1>5, RenCommands, Turns DEF Command
  <2>2. status'["ren"] = "started"
    BY <1>2, <1>5 DEF RenStart, SetStatus
  <2>3. SameOfDec(s, k, k, k, k + 1) /\ RenAt(s, k + 1, player.status) = "started"
    BY <2>1 DEF SameOfDec, DecAt, RenAt, Forgotten
  <2> QED BY <1>4, <2>1, <2>2, <2>3
<1>6. CASE RenStop
  <2>1. /\ s = "stop" /\ k = 1
        /\ Turn(k) = k /\ Turn(k)' = k + 1 /\ PlayInv' /\ Doing(s, k)'
    BY <1>3, <1>6, RenCommands, Turns DEF Command
  <2>2. status'["ren"] = "stopped"
    BY <1>2, <1>6 DEF RenStop, SetStatus
  <2>3. SameOfDec(s, k, k, k, k + 1) /\ RenAt(s, k + 1, player.status) = "stopped"
    BY <2>1 DEF SameOfDec, DecAt, RenAt, Forgotten
  <2> QED BY <1>4, <2>1, <2>2, <2>3
<1>7. CASE RenPause
  <2>1. /\ s \in {"pause", "seek"} /\ k = 1
        /\ Turn(k) = k /\ Turn(k)' = k + 1 /\ PlayInv' /\ Doing(s, k)'
    BY <1>3, <1>7, RenCommands, Turns DEF Command
  <2>2. status["ren"] = "started"
    BY <2>1 DEF Row, RenAt
  <2>3. status'["ren"] = "paused"
    BY <1>2, <1>7, <2>2 DEF RenPause, SetStatus
  <2>4. SameOfDec(s, k, k, k, k + 1) /\ RenAt(s, k + 1, player.status) = "paused"
    BY <2>1 DEF SameOfDec, DecAt, RenAt, Forgotten
  <2> QED BY <1>4, <2>1, <2>3, <2>4
<1>8. CASE RenReset
  <2>1. /\ (s = "seek" /\ k = 4) \/ (s = "rewind" /\ k = 2)
        /\ Turn(k) = k /\ Turn(k)' = k + 1 /\ PlayInv' /\ Doing(s, k)'
    BY <1>3, <1>8, RenCommands, Turns DEF Command
  <2>2. status' = status
    BY <1>8 DEF RenReset
  <2>3. SameOfDec(s, k, k, k, k + 1) /\ RenAt(s, k + 1, player.status) = RenAt(s, k, player.status)
    BY <2>1 DEF SameOfDec, DecAt, RenAt, Forgotten
  <2> QED BY <1>4, <2>1, <2>2, <2>3 DEF Row
<1>9. CASE RenQuit
  <2>1. /\ s = "clear" /\ k = 1
        /\ Turn(k) = k /\ Turn(k)' = k + 1 /\ PlayInv' /\ Doing(s, k)'
    BY <1>3, <1>9, RenCommands, Turns DEF Command
  <2>2. status'["ren"] = "stopped"
    BY <1>2, <1>9 DEF RenQuit, SetStatus
  <2>3. SameOfDec(s, k, k, k, k + 1) /\ RenAt(s, k + 1, player.status) = "stopped"
    BY <2>1 DEF SameOfDec, DecAt, RenAt, Forgotten
  <2> QED BY <1>4, <2>1, <2>2, <2>3
<1> QED BY <1>5, <1>6, <1>7, <1>8, <1>9 DEF RenCommand

\* The handlers of the decoder's commands.
LEMMA DecRow ==
    ASSUME PlayInv, AudioType, DecCommand, NEW s, NEW k, Doing(s, k), Row(s, k, Turn(k))
    PROVE  PlayInv' /\ Doing(s, k)' /\ Row(s, k, Turn(k))'
<1>1. /\ UNCHANGED <<playerVars, player>> /\ status'["ren"] = status["ren"]
      /\ player.status \in StatusIn(s, k)
  BY DecCommands, DecLeaves DEF PlayInv, Doing, DecThread, DecCommand
<1>2. status \in [Comp -> Status] /\ "dec" \in Comp
  BY DEF AudioType, Comp
<1>3. ASSUME NEW at, NEW m \in Command, Replied("dec", m, at) \/ Owes("dec", m)
      PROVE  /\ s \in PlanName /\ k \in 1 .. Len(Plan(s)) /\ Plan(s)[k] = Send("dec", m)
             /\ Turn(k) = k /\ Turn(k)' = k + 1 /\ PlayInv' /\ Doing(s, k)'
  BY <1>1, <1>2, <1>3, TakenTurn, CommandTurn DEF Replied, Owes
<1>4. ASSUME Turn(k) = k, Turn(k)' = k + 1, DecIn(s, k + 1)', CrashIn(s, k, k + 1)',
             RenAt(s, k + 1, player.status) = RenAt(s, k, player.status)
      PROVE  Row(s, k, Turn(k))'
  BY <1>1, <1>4 DEF Row
<1>5. CASE DecResume
  <2>1. /\ (s = "start" /\ k = 1) \/ (s = "seek" /\ k = 7)
        /\ Turn(k) = k /\ Turn(k)' = k + 1 /\ PlayInv' /\ Doing(s, k)'
    BY <1>3, <1>5, DecCommands, Turns DEF Command
  <2>2. status'["dec"] = "started" /\ UNCHANGED <<crashed, audioCrash>>
    BY <1>2, <1>5 DEF DecResume, SetStatus, decVars
  <2>3. /\ DecAt(s, k + 1, player.status) = "started"
        /\ RenAt(s, k + 1, player.status) = RenAt(s, k, player.status)
        /\ ~Forgotten(s, k, k) /\ ~Forgotten(s, k, k + 1)
    BY <2>1 DEF DecAt, RenAt, Forgotten
  <2>4. DecIn(s, k + 1)' /\ CrashIn(s, k, k + 1)'
    BY <1>1, <2>1, <2>2, <2>3 DEF Row, DecIn, CrashIn, Forgotten
  <2> QED BY <1>4, <2>1, <2>3, <2>4
<1>6. CASE DecStop
  <2>1. /\ s = "stop" /\ k = 2
        /\ Turn(k) = k /\ Turn(k)' = k + 1 /\ PlayInv' /\ Doing(s, k)'
    BY <1>3, <1>6, DecCommands, Turns DEF Command
  <2>2. status'["dec"] = "stopped" /\ crashed' = FALSE
    BY <1>2, <1>6 DEF DecStop, SetStatus
  <2>3. /\ DecAt(s, k + 1, player.status) = "stopped"
        /\ RenAt(s, k + 1, player.status) = RenAt(s, k, player.status)
        /\ Forgotten(s, k, k + 1)
    BY <2>1 DEF DecAt, RenAt, Forgotten
  <2>4. DecIn(s, k + 1)' /\ CrashIn(s, k, k + 1)'
    BY <1>1, <2>2, <2>3 DEF DecIn, CrashIn, Forgotten
  <2> QED BY <1>4, <2>1, <2>3, <2>4
<1>7. CASE DecPause
  <2>1. /\ s \in {"pause", "seek"} /\ k = 2
        /\ Turn(k) = k /\ Turn(k)' = k + 1 /\ PlayInv' /\ Doing(s, k)'
    BY <1>3, <1>7, DecCommands, Turns DEF Command
  <2>2. /\ status'["dec"] = IF status["dec"] = "started" THEN "paused" ELSE status["dec"]
        /\ UNCHANGED <<decoder, crashed, audioCrash>> /\ pc["dec"] = "get"
    BY <1>2, <1>7 DEF DecPause, SetStatus, decVars, Handle
  <2>3. /\ DecAt(s, k, player.status) = "started" /\ DecAt(s, k + 1, player.status) = "paused"
        /\ RenAt(s, k + 1, player.status) = RenAt(s, k, player.status)
        /\ ~Forgotten(s, k, k) /\ ~Forgotten(s, k, k + 1) /\ ~(k + 1 > 7) /\ s # "start"
    BY <2>1 DEF DecAt, RenAt, Forgotten
  <2>4. DecIn(s, k + 1)'
    BY <1>1, <2>1, <2>2, <2>3 DEF Row, DecIn, Failed
  <2>5. CrashIn(s, k, k + 1)'
    BY <2>1, <2>2, <2>3 DEF Row, CrashIn, Forgotten
  <2> QED BY <1>4, <2>1, <2>3, <2>4, <2>5
<1>8. CASE DecReset
  <2>1. /\ (s = "seek" /\ k = 3) \/ (s = "rewind" /\ k = 1)
        /\ Turn(k) = k /\ Turn(k)' = k + 1 /\ PlayInv' /\ Doing(s, k)'
    BY <1>3, <1>8, DecCommands, Turns DEF Command
  <2>2. UNCHANGED <<status, decoder>> /\ crashed' = FALSE /\ pc["dec"] = "get"
    BY <1>8 DEF DecReset, Handle
  <2>3. /\ DecAt(s, k + 1, player.status) = DecAt(s, k, player.status)
        /\ RenAt(s, k + 1, player.status) = RenAt(s, k, player.status)
        /\ Forgotten(s, k, k + 1) /\ ~(k + 1 > 7) /\ s # "start"
    BY <2>1 DEF DecAt, RenAt, Forgotten
  <2>4. DecIn(s, k + 1)'
    BY <1>1, <2>1, <2>2, <2>3 DEF Row, DecIn, Failed
  <2>5. CrashIn(s, k, k + 1)'
    BY <2>2, <2>3 DEF CrashIn, Forgotten
  <2> QED BY <1>4, <2>1, <2>3, <2>4, <2>5
<1>9. CASE DecQuit
  <2>1. /\ s = "clear" /\ k = 2
        /\ Turn(k) = k /\ Turn(k)' = k + 1 /\ PlayInv' /\ Doing(s, k)'
    BY <1>3, <1>9, DecCommands, Turns DEF Command
  <2>2. status'["dec"] = "stopped" /\ UNCHANGED <<crashed, audioCrash>>
    BY <1>2, <1>9 DEF DecQuit, SetStatus
  <2>3. /\ DecAt(s, k + 1, player.status) = "stopped"
        /\ RenAt(s, k + 1, player.status) = RenAt(s, k, player.status)
        /\ ~Forgotten(s, k, k) /\ ~Forgotten(s, k, k + 1)
    BY <2>1 DEF DecAt, RenAt, Forgotten
  <2>4. DecIn(s, k + 1)' /\ CrashIn(s, k, k + 1)'
    BY <1>1, <2>1, <2>2, <2>3 DEF Row, DecIn, CrashIn, Forgotten
  <2> QED BY <1>4, <2>1, <2>3, <2>4
<1> QED BY <1>5, <1>6, <1>7, <1>8, <1>9 DEF DecCommand

\* The decoder is created in a start, or in a seek once it has failed to.
LEMMA CreateRow ==
    ASSUME PlayInv, AudioType, DecCreate, NEW s, NEW k, Doing(s, k), Row(s, k, Turn(k))
    PROVE  PlayInv' /\ Doing(s, k)' /\ Row(s, k, Turn(k))'
<1>1. /\ UNCHANGED <<playerVars, player>> /\ status' = status /\ status["dec"] = "stopped"
      /\ player.status \in StatusIn(s, k) /\ Handle("dec", "start")
  BY DEF DecCreate, playerVars, Doing
<1>2. /\ (s = "start" /\ k = 1) \/ (s = "seek" /\ k = 7)
      /\ Turn(k) = k /\ "dec" \in Comp /\ "start" \in Command
  BY <1>1, TakenTurn, Turns DEF Command, Comp
<1>3. s = "start" \/ ResetAfterFailure
  <2>1. s = "seek" => DecAt(s, k, player.status) = "paused"
    BY <1>2 DEF DecAt
  <2>2. DecIn(s, k)
    BY <1>2 DEF Row
  <2> QED BY <1>1, <1>2, <2>1, <2>2 DEF DecIn
<1>4. ~Forgotten(s, k, k) /\ ~Forgotten(s, k, k + 1)
      /\ RenAt(s, k + 1, player.status) = RenAt(s, k, player.status)
  BY <1>2 DEF Forgotten, RenAt
<1>5. CASE Begins("dec", "start") /\ UNCHANGED <<crashed, audioCrash>>
  <2>1. PlayInv' /\ Turn(k)' = k /\ Doing(s, k)'
    BY <1>1, <1>2, <1>5, BeginStep, SameDoing DEF Turn
  <2>2. pc'["dec"] = "init"
    BY <1>2, <1>5, PlaceType DEF Begins, PlayInv
  <2>3. DecIn(s, k)'
    BY <1>1, <1>3, <2>2 DEF DecIn
  <2>4. CrashIn(s, k, k)'
    BY <1>2, <1>4, <1>5 DEF Row, CrashIn, Forgotten
  <2> QED BY <1>1, <1>2, <2>1, <2>3, <2>4 DEF Row
<1>6. CASE Replied("dec", "start", "get") /\ decoder' = "none" /\ CrashNotified
  <2>1. PlayInv' /\ Turn(k)' = k + 1 /\ Doing(s, k)'
    BY <1>1, <1>2, <1>6, CommandTurn
  <2>2. DecIn(s, k + 1)'
    BY <1>1, <1>2, <1>3, <1>6 DEF DecIn, Failed, CrashNotified
  <2>3. CrashIn(s, k, k + 1)'
    BY <1>4, <1>6 DEF CrashIn, Forgotten, CrashNotified
  <2> QED BY <1>1, <1>2, <1>4, <2>1, <2>2, <2>3 DEF Row
<1> QED BY <1>5, <1>6 DEF DecCreate, Begins, Replied, JustReply

LEMMA InitRow ==
    ASSUME PlayInv, AudioType, DecoderInv, DecInit, NEW s, NEW k, Doing(s, k), Row(s, k, Turn(k))
    PROVE  PlayInv' /\ Doing(s, k)' /\ Row(s, k, Turn(k))'
<1>1. /\ UNCHANGED <<playerVars, player>> /\ pc["dec"] = "init" /\ status["dec"] = "stopped"
      /\ waiting /\ Head(player.todo) = Send("dec", "start") /\ decoder = "created"
      /\ Completes("dec", "start")
  BY DecCommands DEF DecInit, playerVars, DecoderInv
<1>2. AwaitedOf("dec") = "start" /\ "dec" \in Comp /\ "start" \in Command
  BY <1>1 DEF AwaitedOf, Send, Comp, Command
<1>3. /\ PlayInv' /\ Doing(s, k)' /\ Turn(k) = k /\ Turn(k)' = k + 1
      /\ s \in PlanName /\ k \in 1 .. Len(Plan(s)) /\ Plan(s)[k] = Send("dec", "start")
  <2>1. PlayInv' /\ ~Handled /\ Handled' /\ player.todo # <<>>
    BY <1>1, <1>2, CompleteStep
  <2> QED BY <1>1, <2>1, SameDoing, NextStep DEF Turn, Idle
<1>4. (s = "start" /\ k = 1) \/ (s = "seek" /\ k = 7)
  BY <1>3, Turns
<1>5. s = "start" \/ ResetAfterFailure
  <2>1. s = "seek" => DecAt(s, k, player.status) = "paused"
    BY <1>4 DEF DecAt
  <2>2. DecIn(s, k)
    BY <1>3 DEF Row
  <2> QED BY <1>1, <1>4, <2>1, <2>2 DEF DecIn
<1>6. /\ ~Forgotten(s, k, k) /\ ~Forgotten(s, k, k + 1)
      /\ RenAt(s, k + 1, player.status) = RenAt(s, k, player.status)
      /\ DecAt(s, k + 1, player.status) = "started"
  BY <1>4 DEF Forgotten, RenAt, DecAt
<1>7. status'["ren"] = status["ren"]
  BY DecLeaves DEF PlayInv, DecThread
<1>8. CASE SetStatus("dec", "started") /\ UNCHANGED <<crashed, audioCrash>>
  <2>1. status'["dec"] = "started"
    BY <1>2, <1>8 DEF SetStatus, AudioType
  <2>2. DecIn(s, k + 1)'
    BY <1>1, <1>6, <2>1 DEF DecIn
  <2>3. CrashIn(s, k, k + 1)'
    BY <1>3, <1>6, <1>8 DEF Row, CrashIn, Forgotten
  <2> QED BY <1>1, <1>3, <1>6, <1>7, <2>2, <2>3 DEF Row
<1>9. CASE decoder' = "none" /\ CrashNotified /\ UNCHANGED status
  <2>1. DecIn(s, k + 1)'
    BY <1>1, <1>4, <1>5, <1>9 DEF DecIn, Failed, CrashNotified
  <2>2. CrashIn(s, k, k + 1)'
    BY <1>6, <1>9 DEF CrashIn, Forgotten, CrashNotified
  <2> QED BY <1>1, <1>3, <1>6, <1>7, <2>1, <2>2 DEF Row
<1> QED BY <1>8, <1>9 DEF DecInit

\* The other steps of the two threads: a decoder that crashes runs.
LEMMA OtherRow ==
    ASSUME PlayInv, AudioType, DecoderInv, RenOther \/ DecOther, NEW s, NEW k, Doing(s, k),
           Row(s, k, Turn(k))
    PROVE  PlayInv' /\ Doing(s, k)' /\ Row(s, k, Turn(k))'
<1> DEFINE e == Turn(k)
<1>1. /\ OtherStep("ren") \/ OtherStep("dec")
      /\ UNCHANGED <<playerVars, player, status, decoder>>
  BY RenOthers, DecOthers, RenLeaves DEF playerVars, PlayInv, RenThread, RenOther
<1>2. PlayInv' /\ Doing(s, k)' /\ Turn(k)' = e /\ e' = e
  BY <1>1, OtherTurn DEF Comp
<1>3. pc'["dec"] = "init" <=> pc["dec"] = "init"
  <2>1. GoesOn
    BY <1>1, ContinueStep, WorkStep, LoopStep, WakeStep DEF OtherStep, Wakes, Comp
  <2> QED BY <2>1 DEF GoesOn, Comp
<1>4. UNCHANGED <<crashed, audioCrash>> \/ DecodeCrash
  <2>1. RenOther => UNCHANGED <<crashed, audioCrash>>
    BY RenLeaves DEF PlayInv, RenThread, RenOther
  <2>2. DecOther => UNCHANGED <<crashed, audioCrash>> \/ DecodeCrash
    BY DEF DecOther, DoDecode, Decode, Decodes, DecodesNothing, ContinueWork, decVars
  <2> QED BY <2>1, <2>2
<1>5. status["ren"] = RenAt(s, e, player.status) /\ DecIn(s, e) /\ CrashIn(s, k, e)
  BY DEF Row
<1> HIDE DEF e
<1>6. CASE UNCHANGED <<crashed, audioCrash>>
  <2>1. DecIn(s, e)' /\ CrashIn(s, k, e)'
    BY <1>1, <1>2, <1>3, <1>5, <1>6 DEF DecIn, Failed, CrashIn, Forgotten
  <2> QED BY <1>1, <1>2, <1>5, <2>1 DEF Row
<1>7. CASE DecodeCrash
  <2>1. status["dec"] = "started" /\ crashed' = TRUE /\ audioCrash' = TRUE
    BY <1>7 DEF DecodeCrash, DecodeReturns, CrashNotified, DecoderInv
  <2>2. status["dec"] = DecAt(s, e, player.status)
    BY <1>5, <2>1 DEF DecIn, Failed
  <2>3. e \in {k, k + 1} /\ k \in Nat \ {0} /\ player.status \in StatusIn(s, k)
    BY NextStep DEF Doing, Turn, e
  <2>4. ~Forgotten(s, k, e)
    <3>1. s = "stop" /\ e > 2 => DecAt(s, e, player.status) = "stopped"
      BY DEF DecAt
    <3>2. s = "seek" /\ e > 3 /\ ~(k > 5) => DecAt(s, e, player.status) = "paused"
      <4>1. e > 3 /\ ~(k > 5) => e \in 3 .. 7
        BY <2>3
      <4> QED BY <4>1 DEF DecAt
    <3>3. s = "rewind" => DecAt(s, e, player.status) = "paused"
      BY DEF DecAt
    <3> QED BY <2>1, <2>2, <3>1, <3>2, <3>3 DEF Forgotten
  <2>5. DecIn(s, e)' /\ CrashIn(s, k, e)'
    BY <1>1, <1>2, <2>1, <2>2, <2>4 DEF DecIn, CrashIn, Forgotten
  <2> QED BY <1>1, <1>2, <1>5, <2>5 DEF Row
<1> QED BY <1>4, <1>6, <1>7

Calling == Start \/ Stop \/ Pause \/ Reset \/ Clear

\* Between commands the components are in the player's state.
LEMMA AgreedAtRest ==
    ASSUME PlayInv, AudioType, InRow, DecoderInv
    PROVE  /\ StatusAgrees
           /\ Idle => status["dec"] = status["ren"] \/ Failed
<1> SUFFICES ASSUME Idle
             PROVE  StatusAgrees /\ (status["dec"] = status["ren"] \/ Failed)
  BY DEF StatusAgrees
<1>1. PICK s, k : Doing(s, k) /\ Row(s, k, Turn(k))
  BY DEF InRow
<1>2. /\ Turn(k) = k /\ s \in PlanName /\ k = (IF s = "seek" THEN 8 ELSE 4)
      /\ player.status \in StatusIn(s, k)
      /\ RenAt(s, k, player.status) = IF player.status = "cleared" THEN "stopped" ELSE player.status
      /\ DecAt(s, k, player.status) = RenAt(s, k, player.status)
  BY <1>1, AtRestHandled, AtTheEnd DEF Doing
<1>3. status["ren"] = RenAt(s, k, player.status) /\ DecIn(s, k) /\ CrashIn(s, k, k)
  BY <1>1, <1>2 DEF Row
<1>4. pc["dec"] # "init"
  BY AtRestHandled DEF DecoderInv
<1>5. ~Forgotten(s, k, k)
  <2>1. k > 3 /\ (s = "seek" => k > 5)
    BY <1>2
  <2> QED BY <2>1 DEF Forgotten
<1>6. player.status = "started" => s \in {"start", "seek"}
  <2>1. s # "seek" => k > 3
    BY <1>2
  <2> QED BY <1>2, <2>1 DEF StatusIn, PlanName
<1>7. status["dec"] = status["ren"] \/ (Failed /\ (s \in {"start", "seek"} => crashed))
  <2>1. s = "start" => k > 1
    BY <1>2
  <2>2. s = "seek" => k > 7
    BY <1>2
  <2> QED BY <1>2, <1>3, <1>4, <2>1, <2>2 DEF DecIn
<1>8. audioCrash = crashed
  BY <1>3, <1>5 DEF CrashIn
<1> QED BY <1>2, <1>3, <1>6, <1>7, <1>8 DEF StatusAgrees, Failed

\* A call begins its list; a player whose decoder failed is rewound only if it
\* may be.
BeginsList(cmd, s) ==
    /\ Call(cmd, Plan(s)) /\ player.status \in StatusIn(s, 1)
    /\ UNCHANGED <<decVars, renVars>>
    /\ s \in {"seek", "rewind"} => ResetAfterFailure \/ decoder = "ready"

LEMMA CallRow ==
    ASSUME PlayInv, AudioType, InRow, DecoderInv, Calling
    PROVE  PlayInv' /\ InRow' /\ Idle /\ UNCHANGED <<threads, status, decVars, renVars>>
<1>1. \/ BeginsList("start", "start") \/ BeginsList("stop", "stop") \/ BeginsList("pause", "pause")
      \/ BeginsList("reset", "seek") \/ BeginsList("reset", "rewind") \/ BeginsList("clear", "clear")
  <2>1. Start => BeginsList("start", "start")
    BY Calls DEF Start, BeginsList
  <2>2. Stop => BeginsList("stop", "stop")
    BY Calls DEF Stop, BeginsList
  <2>3. Pause => BeginsList("pause", "pause")
    BY Calls DEF Pause, BeginsList
  <2>4. Reset => BeginsList("reset", "seek") \/ BeginsList("reset", "rewind")
    BY Calls DEF Reset, BeginsList
  <2>5. Clear => BeginsList("clear", "clear")
    BY Calls DEF Clear, BeginsList
  <2> QED BY <2>1, <2>2, <2>3, <2>4, <2>5 DEF Calling
<1>2. PICK cmd \in PlanName \cup {"reset"}, s \in PlanName : BeginsList(cmd, s)
  BY <1>1 DEF PlanName
<1>3. /\ PlayInv' /\ Doing(s, 1)' /\ Idle /\ Turn(1)' = 1
      /\ player'.status = player.status /\ UNCHANGED <<threads, status>>
  BY <1>2, CallStep DEF Turn, BeginsList
<1>4. UNCHANGED <<decoder, crashed, audioCrash>>
  BY <1>2 DEF decVars, BeginsList
<1>5. /\ status["ren"] = IF player.status = "cleared" THEN "stopped" ELSE player.status
      /\ status["dec"] = status["ren"] \/ Failed
      /\ audioCrash = crashed
  BY <1>3, AgreedAtRest DEF StatusAgrees
<1>6. ~(1 > 2) /\ ~(1 > 3) /\ ~(1 > 1) /\ ~(1 > 7) /\ 1 \notin 2 .. 6 /\ 1 \notin 3 .. 7
  OBVIOUS
<1>7. /\ RenAt(s, 1, player.status) = status["ren"] /\ DecAt(s, 1, player.status) = status["ren"]
      /\ ~Forgotten(s, 1, 1)
  BY <1>2, <1>5, <1>6 DEF RenAt, DecAt, StatusIn, PlanName, BeginsList, Forgotten
<1>8. status'["ren"] = RenAt(s, 1, player'.status)
  BY <1>3, <1>7
<1>9. DecIn(s, 1)'
  <2>1. CASE status["dec"] = status["ren"]
    BY <1>3, <1>7, <2>1 DEF DecIn
  <2>2. CASE Failed
    <3>1. decoder # "ready"
      BY <2>2 DEF Failed
    <3>2. s \in {"seek", "rewind"} => ResetAfterFailure
      BY <1>2, <3>1 DEF BeginsList
    <3> QED BY <1>3, <1>4, <1>6, <2>2, <3>2 DEF DecIn, Failed
  <2> QED BY <1>5, <2>1, <2>2
<1>10. CrashIn(s, 1, 1)'
  BY <1>4, <1>5, <1>7 DEF CrashIn, Forgotten
<1>11. Row(s, 1, Turn(1))'
  BY <1>3, <1>8, <1>9, <1>10 DEF Row
<1> QED BY <1>2, <1>3, <1>11 DEF InRow, BeginsList

\* The rows of a list, before and after a reply is taken.
LEMMA WaitsRow ==
    ASSUME PlayInv, AudioType, InRow, PlayerWaits
    PROVE  PlayInv' /\ InRow'
<1>1. PICK s, k : Doing(s, k) /\ Row(s, k, Turn(k))
  BY DEF InRow
<1>2. UNCHANGED <<decoder, crashed, audioCrash>>
  BY DEF PlayerWaits, decVars
<1>3. CASE PlayerPosts
  <2>1. PlayInv' /\ Doing(s, k)' /\ Turn(k)' = Turn(k) /\ UNCHANGED <<player, status, pc>>
    BY <1>1, <1>3, PostStep DEF Turn
  <2>2. DecIn(s, Turn(k))' /\ CrashIn(s, k, Turn(k))'
    BY <1>1, <1>2, <2>1 DEF Row, DecIn, Failed, CrashIn, Forgotten
  <2>3. Row(s, k, Turn(k))'
    BY <1>1, <2>1, <2>2 DEF Row
  <2> QED BY <2>1, <2>3 DEF InRow
<1>4. CASE PlayerResumes
  <2>1. /\ PlayInv' /\ Doing(s, k + 1)' /\ Turn(k) = k + 1 /\ Turn(k + 1)' = k + 1
        /\ player'.status = player.status /\ UNCHANGED <<status, pc>>
        /\ k \in 1 .. Len(Plan(s)) /\ Plan(s)[k] = Head(player.todo)
        /\ Handled /\ s \in PlanName
    BY <1>1, <1>4, ResumeStep DEF Turn, Doing
  <2>2. Plan(s)[k].to \in Comp
    BY <2>1, HeadStep DEF PlayInv, Handled, PlayerType
  <2>3. k \in Nat /\ (IF s = "seek" THEN k # 5 ELSE k # 3)
    <3>1. k \in Nat /\ (k = 3 => s = "seek") /\ (s = "seek" => k # 5)
      BY <2>1, <2>2, PlanSteps DEF Own, Comp, PlanName
    <3> QED BY <3>1
  <2>4. (k > 5 <=> k + 1 > 5) \/ s # "seek"
    BY <2>3
  <2>5. (k > 3 <=> k + 1 > 3) \/ s = "seek"
    BY <2>3
  <2>6. SameOfDec(s, k, k + 1, k + 1, k + 1)
    BY <2>4, <2>5 DEF SameOfDec, Forgotten
  <2>7. status["ren"] = RenAt(s, k + 1, player.status) /\ DecIn(s, k + 1) /\ CrashIn(s, k, k + 1)
    BY <1>1, <2>1 DEF Row
  <2>8. DecIn(s, k + 1)' /\ CrashIn(s, k + 1, k + 1)'
    <3> DEFINE e == k + 1
    <3>1. DecIn(s, e) /\ CrashIn(s, k, e) /\ SameOfDec(s, k, e, e, e)
      BY <2>6, <2>7
    <3> HIDE DEF e
    <3>2. DecIn(s, e)' /\ CrashIn(s, e, e)'
      BY <1>2, <2>1, <3>1, DecKept
    <3> QED BY <3>2 DEF e
  <2>9. Row(s, k + 1, k + 1)'
    BY <2>1, <2>7, <2>8 DEF Row
  <2> QED BY <2>1, <2>9 DEF InRow
<1> QED BY <1>3, <1>4 DEF PlayerWaits

\* What the player does itself: a stop or a rewind forgets the crash as well.
LEMMA ActsRow ==
    ASSUME PlayInv, AudioType, InRow, PlayerActs
    PROVE  /\ PlayInv' /\ InRow'
           /\ UNCHANGED <<waiting, threads, status, decoder, pcm, rate, crashed, renVars>>
<1>1. PICK s, k : Doing(s, k) /\ Row(s, k, Turn(k))
  BY DEF InRow
<1>2. PICK what \in OwnSteps :
          /\ PlayerDoes(what)
          /\ audioCrash' = (audioCrash /\ what \notin {"rewound", "stopped"})
          /\ UNCHANGED <<decoder, pcm, rate, crashed, renVars>>
  BY DEF PlayerActs
<1>3. /\ PlayInv' /\ Doing(s, k + 1)' /\ Turn(k) = k /\ Turn(k + 1)' = k + 1
      /\ player'.status = (IF what = "rewound" THEN player.status ELSE what)
      /\ UNCHANGED <<waiting, threads, status>>
      /\ s \in PlanName /\ k \in 1 .. Len(Plan(s)) /\ Plan(s)[k] = Own(what)
      /\ player.status \in StatusIn(s, k)
  BY <1>1, <1>2, DoesStep DEF Turn, Doing
<1>4. \/ s = "start" /\ k = 3 /\ what = "started"
      \/ s = "stop" /\ k = 3 /\ what = "stopped"
      \/ s = "pause" /\ k = 3 /\ what = "paused"
      \/ s = "seek" /\ k = 5 /\ what = "rewound"
      \/ s = "rewind" /\ k = 3 /\ what = "rewound"
      \/ s = "clear" /\ k = 3 /\ what = "cleared"
  BY <1>3, Turns
<1>5. status["ren"] = RenAt(s, k, player.status) /\ DecIn(s, k) /\ CrashIn(s, k, k)
  BY <1>1, <1>3 DEF Row
<1>6. status'["ren"] = RenAt(s, k + 1, player'.status)
  BY <1>3, <1>4, <1>5 DEF RenAt, StatusIn
<1>7. DecIn(s, k + 1)'
  <2>1. DecAt(s, k + 1, player'.status) = DecAt(s, k, player.status)
    BY <1>3, <1>4 DEF DecAt, StatusIn
  <2>2. ((s = "start" /\ k + 1 > 1) => k > 1) /\ ~(s = "seek" /\ k + 1 > 7)
    BY <1>4
  <2> QED BY <1>2, <1>3, <1>5, <2>1, <2>2 DEF DecIn, Failed, threads
<1>8. CrashIn(s, k + 1, k + 1)'
  <2>1. ~Forgotten(s, k + 1, k + 1)
    BY <1>4 DEF Forgotten
  <2>2. Forgotten(s, k, k) <=> what \in {"rewound", "stopped"}
    BY <1>4 DEF Forgotten
  <2>3. crashed \in BOOLEAN /\ audioCrash \in BOOLEAN
    BY DEF AudioType
  <2>4. audioCrash' = crashed'
    <3>1. CASE what \in {"rewound", "stopped"}
      <4>1. crashed = FALSE
        BY <1>5, <2>2, <2>3, <3>1 DEF CrashIn
      <4>2. audioCrash' = FALSE
        BY <1>2, <3>1
      <4> QED BY <1>2, <4>1, <4>2
    <3>2. CASE what \notin {"rewound", "stopped"}
      <4>1. audioCrash = crashed
        BY <1>5, <2>2, <3>2 DEF CrashIn
      <4>2. audioCrash' = audioCrash
        BY <1>2, <2>3, <3>2
      <4> QED BY <1>2, <4>1, <4>2
    <3> QED BY <3>1, <3>2
  <2> QED BY <2>1, <2>4 DEF CrashIn, Forgotten
<1>9. Row(s, k + 1, k + 1)'
  BY <1>6, <1>7, <1>8 DEF Row
<1> QED BY <1>2, <1>3, <1>9 DEF InRow

\* Every step.
LEMMA RowStep ==
    ASSUME PlayInv, AudioType, InRow, DecoderInv, [Next]_vars
    PROVE  PlayInv' /\ InRow'
<1>1. PICK s, k : Doing(s, k) /\ Row(s, k, Turn(k))
  BY DEF InRow
<1>2. CASE DecThread \/ RenThread
  <2>1. PlayInv' /\ Doing(s, k)' /\ Row(s, k, Turn(k))'
    BY <1>1, <1>2, DecRow, CreateRow, InitRow, RenRow, OtherRow
       DEF DecThread, RenThread, DecCommand, RenCommand, DecOther, RenOther
  <2> QED BY <2>1 DEF InRow
<1>3. CASE PlayerStep
  BY <1>3, WaitsRow, ActsRow DEF PlayerStep
<1>4. CASE UNCHANGED vars
  <2>1. PlayInv' /\ Doing(s, k)' /\ Turn(k)' = Turn(k)
    BY <1>1, <1>4 DEF vars, playerVars, threads, PlayInv, PlayerType, LoopType, ExchangeWith,
       AwaitedOf, Posting, Doing, Turn, Handled
  <2>2. Row(s, k, Turn(k))'
    BY <1>1, <1>4, <2>1 DEF vars, playerVars, threads, decVars, Row, DecIn, Failed, CrashIn, Forgotten
  <2> QED BY <2>1, <2>2 DEF InRow
<1> QED BY <1>2, <1>3, <1>4, CallRow DEF Next, Calling, Cleared


-----------------------------------------------------------------------------
(* Types, the decoder and the device.                                      *)

\* What the player leaves alone, and what a decoder that is being created
\* tells of it.
PlayerMoves == Calling \/ PlayerStep \/ Cleared \/ UNCHANGED vars

LEMMA PlayerLeaves ==
    ASSUME PlayInv, AudioType, InRow, DecoderInv, PlayerMoves
    PROVE  /\ UNCHANGED <<pc, status, decoder, pcm, rate, crashed, renVars>> /\ audioCrash' \in BOOLEAN
           /\ pc["dec"] = "init" => waiting' /\ Head(player'.todo) = Head(player.todo)
<1>1. CASE Calling
  <2>1. UNCHANGED <<threads, status, decVars, renVars>> /\ ~waiting
    BY <1>1, CallRow, AtRestHandled
  <2> QED BY <2>1 DEF AudioType, threads, decVars, DecoderInv
<1>2. CASE PlayerWaits
  <2>1. CASE PlayerPosts
    BY <1>2, <2>1 DEF PlayerWaits, PlayerPosts, AudioType, decVars, DecoderInv
  <2>2. CASE PlayerResumes
    <3>1. pc["dec"] # "init"
      <4>1. Handled
        BY <2>2, ResumeStep
      <4> QED BY <4>1 DEF Handled, DecoderInv, Send
    <3> QED BY <1>2, <2>2, <3>1 DEF PlayerWaits, PlayerResumes, AudioType, decVars
  <2> QED BY <1>2, <2>1, <2>2 DEF PlayerWaits
<1>3. CASE PlayerActs
  <2>1. UNCHANGED <<waiting, threads, status, decoder, pcm, rate, crashed, renVars>>
    BY <1>3, ActsRow
  <2>2. audioCrash' \in BOOLEAN /\ \E what : Head(player.todo) = Own(what)
    BY <1>3 DEF PlayerActs, PlayerDoes
  <2>3. pc["dec"] # "init"
    BY <2>2 DEF DecoderInv, Send, Own
  <2> QED BY <2>1, <2>2, <2>3 DEF threads
<1>4. CASE Cleared \/ UNCHANGED vars
  BY <1>4 DEF Cleared, vars, threads, decVars, playerVars, AudioType, DecoderInv
<1> QED BY <1>1, <1>2, <1>3, <1>4 DEF PlayerMoves, PlayerStep

LEMMA NextParts == [Next]_vars => PlayerMoves \/ DecThread \/ RenThread
BY DEF Next, PlayerMoves, Calling

LEMMA TypeStep ==
    ASSUME PlayInv, AudioType, InRow, DecoderInv, [Next]_vars
    PROVE  AudioType'
<1>1. CASE PlayerMoves
  BY <1>1, PlayerLeaves DEF AudioType, renVars
<1>2. CASE DecThread
  <2>1. UNCHANGED firstSent
    BY <1>2, DecLeaves DEF PlayInv, renVars
  <2>2. crashed' \in BOOLEAN /\ audioCrash' \in BOOLEAN /\ rate' \in 1 .. Rates
    <3> USE DEF AudioType, decVars, CrashNotified
    <3>1. CASE DecResume \/ DecCreate \/ DecInit
      BY <3>1 DEF DecResume, DecCreate, DecInit
    <3>2. CASE DecStop \/ DecPause \/ DecReset \/ DecQuit \/ DoDecode
      BY <3>2 DEF DecStop, DecPause, DecReset, DecQuit, DoDecode
    <3>3. CASE Decode \/ ContinueWork("dec")
      BY <3>3 DEF Decode, Decodes, DecodesNothing, DecodeCrash, ContinueWork
    <3> QED BY <1>2, <3>1, <3>2, <3>3 DEF DecThread
  <2>3. status' \in [Comp -> Status]
    <3> USE DEF AudioType, SetStatus, Status
    <3>1. CASE DecResume \/ DecCreate \/ DecInit
      BY <3>1 DEF DecResume, DecCreate, DecInit
    <3>2. CASE DecStop \/ DecPause \/ DecReset \/ DecQuit \/ DoDecode
      BY <3>2 DEF DecStop, DecPause, DecReset, DecQuit, DoDecode
    <3>3. CASE Decode \/ ContinueWork("dec")
      BY <3>3, DecOthers DEF DecOther
    <3> QED BY <1>2, <3>1, <3>2, <3>3 DEF DecThread
  <2> QED BY <2>1, <2>2, <2>3 DEF AudioType
<1>3. CASE RenThread
  <2>1. UNCHANGED <<crashed, audioCrash, rate>>
    BY <1>3, RenLeaves DEF PlayInv
  <2>2. status' \in [Comp -> Status]
    <3> USE DEF AudioType, SetStatus, Status
    <3>1. CASE RenStart \/ RenStop \/ RenPause
      BY <3>1 DEF RenStart, RenStop, RenPause
    <3>2. CASE RenReset \/ RenQuit
      BY <3>2 DEF RenReset, RenQuit
    <3>3. CASE RenOther
      BY <3>3, RenOthers
    <3> QED BY <1>3, <3>1, <3>2, <3>3 DEF RenThread, RenOther
  <2>3. firstSent' \in BOOLEAN
    <3> USE DEF AudioType, renVars
    <3>1. CASE RenStart \/ RenStop \/ RenPause \/ RenReset
      <4>1. CASE RenStart
        <5>1. status["ren"] \in {"started", "stopped", "paused"}
          BY DEF Comp, Status
        <5>2. UNCHANGED firstSent \/ firstSent' = FALSE
          BY <4>1, <5>1 DEF RenStart
        <5> QED BY <5>2
      <4> QED BY <3>1, <4>1 DEF RenStop, RenPause, RenReset
    <3>2. CASE RenQuit \/ DoRender \/ InitSoundDevice \/ RequestPcmData \/ PlybkRequestPcmBuffer
      BY <3>2 DEF RenQuit, DoRender, InitSoundDevice, RequestPcmData, PlybkRequestPcmBuffer
    <3>3. CASE CheckSampleRate \/ StartSoundDevice \/ NotifyAudioPts \/ Write \/ ContinueWork("ren")
      BY <3>3 DEF CheckSampleRate, StartSoundDevice, NotifyAudioPts, Write, WritePiece,
                  WriteRefused, ContinueWork
    <3> QED BY <1>3, <3>1, <3>2, <3>3 DEF RenThread
  <2> QED BY <2>1, <2>2, <2>3 DEF AudioType
<1> QED BY <1>1, <1>2, <1>3, NextParts

\* The decoder's thread creates it and destroys it.
LEMMA DecoderStep ==
    ASSUME PlayInv, AudioType, InRow, DecoderInv, [Next]_vars
    PROVE  DecoderInv'
<1>1. CASE PlayerMoves
  <2>1. /\ UNCHANGED <<pc, status, decoder>>
        /\ pc["dec"] = "init" => waiting' /\ Head(player'.todo) = Head(player.todo)
    BY <1>1, PlayerLeaves
  <2> QED BY <2>1 DEF DecoderInv
<1>2. CASE RenThread
  <2>1. /\ UNCHANGED <<decoder, player, waiting>>
        /\ pc'["dec"] = pc["dec"] /\ status'["dec"] = status["dec"]
    BY <1>2, RenLeaves DEF PlayInv
  <2> QED BY <2>1 DEF DecoderInv
<1>3. CASE DecThread
  <2>1. /\ status \in [Comp -> Status] /\ pc = [c \in Comp |-> pc[c]] /\ "dec" \in Comp
        /\ UNCHANGED <<player, waiting>>
    BY <1>3, DecLeaves DEF AudioType, PlayInv, LoopType, Comp
  <2> USE DEF Handle, JustReply, ReplyThenContinue, ContinueThenReply, GoTo, SetStatus
  <2>2. CASE DecResume
    <3>1. /\ pc["dec"] = "get" /\ pc'["dec"] \in {"get", "check"} /\ status'["dec"] = "started"
          /\ status["dec"] # "stopped" /\ decoder' = decoder
      BY <2>1, <2>2 DEF DecResume, decVars
    <3> QED BY <3>1 DEF DecoderInv
  <2>3. CASE DecCreate
    <3>1. waiting /\ Head(player.todo) = Send("dec", "start")
      BY <2>3, Awaits DEF DecCreate, Comp, Command
    <3>2. /\ status'["dec"] = "stopped"
          /\ \/ decoder' = "created" /\ pc'["dec"] = "init"
             \/ decoder' = "none" /\ pc'["dec"] = "get"
      BY <2>1, <2>3 DEF DecCreate
    <3> QED BY <2>1, <3>1, <3>2 DEF DecoderInv
  <2>4. CASE DecInit
    <3>1. \/ decoder' = "ready" /\ pc'["dec"] = "check" /\ status'["dec"] = "started"
          \/ decoder' = "none" /\ pc'["dec"] = "get" /\ status'["dec"] = status["dec"]
      BY <2>1, <2>4 DEF DecInit
    <3>2. status["dec"] = "stopped"
      BY <2>4 DEF DecInit, DecoderInv
    <3> QED BY <3>1, <3>2 DEF DecoderInv
  <2>5. CASE DecStop \/ DecQuit
    <3>1. decoder' = "none" /\ pc'["dec"] \in {"get", "gone"} /\ status'["dec"] = "stopped"
      BY <2>1, <2>5 DEF DecStop, DecQuit, DestroyDecoder
    <3> QED BY <3>1 DEF DecoderInv
  <2>6. CASE DecPause \/ DecReset
    <3>1. /\ decoder' = decoder /\ pc["dec"] = "get" /\ pc'["dec"] \in {"get", "check"}
          /\ \/ status'["dec"] = status["dec"]
             \/ status["dec"] = "started" /\ status'["dec"] = "paused"
      BY <2>1, <2>6 DEF DecPause, DecReset, decVars
    <3> QED BY <3>1 DEF DecoderInv
  <2>7. CASE DoDecode
    <3>1. /\ decoder' = decoder /\ status' = status /\ pc["dec"] = "get"
          /\ pc'["dec"] \in {"get", "decode", "check"}
          /\ pc'["dec"] = "decode" => status["dec"] = "started"
      BY <2>1, <2>7 DEF DoDecode, decVars
    <3> QED BY <3>1 DEF DecoderInv
  <2>8. CASE Decode \/ ContinueWork("dec")
    <3>1. decoder' = decoder /\ status' = status /\ pc["dec"] \in {"decode", "check", "post"}
      BY <2>8 DEF Decode, Decodes, DecodesNothing, DecodeCrash, DecodeReturns, ContinueWork,
                  Continues, Looks, Posts, decVars
    <3>2. pc'["dec"] \in {"get", "check", "post"}
      BY <2>1, <2>8 DEF Decode, Decodes, DecodesNothing, DecodeCrash, ContinueWork,
                        Continues, Looks, Posts, HandlerEnds
    <3> QED BY <3>1, <3>2 DEF DecoderInv
  <2> QED BY <1>3, <2>2, <2>3, <2>4, <2>5, <2>6, <2>7, <2>8 DEF DecThread
<1> QED BY <1>1, <1>2, <1>3, NextParts

\* The renderer opens the device, sets it and starts it.
LEMMA DeviceStep ==
    ASSUME PlayInv, AudioType, InRow, DecoderInv, DeviceInv, [Next]_vars
    PROVE  DeviceInv'
<1>1. CASE PlayerMoves \/ DecThread
  <2>1. UNCHANGED renVars /\ pc'["ren"] = pc["ren"] /\ status'["ren"] = status["ren"]
    BY <1>1, PlayerLeaves, DecLeaves DEF PlayInv
  <2> QED BY <2>1 DEF DeviceInv, renVars, soundVars
<1>2. CASE RenThread
  <2>1. /\ status \in [Comp -> Status] /\ pc = [c \in Comp |-> pc[c]] /\ "ren" \in Comp
        /\ status["ren"] \in {"stopped", "started", "paused"} /\ firstSent \in BOOLEAN
        /\ rate # 0
    BY DEF AudioType, PlayInv, LoopType, Comp, Status
  <2> USE DEF Handle, JustReply, ReplyThenContinue, GoTo, SetStatus
  <2>2. CASE RenStart
    <3>1. pc'["ren"] = "check" /\ status'["ren"] = "started" /\ format' = format
      BY <2>1, <2>2 DEF RenStart
    <3>2. CASE status["ren"] = "started"
      <4>1. UNCHANGED <<firstSent, known, device, refused>>
        BY <2>2, <3>2 DEF RenStart, SoundDeviceLeft
      <4> QED BY <3>1, <3>2, <4>1 DEF DeviceInv, Rendering, Holding
    <3>3. CASE status["ren"] = "stopped"
      <4>1. firstSent' = FALSE /\ known' = 0 /\ device' = device /\ device = "stopped"
        BY <2>2, <3>3 DEF RenStart, SoundDeviceLeft, DeviceInv
      <4> QED BY <3>1, <4>1 DEF DeviceInv, Rendering, Holding
    <3>4. CASE status["ren"] = "paused"
      <4>1. /\ UNCHANGED <<firstSent, known>>
            /\ firstSent => SoundDeviceStart
            /\ ~firstSent => SoundDeviceLeft
        BY <2>2, <3>4 DEF RenStart
      <4> QED BY <3>1, <3>4, <4>1 DEF DeviceInv, Rendering, Holding, SoundDeviceStart, SoundDeviceLeft
    <3> QED BY <2>1, <3>2, <3>3, <3>4
  <2>3. CASE RenStop \/ RenQuit
    <3>1. /\ pc'["ren"] \in {"get", "gone"} /\ status'["ren"] = "stopped"
          /\ UNCHANGED <<firstSent, known, format>>
          /\ device' = "stopped" \/ (device' = device /\ status["ren"] = "stopped")
      BY <2>1, <2>3 DEF RenStop, RenQuit, SoundDeviceStop, SoundDeviceLeft
    <3> QED BY <3>1 DEF DeviceInv, Rendering, Holding
  <2>4. CASE RenPause
    <3>1. pc'["ren"] = "get" /\ UNCHANGED <<firstSent, known, format, refused>>
      BY <2>1, <2>4 DEF RenPause, SoundDevicePause, SoundDeviceLeft
    <3>2. CASE status["ren"] = "started"
      <4>1. status'["ren"] = "paused" /\ device' = (IF device = "started" THEN "paused" ELSE device)
        BY <2>1, <2>4, <3>2 DEF RenPause, SoundDevicePause
      <4> QED BY <3>1, <4>1 DEF DeviceInv, Rendering, Holding
    <3>3. CASE status["ren"] # "started"
      <4>1. status' = status /\ device' = device
        BY <2>4, <3>3 DEF RenPause, SoundDeviceLeft
      <4> QED BY <3>1, <3>3, <4>1 DEF DeviceInv, Rendering, Holding
    <3> QED BY <3>2, <3>3
  <2>5. CASE RenReset
    <3>1. /\ pc'["ren"] \in {"get", "check"} /\ status' = status /\ UNCHANGED <<known, format>>
          /\ firstSent' = FALSE /\ device' = "stopped"
      BY <2>1, <2>5 DEF RenReset, SoundDeviceStop
    <3> QED BY <3>1 DEF DeviceInv, Rendering, Holding
  <2>6. CASE DoRender
    <3>1. /\ UNCHANGED <<status, firstSent, known, format, device, refused>>
          /\ pc'["ren"] = (IF status["ren"] # "started" THEN "get"
                           ELSE IF ~firstSent /\ known = 0 THEN "format" ELSE "request")
      BY <2>1, <2>6 DEF DoRender, renVars, soundVars
    <3> QED BY <3>1 DEF DeviceInv, Rendering, Holding
  <2>7. CASE InitSoundDevice
    <3>1. /\ UNCHANGED <<status, firstSent, device, refused>> /\ pc["ren"] = "format"
          /\ pc'["ren"] = "request" /\ known' = rate /\ format' = rate
      BY <2>1, <2>7 DEF InitSoundDevice, RenSteps, SoundDeviceSetFormat
    <3> QED BY <2>1, <3>1 DEF DeviceInv, Rendering, Holding
  <2>8. CASE RequestPcmData \/ PlybkRequestPcmBuffer
    <3>1. /\ UNCHANGED <<status, firstSent, known, format, device, refused>>
          /\ pc["ren"] \in {"request", "ask"} /\ pc'["ren"] \in {"get", "ask", "request", "rate"}
      BY <2>1, <2>8 DEF RequestPcmData, PlybkRequestPcmBuffer, RenSteps, renVars, soundVars
    <3> QED BY <3>1 DEF DeviceInv, Rendering, Holding
  <2>9. CASE CheckSampleRate
    <3>1. /\ UNCHANGED <<status, firstSent>> /\ pc["ren"] = "rate"
          /\ pc'["ren"] = IF firstSent THEN "notify" ELSE "start"
      BY <2>1, <2>9 DEF CheckSampleRate, RenSteps
    <3>2. \/ UNCHANGED <<known, format, device, refused>>
          \/ /\ known' = rate /\ format' = rate
             /\ \/ firstSent /\ device' = "started" /\ refused' = FALSE
                \/ device' = "stopped" /\ refused' = firstSent
      BY <2>9 DEF CheckSampleRate, soundVars
    <3> QED BY <2>1, <3>1, <3>2 DEF DeviceInv, Rendering, Holding
  <2>10. CASE StartSoundDevice
    <3>1. /\ UNCHANGED <<status, known, format>> /\ pc["ren"] = "start" /\ pc'["ren"] = "notify"
          /\ firstSent' = TRUE /\ (device' = "started" \/ refused' = TRUE)
      BY <2>1, <2>10 DEF StartSoundDevice, RenSteps, SoundDeviceStart
    <3> QED BY <3>1 DEF DeviceInv, Rendering, Holding
  <2>11. CASE NotifyAudioPts \/ Write
    <3>1. /\ UNCHANGED <<status, firstSent, known, format, device, refused>>
          /\ pc["ren"] \in {"notify", "write"} /\ pc'["ren"] \in {"write", "check"}
      BY <2>1, <2>11 DEF NotifyAudioPts, Write, WritePiece, WriteRefused, RenSteps, soundVars
    <3> QED BY <3>1 DEF DeviceInv, Rendering, Holding
  <2>12. CASE ContinueWork("ren")
    <3>1. /\ UNCHANGED <<status, firstSent, known, format, device, refused>>
          /\ pc'["ren"] \in {"get", "post"}
      BY <2>1, <2>12 DEF ContinueWork, Continues, Looks, Posts, HandlerEnds, renVars, soundVars
    <3> QED BY <3>1 DEF DeviceInv, Rendering, Holding
  <2> QED BY <1>2, <2>2, <2>3, <2>4, <2>5, <2>6, <2>7, <2>8, <2>9, <2>10, <2>11, <2>12 DEF RenThread
<1> QED BY <1>1, <1>2, NextParts

-----------------------------------------------------------------------------
(* The renderer inside the decoder, in a player that is not rewound once   *)
(* its decoder has failed.                                                 *)

\* When the decoder is created or destroyed, or loses its data, the renderer
\* does not run.
LEMMA RenderRests ==
    ASSUME PlayInv, AudioType, InRow, DecoderInv, ~ResetAfterFailure,
           pc["dec"] = "init" \/ DecCreate \/ DecStop \/ DecReset \/ DecQuit
    PROVE  status["ren"] # "started"
<1>1. PICK s, k : Doing(s, k) /\ Row(s, k, Turn(k))
  BY DEF InRow
<1>2. player.status \in StatusIn(s, k) /\ "dec" \in Comp
  BY <1>1 DEF Doing, Comp
<1>3. ASSUME NEW m \in Command, Handle("dec", m)
      PROVE  /\ s \in PlanName /\ k \in 1 .. Len(Plan(s)) /\ Plan(s)[k] = Send("dec", m)
             /\ status["ren"] = RenAt(s, k, player.status) /\ DecIn(s, k)
  BY <1>1, <1>2, <1>3, TakenTurn DEF Row
<1>4. CASE pc["dec"] = "init"
  <2>1. /\ waiting /\ Head(player.todo) = Send("dec", "start") /\ status["dec"] = "stopped"
        /\ decoder = "created" /\ ~Handled
    BY <1>4 DEF DecoderInv, Handled, Send
  <2>2. /\ s \in PlanName /\ k \in 1 .. Len(Plan(s)) /\ Plan(s)[k] = Send("dec", "start")
        /\ Turn(k) = k
    BY <1>1, <2>1, NextStep DEF Turn, PlayInv, PlayerType, Idle
  <2>3. (s = "start" /\ k = 1) \/ (s = "seek" /\ k = 7)
    BY <2>2, Turns
  <2>4. status["ren"] = RenAt(s, k, player.status) /\ DecIn(s, k)
    BY <1>1, <2>2 DEF Row
  <2>5. s # "seek"
    <3>1. s = "seek" => DecAt(s, k, player.status) = "paused"
      BY <2>3 DEF DecAt
    <3> QED BY <2>1, <2>4, <3>1 DEF DecIn
  <2> QED BY <1>2, <2>3, <2>4, <2>5 DEF RenAt, StatusIn
<1>5. CASE DecCreate
  <2>1. Handle("dec", "start") /\ status["dec"] = "stopped"
    BY <1>5 DEF DecCreate
  <2>2. (s = "start" /\ k = 1) \/ (s = "seek" /\ k = 7)
    BY <1>3, <2>1, Turns DEF Command
  <2>3. status["ren"] = RenAt(s, k, player.status) /\ DecIn(s, k)
    BY <1>3, <2>1 DEF Command
  <2>4. s # "seek"
    <3>1. s = "seek" => DecAt(s, k, player.status) = "paused"
      BY <2>2 DEF DecAt
    <3> QED BY <2>1, <2>3, <3>1 DEF DecIn
  <2> QED BY <1>2, <2>2, <2>3, <2>4 DEF RenAt, StatusIn
<1>6. CASE DecStop \/ DecReset \/ DecQuit
  <2>1. \E m \in {"stop", "reset", "quit"} : Handle("dec", m)
    BY <1>6 DEF DecStop, DecReset, DecQuit
  <2>2. /\ \/ s = "stop" /\ k = 2
           \/ (s = "seek" /\ k = 3) \/ (s = "rewind" /\ k = 1)
           \/ s = "clear" /\ k = 2
        /\ status["ren"] = RenAt(s, k, player.status)
    BY <1>3, <2>1, Turns DEF Command
  <2> QED BY <2>2 DEF RenAt
<1> QED BY <1>4, <1>5, <1>6

LEMMA HeldStep ==
    ASSUME PlayInv, AudioType, InRow, DecoderInv, DeviceInv, HeldInv, ~ResetAfterFailure, [Next]_vars
    PROVE  HeldInv'
<1>1. CASE PlayerMoves
  <2>1. UNCHANGED <<decoder, pcm, chunk>> /\ pc' = pc
    BY <1>1, PlayerLeaves DEF renVars
  <2> QED BY <2>1 DEF HeldInv, InsideDecoder
<1>2. CASE DecThread
  <2>1. chunk' = chunk /\ pc'["ren"] = pc["ren"]
    BY <1>2, DecLeaves DEF PlayInv, renVars
  <2>2. CASE DecCreate \/ DecInit \/ DecStop \/ DecReset \/ DecQuit
    <3>1. pc["ren"] \notin Rendering
      <4>1. status["ren"] # "started"
        BY <2>2, RenderRests DEF DecInit
      <4> QED BY <4>1 DEF DeviceInv
    <3>2. ~InsideDecoder /\ chunk = 0
      BY <3>1 DEF InsideDecoder, Rendering, Holding, HeldInv
    <3>3. pcm' \in Nat
      BY <2>2 DEF DecCreate, DecInit, DecStop, DecReset, DecQuit, DestroyDecoder, HeldInv
    <3> QED BY <2>1, <3>2, <3>3 DEF HeldInv, InsideDecoder
  <2>3. CASE DecResume \/ DecPause \/ DoDecode \/ ContinueWork("dec")
    <3>1. UNCHANGED <<decoder, pcm>>
      BY <2>3 DEF DecResume, DecPause, DoDecode, ContinueWork, decVars
    <3> QED BY <2>1, <3>1 DEF HeldInv, InsideDecoder
  <2>4. CASE Decode
    <3>1. decoder' = decoder /\ (pcm' = pcm \/ pcm' = pcm + 1)
      BY <2>4 DEF Decode, Decodes, DecodesNothing, DecodeCrash, DecodeReturns
    <3> QED BY <2>1, <3>1 DEF HeldInv, InsideDecoder
  <2> QED BY <1>2, <2>2, <2>3, <2>4 DEF DecThread
<1>3. CASE RenThread
  <2>1. pc = [c \in Comp |-> pc[c]] /\ "ren" \in Comp /\ UNCHANGED decoder
    BY <1>3, RenLeaves DEF PlayInv, LoopType, Comp
  <2>2. pcm \in Nat /\ chunk \in Nat /\ chunk <= pcm
    BY DEF HeldInv
  <2> USE DEF Handle, JustReply, ReplyThenContinue, GoTo
  <2>3. CASE RenStart \/ RenStop \/ RenPause \/ RenReset \/ RenQuit \/ DoRender
    <3>1. UNCHANGED <<pcm, chunk>> /\ pc["ren"] = "get" /\ pc'["ren"] \notin {"ask"} \cup Holding
      <4> USE DEF Holding, decVars, renVars
      <4>1. CASE RenStart \/ RenStop \/ RenQuit
        BY <2>1, <2>3, <4>1 DEF RenStart, RenStop, RenQuit
      <4>2. CASE RenPause \/ RenReset \/ DoRender
        BY <2>1, <2>3, <4>2 DEF RenPause, RenReset, DoRender
      <4> QED BY <2>3, <4>1, <4>2
    <3> QED BY <2>1, <3>1 DEF HeldInv, InsideDecoder, Holding
  <2>4. CASE InitSoundDevice \/ ContinueWork("ren")
    <3>1. /\ UNCHANGED <<pcm, chunk>> /\ pc["ren"] \in {"format", "check", "post"}
          /\ pc'["ren"] \in {"request", "get", "post"}
      BY <2>1, <2>4 DEF InitSoundDevice, RenSteps, ContinueWork, Continues, Looks, Posts, HandlerEnds,
                        decVars, renVars
    <3> QED BY <2>1, <3>1 DEF HeldInv, InsideDecoder, Holding
  <2>5. CASE RequestPcmData
    <3>1. /\ UNCHANGED <<pcm, chunk>> /\ pc["ren"] = "request"
          /\ pc'["ren"] = "ask" \/ pc'["ren"] \in {"get", "request"}
          /\ pc'["ren"] = "ask" => decoder # "none"
      BY <2>1, <2>5 DEF RequestPcmData, RenSteps, decVars, renVars
    <3>2. decoder # "none" => decoder = "ready"
      <4>1. status["ren"] = "started"
        BY <3>1 DEF DeviceInv, Rendering
      <4>2. pc["dec"] # "init"
        BY <4>1, RenderRests
      <4> QED BY <4>2 DEF DecoderInv
    <3> QED BY <2>1, <3>1, <3>2 DEF HeldInv, InsideDecoder, Holding
  <2>6. CASE PlybkRequestPcmBuffer
    <3>1. /\ pc["ren"] = "ask" /\ pcm' = pcm
          /\ \/ chunk' \in 1 .. pcm /\ pc'["ren"] = "rate"
             \/ chunk' = chunk /\ pc'["ren"] \in {"get", "request"}
      BY <2>1, <2>6 DEF PlybkRequestPcmBuffer, RenSteps, decVars
    <3> QED BY <2>1, <2>2, <3>1 DEF HeldInv, InsideDecoder, Holding
  <2>7. CASE CheckSampleRate \/ StartSoundDevice
    <3>1. /\ UNCHANGED <<pcm, chunk>> /\ pc["ren"] \in {"rate", "start"}
          /\ pc'["ren"] \in {"notify", "start"}
      BY <2>1, <2>7 DEF CheckSampleRate, StartSoundDevice, RenSteps, decVars
    <3> QED BY <2>1, <3>1 DEF HeldInv, InsideDecoder, Holding
  <2>8. CASE NotifyAudioPts \/ Write
    <3>1. /\ pc["ren"] \in {"notify", "write"}
          /\ \/ pc'["ren"] = "write" /\ UNCHANGED <<pcm, chunk>>
             \/ pc'["ren"] = "check" /\ Release(chunk)
             \/ pc'["ren"] = (IF chunk = 1 THEN "check" ELSE "write") /\ Release(1)
      BY <2>1, <2>8 DEF NotifyAudioPts, Write, WritePiece, WriteRefused, RenSteps
    <3>2. chunk > 0 /\ decoder = "ready"
      BY <3>1 DEF HeldInv, InsideDecoder, Holding
    <3>3. CASE pc'["ren"] = "write" /\ UNCHANGED <<pcm, chunk>>
      BY <2>1, <2>2, <3>2, <3>3 DEF HeldInv, InsideDecoder, Holding
    <3>4. CASE pc'["ren"] = "check" /\ Release(chunk)
      <4>1. chunk' = 0 /\ pcm' \in Nat
        BY <2>2, <3>4 DEF Release
      <4> QED BY <3>4, <4>1 DEF HeldInv, InsideDecoder, Holding
    <3>5. CASE pc'["ren"] = (IF chunk = 1 THEN "check" ELSE "write") /\ Release(1)
      <4>1. chunk' = chunk - 1 /\ pcm' = pcm - 1
        BY <3>5 DEF Release
      <4>2. chunk' \in Nat /\ pcm' \in Nat /\ chunk' <= pcm' /\ (chunk' > 0 <=> chunk # 1)
        BY <2>2, <3>2, <4>1
      <4> QED BY <2>1, <3>2, <3>5, <4>2 DEF HeldInv, InsideDecoder, Holding
    <3> QED BY <3>1, <3>3, <3>4, <3>5
  <2> QED BY <1>3, <2>3, <2>4, <2>5, <2>6, <2>7, <2>8 DEF RenThread
<1> QED BY <1>1, <1>2, <1>3, NextParts

-----------------------------------------------------------------------------
(* The theorems.                                                           *)

LEMMA InvStep == AudioInv /\ [Next]_vars => AudioInv'
BY RowStep, TypeStep, DecoderStep, DeviceStep DEF AudioInv

\* The exchange between the player and the two components, the place of the
\* command in progress in its list, the states that go with it, and the states
\* of the decoder and of the sound device.
THEOREM ExchangeAlways == Spec => []AudioInv
<1>1. Init => AudioInv
  BY AtFirst
<1> QED BY <1>1, InvStep, PTL DEF Spec

\* Between commands the components are in the player's state, or the decoder
\* could not be started and a started player knows of the crash; and the player
\* and its decoder agree on it.
THEOREM StatusAlways == Spec => []StatusAgrees
<1>1. AudioInv => StatusAgrees
  BY AgreedAtRest DEF AudioInv
<1> QED BY <1>1, ExchangeAlways, PTL

\* The device is set only while it is stopped, plays or is paused at the rate
\* that the renderer knows, is never left playing by a player that is not
\* started, and is started again after a pause, a seek or a change of rate,
\* unless it refuses.
THEOREM DeviceAlways == Spec => []DeviceAgrees
<1>1. AudioInv => DeviceAgrees
  <2> SUFFICES ASSUME AudioInv PROVE DeviceAgrees
    OBVIOUS
  <2>1. /\ pc["ren"] = "format" => device = "stopped"
        /\ device # "stopped" => firstSent /\ format = known
        /\ (status["ren"] = "started" /\ firstSent) => device = "started" \/ refused
    BY DEF AudioInv, DeviceInv
  <2>2. (Idle /\ player.status # "started") => device # "started"
    <3>1. (Idle /\ player.status # "started") => status["ren"] # "started"
      BY AgreedAtRest DEF AudioInv, StatusAgrees
    <3> QED BY <3>1 DEF AudioInv, DeviceInv
  <2> QED BY <2>1, <2>2 DEF DeviceAgrees
<1> QED BY <1>1, ExchangeAlways, PTL

\* In a player that is not rewound once its decoder has failed to start, the
\* renderer is never inside a decoder that is not there or not initialised, and
\* holds no data that the decoder has lost, although it takes no lock: what
\* keeps them apart is the order of the steps in the lists of the commands.
THEOREM DecoderAlways ==
    ASSUME ~ResetAfterFailure
    PROVE  Spec => []DecoderAlive
<1>1. Init => AudioInv /\ HeldInv
  BY AtFirst
<1>2. AudioInv /\ HeldInv /\ [Next]_vars => AudioInv' /\ HeldInv'
  BY InvStep, HeldStep DEF AudioInv
<1>3. AudioInv /\ HeldInv => DecoderAlive
  <2> SUFFICES ASSUME AudioInv, HeldInv PROVE DecoderAlive
    OBVIOUS
  <2>1. InsideDecoder => decoder = "ready"
    BY DEF HeldInv
  <2>2. pc["dec"] = "decode" => decoder = "ready"
    BY DEF AudioInv, DecoderInv
  <2> QED BY <2>1, <2>2 DEF DecoderAlive, HeldInv
<1> QED BY <1>1, <1>2, <1>3, PTL DEF Spec

\* A reply is posted once, to the command that waits for it, also by the
\* decoder, whose start is answered long after it was taken.
THEOREM RepliesMatch == Spec => []NoStrayReply
<1>1. AudioInv => NoStrayReply
  BY OneReplyAwaited DEF AudioInv
<1> QED BY <1>1, ExchangeAlways, PTL

\* Nobody ever posts to a full queue, whatever the capacity is, from three on.
THEOREM RoomAlways == Spec => []RoomToPost
<1>1. AudioInv => RoomToPost
  BY RoomForPosts DEF AudioInv
<1> QED BY <1>1, ExchangeAlways, PTL

=============================================================================
