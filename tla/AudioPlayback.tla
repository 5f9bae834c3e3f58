--------------------------- MODULE AudioPlayback ---------------------------
(***************************************************************************)
(* Audio playback (wfd_player/playback): the audio decoder thread and the  *)
(* audio render thread under the commands of the player, and the sound     *)
(* device.                                                                 *)
(*                                                                         *)
(* The render thread takes PCM data straight out of the decoder that the   *)
(* decoder thread creates and destroys, and takes no lock: the order in    *)
(* which the player commands the two is all that keeps the decoder there.  *)
(*                                                                         *)
(* The end of stream is not modelled: nothing in the program sets it.  The *)
(* decoding library is external; PCM data is a count.  The sound device    *)
(* behaves as soundControl_alsa.c does: a device that cannot be opened     *)
(* reports nothing, and takes no data.  The clock's verdict on a piece of  *)
(* audio, to play or to drop it, is a free choice.                         *)
(***************************************************************************)
EXTENDS Player

CONSTANTS
    PcmRoom,            \* pieces of PCM data that the decoder has room for
    Rates,              \* sample rates of the stream, 1 .. Rates
    ResetAfterFailure   \* may a player whose decoder did not start be rewound?

ASSUME PcmAssumption == PcmRoom \in Nat \ {0} /\ Rates \in Nat \ {0}
ASSUME ResetAssumption == ResetAfterFailure \in BOOLEAN

VARIABLES
    decoder,    \* pDecoder: none, created but not yet initialised, ready
    pcm,        \* decoded and not yet released by the renderer
    rate,       \* nSampleRate of the selected stream
    crashed,    \* the decoder's bCrashFlag
    audioCrash, \* the player's bAudioCrash
    chunk,      \* nPcmDataLen: what the renderer has requested and not released
    firstSent,  \* bFirstFrameSend
    known,      \* the renderer's nSampleRate, 0 for none
    device,     \* eStatus of the sound device
    format,     \* the rate it has been set to, 0 for none
    refused     \* history: it did not start when it was last asked to

decVars == <<decoder, pcm, rate, crashed, audioCrash>>
soundVars == <<device, format, refused>>
renVars == <<chunk, firstSent, known, soundVars>>
vars == <<playerVars, threads, status, decVars, renVars>>

Phase == {"get", "check", "post", "init", "decode", "format", "request", "ask",
          "rate", "start", "notify", "write", "gone"}

Init ==
    /\ PlayerInit
    /\ decoder = "none" /\ pcm = 0 /\ rate = 1
    /\ crashed = FALSE /\ audioCrash = FALSE
    /\ chunk = 0 /\ firstSent = FALSE /\ known = 0
    /\ device = "stopped" /\ format = 0 /\ refused = FALSE

ContinueWork(c) == Continues(c) /\ UNCHANGED <<decVars, renVars>>

-----------------------------------------------------------------------------
(* The player's commands.                                                  *)

Start == CallStart /\ UNCHANGED <<decVars, renVars>>
Stop == CallStop /\ UNCHANGED <<decVars, renVars>>
Pause == CallPause /\ UNCHANGED <<decVars, renVars>>
Clear == CallClear /\ UNCHANGED <<decVars, renVars>>
Reset ==
    /\ ResetAfterFailure \/ decoder = "ready"
    /\ CallReset /\ UNCHANGED <<decVars, renVars>>

PlayerWaits == (PlayerPosts \/ PlayerResumes) /\ UNCHANGED <<decVars, renVars>>

\* Stop and Reset forget the crash of the decoder.
PlayerActs ==
    \E what \in OwnSteps :
        /\ PlayerDoes(what)
        /\ audioCrash' = (audioCrash /\ what \notin {"rewound", "stopped"})
        /\ UNCHANGED <<decoder, pcm, rate, crashed, renVars>>

-----------------------------------------------------------------------------
(* The decoder thread (audioDecComponent.c).                               *)

DestroyDecoder == decoder' = "none" /\ pcm' = 0

\* The callback PLAYER_AUDIO_DECODER_NOTIFY_CRASH.
CrashNotified == crashed' = TRUE /\ audioCrash' = TRUE

\* Mutant: a decoder that is started again is not kept going.
DecResumeQuiet ==
    /\ Handle("dec", "start") /\ status["dec"] # "stopped"
    /\ JustReply("dec", "start")
    /\ SetStatus("dec", "started")
    /\ UNCHANGED <<playerVars, decVars, renVars>>

\* handleStart of a decoder that has been paused, or runs already.
DecResume ==
    /\ Handle("dec", "start") /\ status["dec"] # "stopped"
    /\ IF status["dec"] = "paused" /\ ~crashed THEN ContinueThenReply("dec", "start")
                                               ELSE JustReply("dec", "start")
    /\ SetStatus("dec", "started")
    /\ UNCHANGED <<playerVars, decVars, renVars>>

\* handleStart of a decoder that is stopped, up to CreateAudioDecoder.
DecCreate ==
    /\ Handle("dec", "start") /\ status["dec"] = "stopped"
    /\ \/ /\ decoder' = "created"
          /\ GoTo("dec", "init") /\ UNCHANGED <<owed, replies, crashed, audioCrash>>
       \/ decoder' = "none" /\ CrashNotified /\ JustReply("dec", "start")
    /\ UNCHANGED <<playerVars, status, pcm, rate, renVars>>

\* InitializeAudioDecoder and the rest of handleStart.
DecInit ==
    /\ pc["dec"] = "init"
    /\ \/ /\ decoder' = "ready" /\ SetStatus("dec", "started")
          /\ ContinueThenReply("dec", "start") /\ UNCHANGED <<crashed, audioCrash>>
       \/ /\ decoder' = "none" /\ CrashNotified
          /\ JustReply("dec", "start") /\ UNCHANGED status
    /\ UNCHANGED <<playerVars, mq, pcm, rate, renVars>>

\* handleStop.
DecStop ==
    /\ Handle("dec", "stop")
    /\ DestroyDecoder
    /\ crashed' = FALSE
    /\ SetStatus("dec", "stopped") /\ JustReply("dec", "stop")
    /\ UNCHANGED <<playerVars, rate, audioCrash, renVars>>

\* handlePause.
DecPause ==
    /\ Handle("dec", "pause")
    /\ IF status["dec"] = "started" THEN SetStatus("dec", "paused") ELSE UNCHANGED status
    /\ JustReply("dec", "pause")
    /\ UNCHANGED <<playerVars, decVars, renVars>>

\* handleReset drops the decoded data.
DecReset ==
    /\ Handle("dec", "reset")
    /\ pcm' = 0 /\ crashed' = FALSE
    /\ IF status["dec"] = "started" THEN ReplyThenContinue("dec", "reset")
                                    ELSE JustReply("dec", "reset")
    /\ UNCHANGED <<playerVars, status, decoder, rate, audioCrash, renVars>>

\* handleQuit.
DecQuit ==
    /\ Handle("dec", "quit")
    /\ DestroyDecoder
    /\ Reply("dec", "quit") /\ GoTo("dec", "gone")
    /\ SetStatus("dec", "stopped")
    /\ UNCHANGED <<playerVars, owed, rate, crashed, audioCrash, renVars>>

\* doDecode, up to the call of DecodeAudioStream; without a PCM buffer it
\* waits a while and goes on.
DoDecode ==
    /\ Handle("dec", "continue")
    /\ GoTo("dec", IF status["dec"] # "started" THEN "get"
                   ELSE IF pcm < PcmRoom THEN "decode" ELSE "check")
    /\ UNCHANGED <<playerVars, owed, replies, status, decVars, renVars>>

DecodeReturns ==
    pc["dec"] = "decode" /\ UNCHANGED <<playerVars, mq, owed, replies, status, decoder, renVars>>

\* ERR_AUDIO_DEC_NONE: data has been decoded, perhaps at another rate.
Decodes ==
    /\ DecodeReturns /\ GoTo("dec", "check")
    /\ pcm' = pcm + 1 /\ rate' \in 1 .. Rates
    /\ UNCHANGED <<crashed, audioCrash>>

\* No bitstream, a frame without a time stamp, or a result that is ignored.
DecodesNothing ==
    /\ DecodeReturns /\ GoTo("dec", "check")
    /\ UNCHANGED <<pcm, rate, crashed, audioCrash>>

DecodeCrash ==
    /\ DecodeReturns /\ GoTo("dec", "get")
    /\ CrashNotified
    /\ UNCHANGED <<pcm, rate>>

-----------------------------------------------------------------------------
(* The sound device (soundControl_alsa.c), which only the renderer uses.   *)

\* Opening or resuming it may fail, and then it stays as it is; nobody looks.
SoundDeviceStart ==
    \/ format # 0 /\ device' = "started" /\ refused' = FALSE
    \/ device # "started" /\ refused' = TRUE /\ UNCHANGED device
SoundDeviceStop == device' = "stopped" /\ refused' = FALSE
SoundDevicePause ==
    device' = (IF device = "started" THEN "paused" ELSE device) /\ UNCHANGED refused
SoundDeviceLeft == UNCHANGED <<device, refused>>

\* It aborts the program unless the device is stopped.
SoundDeviceSetFormat(r) == device = "stopped" /\ format' = r

-----------------------------------------------------------------------------
(* The render thread (audioRenderComponent.c).                             *)

\* handleStart.
RenStart ==
    /\ Handle("ren", "start")
    /\ CASE status["ren"] = "started" -> UNCHANGED <<firstSent, known>> /\ SoundDeviceLeft
         [] status["ren"] = "stopped" ->
                firstSent' = FALSE /\ known' = 0 /\ SoundDeviceLeft
         [] status["ren"] = "paused" ->
                /\ UNCHANGED <<firstSent, known>>
                /\ IF firstSent THEN SoundDeviceStart ELSE SoundDeviceLeft
    /\ SetStatus("ren", "started")
    /\ ReplyThenContinue("ren", "start")
    /\ UNCHANGED <<playerVars, decVars, chunk, format>>

\* handleStop.
RenStop ==
    /\ Handle("ren", "stop")
    /\ IF status["ren"] = "stopped" THEN SoundDeviceLeft ELSE SoundDeviceStop
    /\ SetStatus("ren", "stopped") /\ JustReply("ren", "stop")
    /\ UNCHANGED <<playerVars, decVars, chunk, firstSent, known, format>>

\* handlePause.
RenPause ==
    /\ Handle("ren", "pause")
    /\ IF status["ren"] = "started" THEN SoundDevicePause /\ SetStatus("ren", "paused")
                                    ELSE SoundDeviceLeft /\ UNCHANGED status
    /\ JustReply("ren", "pause")
    /\ UNCHANGED <<playerVars, decVars, chunk, firstSent, known, format>>

\* handleReset stops the device.
RenReset ==
    /\ Handle("ren", "reset")
    /\ SoundDeviceStop /\ firstSent' = FALSE
    /\ IF status["ren"] = "started" THEN ReplyThenContinue("ren", "reset")
                                    ELSE JustReply("ren", "reset")
    /\ UNCHANGED <<playerVars, status, decVars, chunk, known, format>>

\* handleQuit.
RenQuit ==
    /\ Handle("ren", "quit")
    /\ SoundDeviceStop
    /\ Reply("ren", "quit") /\ GoTo("ren", "gone")
    /\ SetStatus("ren", "stopped")
    /\ UNCHANGED <<playerVars, owed, decVars, chunk, firstSent, known, format>>

\* doRender.
DoRender ==
    /\ Handle("ren", "continue")
    /\ GoTo("ren", IF status["ren"] # "started" THEN "get"
                   ELSE IF ~firstSent /\ known = 0 THEN "format" ELSE "request")
    /\ UNCHANGED <<playerVars, owed, replies, status, decVars, renVars>>

RenSteps(phase) ==
    pc["ren"] = phase /\ UNCHANGED <<playerVars, mq, owed, replies, status>>

\* initSoundDevice; the rate of the stream is known from its start.
InitSoundDevice ==
    /\ RenSteps("format")
    /\ known' = rate /\ SoundDeviceSetFormat(rate)
    /\ GoTo("ren", "request")
    /\ UNCHANGED <<decVars, chunk, firstSent, device, refused>>

\* Mutant: the renderer does not look at its messages while it waits.
RequestForever ==
    /\ RenSteps("request")
    /\ GoTo("ren", IF decoder # "none" THEN "ask" ELSE "request")
    /\ UNCHANGED <<decVars, renVars>>

\* WFD_AudioDecCompRequestPcmData sees that there is a decoder, and only then
\* asks it.  A message ends the wait for one.
RequestPcmData ==
    /\ RenSteps("request")
    /\ GoTo("ren", IF decoder # "none" THEN "ask"
                   ELSE IF mq["ren"] # <<>> THEN "get" ELSE "request")
    /\ UNCHANGED <<decVars, renVars>>

PlybkRequestPcmBuffer ==
    /\ RenSteps("ask")
    /\ IF pcm > 0 THEN chunk' \in 1 .. pcm /\ GoTo("ren", "rate")
                  ELSE UNCHANGED chunk /\ GoTo("ren", IF mq["ren"] # <<>> THEN "get" ELSE "request")
    /\ UNCHANGED <<decVars, firstSent, known, soundVars>>

\* Mutant: the renderer learns of the new rate, the device does not.
CheckRateOnly ==
    /\ RenSteps("rate")
    /\ known' = rate
    /\ GoTo("ren", IF firstSent THEN "notify" ELSE "start")
    /\ UNCHANGED <<decVars, chunk, firstSent, soundVars>>

\* checkSampleRate: at a change of rate the device is stopped, set to the new
\* rate and, if it has been started before, started again.
CheckSampleRate ==
    /\ RenSteps("rate")
    /\ IF rate = known THEN UNCHANGED <<known, soundVars>>
       ELSE /\ known' = rate /\ format' = rate
            /\ \/ firstSent /\ device' = "started" /\ refused' = FALSE
               \/ device' = "stopped" /\ refused' = firstSent
    /\ GoTo("ren", IF firstSent THEN "notify" ELSE "start")
    /\ UNCHANGED <<decVars, chunk, firstSent>>

\* startSoundDevice: the player lets every first piece be played.
StartSoundDevice ==
    /\ RenSteps("start")
    /\ SoundDeviceStart /\ firstSent' = TRUE
    /\ GoTo("ren", "notify")
    /\ UNCHANGED <<decVars, chunk, known, format>>

Release(n) == pcm' = pcm - n /\ chunk' = chunk - n

\* notifyAudioPts: audio that is late is dropped.
NotifyAudioPts ==
    /\ RenSteps("notify")
    /\ \/ GoTo("ren", "write") /\ UNCHANGED <<pcm, chunk>>
       \/ GoTo("ren", "check") /\ Release(chunk)
    /\ UNCHANGED <<decoder, rate, crashed, audioCrash, firstSent, known, soundVars>>

\* writeToSoundDevice: a device that plays takes the data piece by piece.
WritePiece ==
    /\ RenSteps("write") /\ device = "started"
    /\ Release(1) /\ GoTo("ren", IF chunk = 1 THEN "check" ELSE "write")
    /\ UNCHANGED <<decoder, rate, crashed, audioCrash, firstSent, known, soundVars>>

\* One that does not, or cannot be made ready again after an error, takes nothing;
\* the first message ends the wait.
WriteRefused ==
    /\ RenSteps("write")
    /\ mq["ren"] # <<>>
    /\ Release(chunk) /\ GoTo("ren", "check")
    /\ UNCHANGED <<decoder, rate, crashed, audioCrash, firstSent, known, soundVars>>

-----------------------------------------------------------------------------
PlayerStep == PlayerWaits \/ PlayerActs
Decode == Decodes \/ DecodesNothing \/ DecodeCrash
DecThread ==
    \/ DecResume \/ DecCreate \/ DecInit \/ DecStop \/ DecPause \/ DecReset
    \/ DecQuit \/ DoDecode \/ Decode \/ ContinueWork("dec")
Write == WritePiece \/ WriteRefused
RenThread ==
    \/ RenStart \/ RenStop \/ RenPause \/ RenReset \/ RenQuit \/ DoRender
    \/ InitSoundDevice \/ RequestPcmData \/ PlybkRequestPcmBuffer
    \/ CheckSampleRate \/ StartSoundDevice \/ NotifyAudioPts \/ Write
    \/ ContinueWork("ren")

\* After Clear the player is of no more use.
Cleared == player.status = "cleared" /\ UNCHANGED vars

Next ==
    \/ Start \/ Stop \/ Pause \/ Reset \/ Clear \/ PlayerStep
    \/ DecThread \/ RenThread \/ Cleared

Spec == Init /\ [][Next]_vars

\* The threads run.
Fairness == WF_vars(PlayerStep) /\ WF_vars(DecThread) /\ WF_vars(RenThread)

FairSpec == Spec /\ Fairness
-----------------------------------------------------------------------------
(* Properties.                                                             *)

\* The renderer is inside the decoder, or holds data of it.
InsideDecoder == pc["ren"] \in {"ask", "rate", "start", "notify", "write"}

\* Whoever is inside the decoder has one that has been initialised, and the
\* data that the renderer holds is still there: neither a stop nor a seek takes
\* the decoder away under the renderer, which has no lock.
DecoderAlive ==
    /\ (InsideDecoder \/ pc["dec"] = "decode") => decoder = "ready"
    /\ chunk <= pcm

\* Between commands the components are in the player's state, but for a decoder
\* that could not be created: it is stopped, and the crash is known.  The player
\* knows of a crash exactly while the decoder does.
StatusAgrees ==
    Idle => /\ status["ren"] = IF player.status = "cleared" THEN "stopped" ELSE player.status
            /\ \/ status["dec"] = status["ren"]
               \/ /\ status["dec"] = "stopped" /\ decoder = "none"
                  /\ player.status = "started" => crashed
            /\ audioCrash = crashed

\* The device is never given a format while it plays or is paused, which would
\* abort the program.  It plays or is paused only after the first piece of a
\* start or a seek, and at the rate that the renderer knows; it is never left
\* playing by a player that has been paused or stopped; and from the first piece
\* on it plays while the renderer runs, unless the device itself refused: no pause,
\* seek or change of rate forgets to start it again.
DeviceAgrees ==
    /\ pc["ren"] = "format" => device = "stopped"
    /\ device # "stopped" => firstSent /\ format = known
    /\ (Idle /\ player.status # "started") => device # "started"
    /\ (status["ren"] = "started" /\ firstSent) => device = "started" \/ refused

\* In a started player that does not crash and whose device does not refuse,
\* decoding goes on, over pauses and seeks.
DecodingGoesOn ==
    <>[](Idle /\ player.status = "started" /\ ~refused /\ ~crashed)
        => []<>(pc["dec"] = "decode")
=============================================================================
