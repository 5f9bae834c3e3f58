------------------------------- MODULE AvTimer -------------------------------
(***************************************************************************)
(* The media clock (playback/avtimer.c), which the render and decoder      *)
(* threads read and the player sets.  It keeps the media time at its last  *)
(* call and the system time of that call, and moves both ahead on each     *)
(* call; the division by 1000 drops a fraction of a microsecond each time. *)
(*                                                                         *)
(* Every call runs under the timer's mutex, so a call is one step.  The    *)
(* play rate is 1: nothing in the program changes it.  GetTime multiplies  *)
(* by it in single precision; between two reads of a playing program, some *)
(* 20 ms apart, that changes the time by a few thousandths of a            *)
(* microsecond, which is left out.                                         *)
(***************************************************************************)
EXTENDS Integers

CONSTANTS
    Speeds,     \* thousandths of the normal speed
    Times,      \* what SetTime is given
    MaxNow,     \* bound of the system time
    MaxCalls    \* bound of the number of calls since the last SetTime

ASSUME SpeedsAssumption == Speeds \subseteq Nat /\ 1000 \in Speeds
ASSUME TimesAssumption == Times \subseteq Nat
ASSUME BoundsAssumption == MaxNow \in Nat /\ MaxCalls \in Nat

VARIABLES
    now,                            \* CdxMonoTimeUs
    eStatus, nSpeed,                \* of the AvTimerContext
    nStartTimeMedia, nStartTimeOs,
    ideal,  \* the time that an exact clock would show, in thousandths
    calls   \* calls since the last SetTime

timer == <<eStatus, nSpeed, nStartTimeMedia, nStartTimeOs>>
timerVars == <<now, timer, ideal, calls>>

TimerInit ==
    /\ now \in 0 .. MaxNow
    /\ eStatus = "stop" /\ nSpeed = 1000
    /\ nStartTimeMedia = 0 /\ nStartTimeOs = 0
    /\ ideal = 0 /\ calls = 0

Passed == ((now - nStartTimeOs) * nSpeed) \div 1000

\* What GetTime returns.
Reading == nStartTimeMedia + IF eStatus = "start" THEN Passed ELSE 0

\* AvTimerReset, whatever the timer's status.
AvTimerReset ==
    /\ nStartTimeMedia' = nStartTimeMedia + Passed
    /\ nStartTimeOs' = now

Calls == calls < MaxCalls /\ calls' = calls + 1 /\ UNCHANGED <<now, ideal>>

\* The time that has passed on a timer that runs already is forgotten.
Start ==
    /\ Calls
    /\ eStatus' = "start" /\ nStartTimeOs' = now
    /\ UNCHANGED <<nSpeed, nStartTimeMedia>>

\* Mutant: the time since the last call is lost.
StopDropsPassed ==
    /\ Calls
    /\ nStartTimeOs' = now /\ eStatus' = "stop"
    /\ UNCHANGED <<nStartTimeMedia, nSpeed>>

Stop ==
    /\ Calls
    /\ AvTimerReset /\ eStatus' = "stop"
    /\ UNCHANGED nSpeed

\* Mutant: the time that has passed counts at the new speed.
SetSpeedAtOnce(speed) ==
    /\ Calls
    /\ nSpeed' = speed
    /\ UNCHANGED <<eStatus, nStartTimeMedia, nStartTimeOs>>

SetSpeed(speed) ==
    /\ Calls
    /\ AvTimerReset /\ nSpeed' = speed
    /\ UNCHANGED eStatus

\* A started timer is moved ahead by being read.
GetTime ==
    /\ Calls
    /\ IF eStatus = "start" THEN AvTimerReset
                            ELSE UNCHANGED <<nStartTimeMedia, nStartTimeOs>>
    /\ UNCHANGED <<eStatus, nSpeed>>

SetTime(time) ==
    /\ nStartTimeMedia' = time /\ nStartTimeOs' = now
    /\ ideal' = 1000 * time /\ calls' = 0
    /\ UNCHANGED <<now, eStatus, nSpeed>>

Tick ==
    /\ now < MaxNow /\ now' = now + 1
    /\ ideal' = ideal + IF eStatus = "start" THEN nSpeed ELSE 0
    /\ UNCHANGED <<timer, calls>>

\* The player starts a stopped timer only (VideoPlayback!ClockAgrees).
Starting == eStatus = "stop" /\ Start

Setting == \E time \in Times : SetTime(time)

TimerNext ==
    \/ Starting \/ Stop \/ GetTime \/ Tick \/ Setting
    \/ \E speed \in Speeds : SetSpeed(speed)

TimerSpec == TimerInit /\ [][TimerNext]_timerVars

-----------------------------------------------------------------------------
TimerTypeOK ==
    /\ now \in Nat /\ nStartTimeOs \in 0 .. now
    /\ eStatus \in {"start", "stop"} /\ nSpeed \in Speeds
    /\ nStartTimeMedia \in Nat
    /\ ideal \in Nat /\ calls \in Nat

\* The clock falls behind an exact one by less than a microsecond a call,
\* across starts, stops, reads and changes of speed.
BehindByCalls == ideal < 1000 * (Reading + calls + 1)

\* Only SetTime turns the clock back.
NeverBack == [][~Setting => Reading' >= Reading]_timerVars
=============================================================================
