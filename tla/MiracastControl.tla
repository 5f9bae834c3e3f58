--------------------------- MODULE MiracastControl ---------------------------
(***************************************************************************)
(* Wi-Fi Direct control of Miracast (libwfd2/miracast2.cpp): the           *)
(* application's calls, WFDMainThread with its message queue, the P2P      *)
(* thread that brings the supplicant's events (WFDP2PCB) and the threads   *)
(* of the sessions that report their status (handleRTSPStatus).            *)
(*                                                                         *)
(* Only the calls, RESET and QUIT take the lock.  SETUP makes a player and *)
(* starts it, and the P2P thread posts, without it.  A message that finds  *)
(* the queue full is dropped, as nobody looks at the result of the post.   *)
(*                                                                         *)
(* The application makes its calls one at a time, in the order of          *)
(* AWCast/awcast.c; it may start again what it has stopped.  The           *)
(* supplicant and the session (WfdSession) are external.  Nothing posts    *)
(* QUIT or RESET_FROM_MANAGER in this program.  The other messages only    *)
(* call the application back and are left out.                             *)
(***************************************************************************)
EXTENDS Naturals, Sequences

CONSTANTS
    Capacity,   \* of the message queue (64 in the build)
    MaxGroups,  \* bound of the groups that peers form
    Session,    \* names of the players that live at the same time
    None

ASSUME BoundsAssumption == Capacity \in Nat /\ MaxGroups \in Nat
Role == {"client", "go"}
Message == Role \cup {"reset"}

ASSUME NoneAssumption == None \notin Session /\ None \notin Seq(Message)

VARIABLES
    caller,     \* where the application's call is
    lock,
    state, connecting,
    quit,       \* mWFDCBQuit
    created,    \* mWFDCBThreadCreated
    queue,      \* mMessageQueue, or None
    main,       \* WFDMainThread
    current,    \* mWFDPlayer
    session,    \* each player, from new to delete
    listening,  \* the supplicant lets peers find the device
    group,      \* the P2P group
    groups,     \* how many there have been
    p2p,        \* the message that the P2P thread is about to post
    fault,      \* an object was used after or before its life
    hist        \* history: a connection was "raced", set up while the application
                \* stopped or later; a session "failed" to start; a message was
                \* "dropped"; the end of a group was "missed"

app == <<caller, quit, created>>
shared == <<state, connecting>>
players == <<current, session>>
supplicant == <<group, groups, p2p>>
vars == <<app, lock, shared, queue, main, players, listening, supplicant, fault, hist>>

Init ==
    /\ caller = "off" /\ lock = "free"
    /\ state = "INVALID" /\ connecting = FALSE
    /\ quit = FALSE /\ created = FALSE /\ queue = None
    /\ main = "none" /\ current = None
    /\ session = [s \in Session |-> "none"]
    /\ listening = FALSE /\ group = "none" /\ groups = 0 /\ p2p = "idle"
    /\ fault = "none"
    /\ hist = [e \in {"raced", "failed", "dropped", "missed"} |-> FALSE]

-----------------------------------------------------------------------------
(* What the threads share.                                                 *)

PostMessage(m) ==
    IF queue = None
    THEN fault' = "queue" /\ UNCHANGED <<queue, hist>>
    ELSE IF Len(queue) >= Capacity
    THEN hist' = [hist EXCEPT !.dropped = TRUE] /\ UNCHANGED <<queue, fault>>
    ELSE queue' = Append(queue, m) /\ UNCHANGED <<fault, hist>>

\* Mutant: the pointer is left on the deleted player.
DanglingPlayer ==
    IF current = None THEN UNCHANGED <<players, fault>>
    ELSE IF session[current] = "none" THEN fault' = "player" /\ UNCHANGED players
    ELSE session' = [session EXCEPT ![current] = "none"] /\ UNCHANGED <<current, fault>>

\* Mutant: the player is forgotten, not stopped.
ForgetPlayer ==
    /\ current' = None /\ UNCHANGED <<session, fault>>

\* mWFDPlayer->Stop() joins the session's threads; if it has none, anything may
\* happen.
StopPlayer ==
    IF current = None THEN UNCHANGED <<players, fault>>
    ELSE IF session[current] = "none" THEN fault' = "player" /\ UNCHANGED players
    ELSE /\ fault' \in {"none"} \cup IF session[current] = "new" THEN {"threads"} ELSE {}
         /\ session' = [session EXCEPT ![current] = "none"]
         /\ current' = None

Free == lock = "free" /\ fault = "none"

-----------------------------------------------------------------------------
(* The application's calls.                                                *)

Calls(from, to) == caller = from /\ caller' = to

Miracast_Init ==
    /\ Calls("off", "ready") /\ Free
    /\ created' = FALSE /\ quit' = FALSE /\ queue' = <<>> /\ state' = "INIT"
    /\ UNCHANGED <<lock, connecting, main, players, listening, supplicant, fault, hist>>

\* The lock is held while the supplicant's connections are waited for.
Miracast_Start ==
    /\ caller \in {"ready", "stopped"} /\ caller' = "waiting"
    /\ Free /\ lock' = "caller"
    /\ created' = TRUE
    /\ main' = IF created THEN main ELSE "loop"
    /\ UNCHANGED <<quit, shared, queue, players, listening, supplicant, fault, hist>>

StartConnected ==
    /\ Calls("waiting", "started") /\ fault = "none"
    /\ listening' = TRUE /\ state' = "START" /\ lock' = "free"
    /\ UNCHANGED <<quit, created, connecting, queue, main, players, supplicant, fault, hist>>

\* Miracast_Stop calls it first.
Miracast_Disconnect ==
    /\ Calls("started", "disconnect")
    /\ Free /\ lock' = "caller"
    /\ UNCHANGED <<quit, created, shared, queue, main, players, listening, supplicant>>
    /\ UNCHANGED <<fault, hist>>

DisconnectEnds ==
    /\ Calls("disconnect", "stopping") /\ fault = "none"
    /\ StopPlayer
    /\ hist' = [hist EXCEPT !.raced = @ \/ main \in {"setup", "start"}]
    /\ state' = "START" /\ lock' = "free"
    /\ UNCHANGED <<quit, created, connecting, queue, main, listening, supplicant>>

Miracast_Stop ==
    /\ Calls("stopping", "stopped") /\ Free
    /\ listening' = FALSE /\ state' = "INIT"
    /\ UNCHANGED <<quit, created, lock, connecting, queue, main, players, supplicant>>
    /\ UNCHANGED <<fault, hist>>

\* Mutant: the thread is not told to quit.
DeInitUntold ==
    /\ Calls("stopped", "join") /\ Free
    /\ UNCHANGED <<quit, created, lock, shared, queue, main, players, listening>>
    /\ UNCHANGED <<supplicant, fault, hist>>

\* The lock is given up while the thread is joined: RESET may need it.
Miracast_DeInit ==
    /\ Calls("stopped", "join") /\ Free
    /\ quit' = TRUE
    /\ UNCHANGED <<created, lock, shared, queue, main, players, listening, supplicant>>
    /\ UNCHANGED <<fault, hist>>

\* Mutant: the thread is not waited for.
DeInitUnjoined ==
    /\ Calls("join", "invalid") /\ fault = "none"
    /\ created' = FALSE /\ queue' = None
    /\ UNCHANGED <<quit, lock, shared, main, players, listening, supplicant, fault, hist>>

DeInitJoined ==
    /\ Calls("join", "invalid") /\ fault = "none"
    /\ main = "ended"
    /\ created' = FALSE /\ queue' = None
    /\ UNCHANGED <<quit, lock, shared, main, players, listening, supplicant, fault, hist>>

DeInitEnds ==
    /\ Calls("invalid", "off") /\ fault = "none"
    /\ state' = "INVALID"
    /\ UNCHANGED <<quit, created, lock, connecting, queue, main, players, listening>>
    /\ UNCHANGED <<supplicant, fault, hist>>

-----------------------------------------------------------------------------
(* WFDMainThread.                                                          *)

Goes(from, to) == main = from /\ main' = to /\ fault = "none"

MainEnds ==
    /\ Goes("loop", "ended") /\ quit
    /\ UNCHANGED <<app, lock, shared, queue, players, listening, supplicant, fault, hist>>

\* The state is read here, without the lock, and the supplicant asked later.
ListenTimeout ==
    /\ Goes("loop", "relisten") /\ ~quit
    /\ state = "START" /\ ~connecting
    /\ ~listening
    /\ UNCHANGED <<app, lock, shared, queue, players, listening, supplicant, fault, hist>>

P2P_StartListen ==
    /\ Goes("relisten", "loop")
    /\ listening' = TRUE
    /\ UNCHANGED <<app, lock, shared, queue, players, supplicant, fault, hist>>

GetTimesOut ==
    /\ main = "loop" /\ fault = "none" /\ ~quit
    /\ queue = <<>>
    /\ UNCHANGED vars

\* A client takes the default address; the owner of a group waits for its peer's.
Phase(m) ==
    CASE m = "reset" -> "reset" [] m = "client" -> "new" [] m = "go" -> "wait"

GetMessage ==
    /\ main = "loop" /\ fault = "none" /\ ~quit
    /\ queue \notin {None, <<>>}
    /\ queue' = Tail(queue) /\ main' = Phase(Head(queue))
    /\ UNCHANGED <<app, lock, shared, players, listening, supplicant, fault, hist>>

ResetLocks ==
    /\ Goes("reset", "resetting")
    /\ Free /\ lock' = "main"
    /\ UNCHANGED <<app, shared, queue, players, listening, supplicant, fault, hist>>

\* Mutant: the state is left as it was.
ResetKeepsState ==
    /\ Goes("resetting", "loop")
    /\ StopPlayer
    /\ listening' = TRUE /\ lock' = "free"
    /\ UNCHANGED <<app, shared, queue, supplicant, hist>>

Reset ==
    /\ Goes("resetting", "loop")
    /\ StopPlayer
    /\ listening' = TRUE /\ state' = "START" /\ lock' = "free"
    /\ UNCHANGED <<app, connecting, queue, supplicant, hist>>

PeerIP ==
    /\ main = "wait" /\ main' \in {"new", "loop"} /\ fault = "none"
    /\ UNCHANGED <<app, lock, shared, queue, players, listening, supplicant, fault, hist>>

\* The pointer is overwritten, whether or not there was a player.
NewPlayer ==
    /\ Goes("new", "setup")
    /\ \E s \in Session :
        /\ session[s] = "none"
        /\ session' = [session EXCEPT ![s] = "new"] /\ current' = s
    /\ hist' = [hist EXCEPT !.raced = @ \/ caller # "started"]
    /\ UNCHANGED <<app, lock, shared, queue, listening, supplicant, fault>>

\* Each step reads the pointer again; one that fails leaves the player.
Setup ==
    /\ Goes("setup", "start")
    /\ fault' = IF current = None THEN "player" ELSE "none"
    /\ UNCHANGED <<app, lock, shared, queue, players, listening, supplicant, hist>>

Start ==
    /\ Goes("start", "loop")
    /\ IF current = None
       THEN fault' = "player" /\ UNCHANGED session
       ELSE session' = [session EXCEPT ![current] = "running"] /\ UNCHANGED fault
    /\ UNCHANGED <<app, lock, shared, queue, current, listening, supplicant, hist>>

\* WFDPlayer2::Start may fail before it has made the session's threads or after.
SetupFails ==
    /\ main \in {"setup", "start"} /\ main' = "loop" /\ fault = "none"
    /\ current # None
    /\ \/ UNCHANGED session
       \/ main = "start" /\ session' = [session EXCEPT ![current] = "running"]
    /\ hist' = [hist EXCEPT !.failed = TRUE]
    /\ UNCHANGED <<app, lock, shared, queue, current, listening, supplicant, fault>>

-----------------------------------------------------------------------------
(* The sessions' threads: handleRTSPStatus, called between Start and Stop. *)

RTSPSetup(s) ==
    /\ session[s] = "running" /\ fault = "none"
    /\ session' = [session EXCEPT ![s] = "playing"]
    /\ state' = "CONNECT" /\ connecting' = FALSE
    /\ UNCHANGED <<app, lock, queue, main, current, listening, supplicant, fault, hist>>

RTSPTeardown(s) ==
    /\ session[s] = "playing" /\ fault = "none"
    /\ session' = [session EXCEPT ![s] = "over"]
    /\ connecting' = FALSE
    /\ PostMessage("reset")
    /\ UNCHANGED <<app, lock, state, main, current, listening, supplicant>>

-----------------------------------------------------------------------------
(* The supplicant, and its events in the P2P thread: WFDP2PCB reads the    *)
(* state first and posts later.                                            *)

ListenEnds ==
    /\ listening /\ fault = "none"
    /\ listening' = FALSE
    /\ UNCHANGED <<app, lock, shared, queue, main, players, supplicant, fault, hist>>

GroupForms ==
    /\ listening /\ group = "none" /\ groups < MaxGroups /\ fault = "none"
    /\ group' = "forming" /\ groups' = groups + 1 /\ listening' = FALSE
    /\ UNCHANGED <<app, lock, shared, queue, main, players, p2p, fault, hist>>

Event(from, to) ==
    /\ p2p = "idle" /\ fault = "none"
    /\ group = from /\ group' = to
    /\ UNCHANGED <<app, lock, state, queue, main, players, listening, groups, fault>>

GroupStarted ==
    /\ Event("forming", "up")
    /\ connecting' = (connecting \/ state # "INVALID")
    /\ UNCHANGED <<p2p, hist>>

\* An event without a peer or a port is ignored.
Connected ==
    /\ Event("up", "announced")
    /\ p2p' \in {"idle"} \cup IF state = "INVALID" THEN {} ELSE Role
    /\ UNCHANGED <<connecting, hist>>

\* Mutant: the end of a group is not passed on.
DisconnectUnposted ==
    /\ p2p = "idle" /\ fault = "none"
    /\ group # "none" /\ group' = "none"
    /\ connecting' = FALSE
    /\ UNCHANGED <<app, lock, state, queue, main, players, listening, groups, fault, p2p, hist>>

\* The group failed to form, or was removed.
Disconnected ==
    /\ group # "none" /\ Event(group, "none")
    /\ IF state = "INVALID"
       THEN hist' = [hist EXCEPT !.missed = @ \/ connecting] /\ UNCHANGED <<connecting, p2p>>
       ELSE connecting' = FALSE /\ p2p' = "reset" /\ UNCHANGED hist

P2PPosts ==
    /\ p2p # "idle" /\ fault = "none"
    /\ PostMessage(p2p) /\ p2p' = "idle"
    /\ UNCHANGED <<app, lock, shared, main, players, listening, group, groups>>

-----------------------------------------------------------------------------
Call == Miracast_Init \/ Miracast_Start \/ Miracast_Disconnect \/ Miracast_DeInit
CallGoesOn ==
    StartConnected \/ DisconnectEnds \/ Miracast_Stop \/ DeInitJoined \/ DeInitEnds
WFDMainThread ==
    \/ MainEnds \/ ListenTimeout \/ P2P_StartListen \/ GetMessage \/ GetTimesOut
    \/ ResetLocks \/ Reset \/ PeerIP \/ NewPlayer \/ Setup \/ Start \/ SetupFails
SessionThread == \E s \in Session : RTSPSetup(s) \/ RTSPTeardown(s)
Supplicant ==
    ListenEnds \/ GroupForms \/ GroupStarted \/ Connected \/ Disconnected
Faulty == fault # "none" /\ UNCHANGED vars

Next ==
    Call \/ CallGoesOn \/ WFDMainThread \/ SessionThread \/ Supplicant \/ P2PPosts \/ Faulty

Spec == Init /\ [][Next]_vars

\* The threads run, and the supplicant is reached at last.
FairSpec ==
    Spec /\ WF_vars(CallGoesOn) /\ WF_vars(WFDMainThread) /\ WF_vars(P2PPosts)

-----------------------------------------------------------------------------
(* Properties.                                                             *)

TypeOK ==
    /\ caller \in {"off", "ready", "waiting", "started", "disconnect", "stopping",
                   "stopped", "join", "invalid"}
    /\ lock \in {"free", "caller", "main"}
    /\ state \in {"INVALID", "INIT", "START", "CONNECT"}
    /\ connecting \in BOOLEAN /\ quit \in BOOLEAN
    /\ created \in BOOLEAN /\ listening \in BOOLEAN
    /\ queue = None \/ (queue \in Seq(Message) /\ Len(queue) <= Capacity)
    /\ main \in {"none", "loop", "relisten", "reset", "resetting", "wait", "new",
                 "setup", "start", "ended"}
    /\ current \in Session \cup {None}
    /\ session \in [Session -> {"none", "new", "running", "playing", "over"}]
    /\ group \in {"none", "forming", "up", "announced"} /\ groups \in 0 .. MaxGroups
    /\ p2p \in Message \cup {"idle"}
    /\ fault \in {"none", "player", "threads", "queue"}
    /\ hist \in [{"raced", "failed", "dropped", "missed"} -> BOOLEAN]

\* WFDMainThread has ended whenever the queue it reads does not exist or the
\* program believes that there is no thread, so there never are two.
ThreadJoined == (queue = None \/ ~created) => main \in {"none", "ended"}

\* The main thread meets a player that is gone only if the application stopped
\* while it was setting up a connection, or had stopped before; and a session
\* without threads is stopped only then, or when a session could not start.
PlayerAlive ==
    /\ fault = "player" => hist.raced
    /\ fault = "threads" => hist.raced \/ hist.failed

Undisturbed == ~hist.raced /\ ~hist.dropped

\* But for that, and for a message dropped at a full queue, no player is lost:
\* whatever lives is the current one.
OneSession ==
    Undisturbed => \A s \in Session : session[s] # "none" => s = current

\* And the state says CONNECT exactly while a session has been set up.
StateAgrees ==
    Undisturbed =>
        (state = "CONNECT" <=> \E s \in Session : session[s] \in {"playing", "over"})

\* Miracast_DeInit always returns: the thread that it joins never waits for a
\* lock that the caller holds.
DeInitReturns == caller = "join" ~> caller # "join" \/ fault # "none"

\* Once a group is gone the device listens again, or the next group comes first,
\* or the application stops; so it does when it has not been found for long,
\* unless the end of a group came while there was no Miracast.
ListensAgain ==
    (caller = "started" /\ group = "none" /\ Undisturbed /\ ~hist.missed)
        ~> (listening \/ group # "none" \/ caller # "started" \/ hist.dropped)
=============================================================================
