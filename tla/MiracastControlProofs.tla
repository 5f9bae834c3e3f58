------------------------ MODULE MiracastControlProofs ------------------------
(***************************************************************************)
(* Proofs about MiracastControl, for every queue, number of groups and     *)
(* number of players: the types, that no two threads read the messages and *)
(* none reads a queue that is gone, and when a player is met that is gone; *)
(* then that no player is lost, and the state tells of the session, unless *)
(* a connection raced with the application or a message was dropped.       *)
(***************************************************************************)
EXTENDS MiracastControl, TLAPS

NoThread == main \in {"none", "ended"}

\* The thread and the queue are there from Start to DeInit.
ThreadInv ==
    /\ queue = None <=> caller \in {"off", "invalid"}
    /\ caller \in {"off", "invalid", "ready"} => ~created /\ NoThread
    /\ caller \notin {"off", "invalid", "ready"} => created

\* A pointer that is not None points to a player; it is None under the main
\* thread, or a session without threads is left, only as the history tells.
PlayerInv ==
    /\ current # None => session[current] # "none"
    /\ (main \in {"setup", "start"} /\ current = None) => hist.raced
    /\ (current # None /\ session[current] = "new" /\ main \notin {"setup", "start"})
         => hist.raced \/ hist.failed
    /\ PlayerAlive

Inv == TypeOK /\ ThreadInv /\ PlayerInv

-----------------------------------------------------------------------------
LEMMA InitInv == Init => Inv
<1> SUFFICES ASSUME Init PROVE Inv
  OBVIOUS
<1>1. TypeOK
  <2>1. hist \in [{"raced", "failed", "dropped", "missed"} -> BOOLEAN]
    BY DEF Init
  <2>2. groups \in 0 .. MaxGroups
    BY BoundsAssumption DEF Init
  <2> QED
    BY <2>1, <2>2 DEF Init, TypeOK
<1>2. ThreadInv
  BY DEF Init, ThreadInv, NoThread
<1>3. PlayerInv
  BY DEF Init, PlayerInv, PlayerAlive
<1> QED
  BY <1>1, <1>2, <1>3 DEF Inv

-----------------------------------------------------------------------------
(* The types.                                                              *)

LEMMA PostType ==
  ASSUME TypeOK, NEW m \in Message, PostMessage(m)
  PROVE  /\ queue' = None \/ (queue' \in Seq(Message) /\ Len(queue') <= Capacity)
         /\ fault' \in {"none", "player", "threads", "queue"}
         /\ hist' \in [{"raced", "failed", "dropped", "missed"} -> BOOLEAN]
<1>1. CASE queue = None
  BY <1>1 DEF TypeOK, PostMessage
<1>2. CASE queue # None /\ Len(queue) >= Capacity
  BY <1>2 DEF TypeOK, PostMessage
<1>3. CASE queue # None /\ ~(Len(queue) >= Capacity)
  <2>1. queue \in Seq(Message)
    BY <1>3 DEF TypeOK
  <2>2. Append(queue, m) \in Seq(Message) /\ Len(Append(queue, m)) <= Capacity
    BY <1>3, <2>1, BoundsAssumption DEF Message
  <2> QED
    BY <1>3, <2>2 DEF TypeOK, PostMessage
<1> QED
  BY <1>1, <1>2, <1>3

LEMMA StopType ==
  ASSUME TypeOK, StopPlayer
  PROVE  /\ current' \in Session \cup {None}
         /\ session' \in [Session -> {"none", "new", "running", "playing", "over"}]
         /\ fault' \in {"none", "player", "threads", "queue"}
BY DEF TypeOK, StopPlayer, players

LEMMA EmptyType == <<>> \in Seq(Message) /\ Len(<<>>) <= Capacity
BY BoundsAssumption

LEMMA TakeType ==
  ASSUME NEW S, NEW q \in Seq(S), q # <<>>
  PROVE  Head(q) \in S /\ Tail(q) \in Seq(S) /\ Len(Tail(q)) < Len(q)
OBVIOUS

\* The types in three parts.
DataTypes ==
    /\ queue = None \/ (queue \in Seq(Message) /\ Len(queue) <= Capacity)
    /\ current \in Session \cup {None}
    /\ session \in [Session -> {"none", "new", "running", "playing", "over"}]
    /\ groups \in 0 .. MaxGroups
    /\ p2p \in Message \cup {"idle"}
    /\ hist \in [{"raced", "failed", "dropped", "missed"} -> BOOLEAN]
ControlTypes ==
    /\ caller \in {"off", "ready", "waiting", "started", "disconnect", "stopping",
                   "stopped", "join", "invalid"}
    /\ lock \in {"free", "caller", "main"}
    /\ state \in {"INVALID", "INIT", "START", "CONNECT"}
    /\ main \in {"none", "loop", "relisten", "reset", "resetting", "wait", "new",
                 "setup", "start", "ended"}
    /\ group \in {"none", "forming", "up", "announced"}
    /\ fault \in {"none", "player", "threads", "queue"}

FlagTypes ==
    /\ connecting \in BOOLEAN /\ quit \in BOOLEAN
    /\ created \in BOOLEAN /\ listening \in BOOLEAN

LEMMA TypeStep == TypeOK /\ [Next]_vars => TypeOK'
<1> SUFFICES ASSUME TypeOK, [Next]_vars PROVE TypeOK'
  OBVIOUS
<1> USE DEF TypeOK, app, shared, players, supplicant
<1>1. CASE Call
  <2>1. CASE Miracast_Init
    <3>3. DataTypes'
      BY <2>1, EmptyType DEF DataTypes, Miracast_Init, Calls
    <3>4. ControlTypes'
      BY <2>1, EmptyType DEF ControlTypes, Miracast_Init, Calls
    <3>5. FlagTypes'
      BY <2>1, EmptyType DEF FlagTypes, Miracast_Init, Calls
    <3> QED
      BY <3>3, <3>4, <3>5 DEF DataTypes, ControlTypes, FlagTypes
  <2>2. CASE Miracast_Start
    BY <2>2 DEF Miracast_Start
  <2>3. CASE Miracast_Disconnect \/ Miracast_DeInit
    BY <2>3 DEF Miracast_Disconnect, Miracast_DeInit, Calls
  <2> QED
    BY <1>1, <2>1, <2>2, <2>3 DEF Call
<1>2. CASE StartConnected \/ Miracast_Stop \/ DeInitJoined \/ DeInitEnds
  BY <1>2 DEF StartConnected, Miracast_Stop, DeInitJoined, DeInitEnds, Calls
<1>3. CASE DisconnectEnds
  <2>1. hist' \in [{"raced", "failed", "dropped", "missed"} -> BOOLEAN]
    BY <1>3 DEF DisconnectEnds
  <2> QED
    BY <1>3, <2>1, StopType DEF DisconnectEnds, Calls
<1>4. CASE MainEnds \/ ListenTimeout \/ P2P_StartListen \/ ResetLocks \/ PeerIP
             \/ GetTimesOut
  BY <1>4 DEF MainEnds, ListenTimeout, P2P_StartListen, ResetLocks, PeerIP,
              GetTimesOut, Goes, vars
<1>5. CASE GetMessage
  <2>1. queue \in Seq(Message) /\ queue # <<>> /\ Len(queue) <= Capacity
    BY <1>5 DEF GetMessage
  <2>2. Head(queue) \in Message /\ Tail(queue) \in Seq(Message)
        /\ Len(Tail(queue)) <= Capacity
    BY <2>1, TakeType, BoundsAssumption
  <2>3. Phase(Head(queue)) \in {"reset", "new", "wait"}
    BY <2>2 DEF Phase, Message, Role
  <2> QED
    BY <1>5, <2>2, <2>3 DEF GetMessage
<1>6. CASE Reset
  BY <1>6, StopType DEF Reset, Goes
<1>7. CASE NewPlayer \/ Setup \/ Start \/ SetupFails
  BY <1>7 DEF NewPlayer, Setup, Start, SetupFails, Goes
<1>8. CASE SessionThread
  <2> PICK s \in Session : RTSPSetup(s) \/ RTSPTeardown(s)
    BY <1>8 DEF SessionThread
  <2>1. CASE RTSPSetup(s)
    <3>1. session' \in [Session -> {"none", "new", "running", "playing", "over"}]
      BY <2>1 DEF RTSPSetup
    <3>3. DataTypes'
      BY <2>1, <3>1 DEF DataTypes, RTSPSetup
    <3>4. ControlTypes'
      BY <2>1 DEF ControlTypes, RTSPSetup
    <3>5. FlagTypes'
      BY <2>1 DEF FlagTypes, RTSPSetup
    <3> QED
      BY <3>3, <3>4, <3>5 DEF DataTypes, ControlTypes, FlagTypes
  <2>2. CASE RTSPTeardown(s)
    <3>1. session' \in [Session -> {"none", "new", "running", "playing", "over"}]
      BY <2>2 DEF RTSPTeardown
    <3>2. PostMessage("reset") /\ "reset" \in Message
      BY <2>2 DEF RTSPTeardown, Message
    <3>3. DataTypes'
      BY <2>2, <3>1, <3>2, PostType DEF DataTypes, RTSPTeardown
    <3>4. ControlTypes'
      BY <2>2, <3>2, PostType DEF ControlTypes, RTSPTeardown
    <3>5. FlagTypes'
      BY <2>2, <3>2, PostType DEF FlagTypes, RTSPTeardown
    <3> QED
      BY <3>3, <3>4, <3>5 DEF DataTypes, ControlTypes, FlagTypes
  <2> QED
    BY <2>1, <2>2
<1>9. CASE Supplicant
  <2>1. CASE GroupForms
    <3>1. groups' \in 0 .. MaxGroups
      BY <2>1, BoundsAssumption DEF GroupForms
    <3>3. DataTypes'
      BY <2>1, <3>1 DEF DataTypes, GroupForms
    <3>4. ControlTypes'
      BY <2>1 DEF ControlTypes, GroupForms
    <3>5. FlagTypes'
      BY <2>1 DEF FlagTypes, GroupForms
    <3> QED
      BY <3>3, <3>4, <3>5 DEF DataTypes, ControlTypes, FlagTypes
  <2>2. CASE ListenEnds
    <3>3. DataTypes'
      BY <2>2 DEF DataTypes, ListenEnds
    <3>4. ControlTypes'
      BY <2>2 DEF ControlTypes, ListenEnds
    <3>5. FlagTypes'
      BY <2>2 DEF FlagTypes, ListenEnds
    <3> QED
      BY <3>3, <3>4, <3>5 DEF DataTypes, ControlTypes, FlagTypes
  <2>3. CASE GroupStarted
    BY <2>3 DEF GroupStarted, Event
  <2>4. CASE Connected
    BY <2>4 DEF Connected, Event, Message
  <2>5. CASE Disconnected
    <3>1. hist' \in [{"raced", "failed", "dropped", "missed"} -> BOOLEAN]
      BY <2>5 DEF Disconnected
    <3>2. p2p' \in Message \cup {"idle"} /\ connecting' \in BOOLEAN
      BY <2>5 DEF Disconnected, Message
    <3> QED
      BY <2>5, <3>1, <3>2 DEF Disconnected, Event
  <2> QED
    BY <1>9, <2>1, <2>2, <2>3, <2>4, <2>5 DEF Supplicant
<1>10. CASE P2PPosts
  BY <1>10, PostType DEF P2PPosts
<1>11. CASE Faulty \/ UNCHANGED vars
  BY <1>11 DEF Faulty, vars
<1> QED
  BY <1>1, <1>2, <1>3, <1>4, <1>5, <1>6, <1>7, <1>8, <1>9, <1>10, <1>11
     DEF Next, CallGoesOn, WFDMainThread

-----------------------------------------------------------------------------
(* The thread and its queue.                                               *)

LEMMA PostKeepsQueue ==
  ASSUME TypeOK, NEW m \in Message, PostMessage(m)
  PROVE  queue' = None <=> queue = None
BY NoneAssumption DEF TypeOK, PostMessage

LEMMA ThreadStep == TypeOK /\ ThreadInv /\ [Next]_vars => ThreadInv'
<1> SUFFICES ASSUME TypeOK, ThreadInv, [Next]_vars PROVE ThreadInv'
  OBVIOUS
<1> USE DEF ThreadInv, NoThread, app
<1>0. <<>> # None
  BY EmptyType, NoneAssumption
<1>1. CASE Call
  BY <1>0, <1>1
     DEF Call, Miracast_Init, Miracast_Start, Miracast_Disconnect, Miracast_DeInit, Calls
<1>2. CASE CallGoesOn
  BY <1>2 DEF CallGoesOn, StartConnected, DisconnectEnds, Miracast_Stop,
              DeInitJoined, DeInitEnds, Calls
<1>3. CASE WFDMainThread
  <2>1. CASE GetMessage
    <3>1. Tail(queue) \in Seq(Message)
      BY <2>1, TakeType DEF TypeOK, GetMessage
    <3> QED
      BY <2>1, <3>1, NoneAssumption DEF GetMessage
  <2>2. ASSUME WFDMainThread, ~GetMessage PROVE ThreadInv'
    BY <2>2 DEF WFDMainThread, MainEnds, ListenTimeout, P2P_StartListen, GetTimesOut,
                ResetLocks, Reset, PeerIP, NewPlayer, Setup, Start, SetupFails, Goes, vars
  <2> QED
    BY <1>3, <2>1, <2>2
<1>4. CASE SessionThread
  BY <1>4, PostKeepsQueue DEF SessionThread, RTSPSetup, RTSPTeardown, Message
<1>5. CASE Supplicant
  BY <1>5 DEF Supplicant, ListenEnds, GroupForms, GroupStarted, Connected,
              Disconnected, Event
<1>6. CASE P2PPosts
  BY <1>6, PostKeepsQueue DEF P2PPosts, TypeOK
<1>7. CASE Faulty \/ UNCHANGED vars
  BY <1>7 DEF Faulty, vars
<1> QED
  BY <1>1, <1>2, <1>3, <1>4, <1>5, <1>6, <1>7 DEF Next

-----------------------------------------------------------------------------
(* The player.                                                             *)

LEMMA PostKeepsHistory ==
  ASSUME TypeOK, NEW m, PostMessage(m)
  PROVE  /\ hist'.raced = hist.raced /\ hist'.failed = hist.failed
         /\ fault' \in {fault, "queue"}
BY DEF TypeOK, PostMessage

LEMMA PlayerStep == TypeOK /\ ThreadInv /\ PlayerInv /\ [Next]_vars => PlayerInv'
<1> SUFFICES ASSUME TypeOK, ThreadInv, PlayerInv, [Next]_vars PROVE PlayerInv'
  OBVIOUS
<1> USE DEF PlayerInv, PlayerAlive, players
<1>1. CASE Call
  <2>1. UNCHANGED <<current, session, fault, hist>>
    BY <1>1 DEF Call, Miracast_Init, Miracast_Start, Miracast_Disconnect, Miracast_DeInit
  <2>2. main' = main \/ main' = "loop"
    BY <1>1 DEF Call, Miracast_Init, Miracast_Start, Miracast_Disconnect, Miracast_DeInit
  <2>3. main \notin {"setup", "start"} \/ main' = main
    BY <1>1 DEF Call, Miracast_Init, Miracast_Start, Miracast_Disconnect,
                Miracast_DeInit, ThreadInv, NoThread
  <2> QED
    BY <2>1, <2>2, <2>3
<1>2. CASE StartConnected \/ Miracast_Stop \/ DeInitJoined \/ DeInitEnds
  BY <1>2 DEF StartConnected, Miracast_Stop, DeInitJoined, DeInitEnds
<1>3. CASE DisconnectEnds
  <2>1. hist'.failed = hist.failed
    BY <1>3 DEF DisconnectEnds, TypeOK
  <2>2. hist'.raced = (hist.raced \/ main \in {"setup", "start"})
    BY <1>3 DEF DisconnectEnds, TypeOK
  <2> QED
    BY <1>3, <2>1, <2>2, NoneAssumption DEF DisconnectEnds, StopPlayer, TypeOK
<1>4. CASE Reset
  BY <1>4, NoneAssumption DEF Reset, Goes, StopPlayer, TypeOK
<1>5. CASE MainEnds \/ ListenTimeout \/ P2P_StartListen \/ ResetLocks \/ PeerIP
             \/ GetTimesOut
  BY <1>5 DEF MainEnds, ListenTimeout, P2P_StartListen, ResetLocks, PeerIP,
              GetTimesOut, Goes, vars
<1>6. CASE GetMessage
  <2>1. main = "loop" /\ main' \notin {"setup", "start"}
    <3>1. Head(queue) \in Message
      BY <1>6, TakeType DEF GetMessage, TypeOK
    <3> QED
      BY <1>6, <3>1 DEF GetMessage, Phase, Message, Role
  <2> QED
    BY <1>6, <2>1 DEF GetMessage
<1>7. CASE NewPlayer
  BY <1>7, NoneAssumption DEF NewPlayer, Goes, TypeOK
<1>8. CASE Setup \/ Start
  BY <1>8, NoneAssumption DEF Setup, Start, Goes, TypeOK
<1>9. CASE SetupFails
  BY <1>9 DEF SetupFails, TypeOK
<1>10. CASE SessionThread
  <2> PICK s \in Session : RTSPSetup(s) \/ RTSPTeardown(s)
    BY <1>10 DEF SessionThread
  <2>1. CASE RTSPSetup(s)
    BY <2>1 DEF RTSPSetup, TypeOK
  <2>2. CASE RTSPTeardown(s)
    BY <2>2, PostKeepsHistory DEF RTSPTeardown, TypeOK
  <2> QED
    BY <2>1, <2>2
<1>11. CASE Supplicant
  BY <1>11 DEF Supplicant, ListenEnds, GroupForms, GroupStarted, Connected,
               Disconnected, Event, TypeOK
<1>12. CASE P2PPosts
  BY <1>12, PostKeepsHistory DEF P2PPosts
<1>13. CASE Faulty \/ UNCHANGED vars
  BY <1>13 DEF Faulty, vars
<1> QED
  BY <1>1, <1>2, <1>3, <1>4, <1>5, <1>6, <1>7, <1>8, <1>9, <1>10, <1>11, <1>12, <1>13
     DEF Next, CallGoesOn, WFDMainThread

-----------------------------------------------------------------------------
THEOREM InvAlways == Spec => []Inv
<1>1. Inv /\ [Next]_vars => Inv'
  BY TypeStep, ThreadStep, PlayerStep DEF Inv
<1> QED
  BY <1>1, InitInv, PTL DEF Spec

\* Every variable keeps its type.
THEOREM MiracastTypes == Spec => []TypeOK
BY InvAlways, PTL DEF Inv

\* Init, Start and DeInit never leave a thread that reads a queue that is gone,
\* nor one that the program has forgotten.
THEOREM OneThread == Spec => []ThreadJoined
<1>1. Inv => ThreadJoined
  BY DEF Inv, ThreadInv, NoThread, ThreadJoined
<1> QED
  BY <1>1, InvAlways, PTL

\* A player that is gone, or a session without threads, is used only in the two
\* cases that the history names.
THEOREM PlayerUsedAlive == Spec => []PlayerAlive
<1>1. Inv => PlayerAlive
  BY DEF Inv, PlayerInv
<1> QED
  BY <1>1, InvAlways, PTL

-----------------------------------------------------------------------------
(* The order of the messages.  Between two groups the P2P thread posts a   *)
(* RESET, and whatever else is posted is a RESET too; so whenever the main *)
(* thread takes up a connection the player before it has gone.             *)

\* The message that the main thread is busy with and has not acted on.
Doing ==
    CASE main \in {"reset", "resetting"} -> "reset"
      [] main \in {"wait", "new"} -> "connect"
      [] OTHER -> "nothing"

\* Once it has, there is no player.
Freed == Doing = "reset" \/ (Doing = "nothing" /\ current = None)

\* Nor will there be one after all messages of the queue.
EndsFreed ==
    IF queue \in {None, <<>>} THEN Freed ELSE queue[Len(queue)] = "reset"

\* Every message to connect finds no player when its turn comes.
QueueInOrder ==
    \A i \in 1 .. Len(queue) :
        queue[i] # "reset" => IF i = 1 THEN Freed ELSE queue[i - 1] = "reset"

\* So do the one being handled and the one about to be posted; and while a
\* group is not yet, or no longer, announced all that is left of it is a RESET.
MessagesInOrder ==
    /\ Doing = "connect" => current = None
    /\ queue # None => QueueInOrder
    /\ p2p \in Role => EndsFreed
    /\ group # "announced" => p2p = "reset" \/ (p2p = "idle" /\ EndsFreed)

\* The player, the state and the callers.
SessionsKnown ==
    /\ OneSession /\ StateAgrees
    /\ caller \notin {"started", "disconnect"} => current = None
    /\ main \in {"setup", "start"} => current # None /\ session[current] = "new"

OrderInv ==
    /\ state = "INVALID" => caller = "off"
    /\ Undisturbed => MessagesInOrder /\ SessionsKnown

USE NoneAssumption DEF Undisturbed

-----------------------------------------------------------------------------
\* What the history has forgiven once, it goes on to forgive.
LEMMA HistoryGrows ==
  ASSUME TypeOK, [Next]_vars, Undisturbed'
  PROVE  Undisturbed
<1>1. CASE UNCHANGED hist
  BY <1>1
<1>2. CASE DisconnectEnds \/ NewPlayer \/ SetupFails \/ Disconnected
  BY <1>2 DEF TypeOK, DisconnectEnds, NewPlayer, SetupFails, Disconnected
<1>3. ASSUME NEW m, PostMessage(m) PROVE Undisturbed
  BY <1>3 DEF TypeOK, PostMessage
<1>4. CASE Call \/ StartConnected \/ Miracast_Stop \/ DeInitJoined \/ DeInitEnds
  BY <1>1, <1>4 DEF Call, Miracast_Init, Miracast_Start, Miracast_Disconnect,
                    Miracast_DeInit, StartConnected, Miracast_Stop, DeInitJoined, DeInitEnds
<1>5. CASE WFDMainThread
  BY <1>1, <1>2, <1>5 DEF WFDMainThread, MainEnds, ListenTimeout, P2P_StartListen,
       GetMessage, GetTimesOut, ResetLocks, Reset, PeerIP, Setup, Start, vars
<1>6. CASE SessionThread
  BY <1>1, <1>3, <1>6 DEF SessionThread, RTSPSetup, RTSPTeardown
<1>7. CASE Supplicant
  BY <1>1, <1>2, <1>7 DEF Supplicant, ListenEnds, GroupForms, GroupStarted, Connected
<1>8. CASE P2PPosts
  BY <1>3, <1>8 DEF P2PPosts
<1>9. CASE Faulty \/ UNCHANGED vars
  BY <1>1, <1>9 DEF Faulty, vars
<1> QED
  BY <1>2, <1>4, <1>5, <1>6, <1>7, <1>8, <1>9 DEF Next, CallGoesOn

\* The state is invalid only before Init and after DeInit.
LEMMA StateStep ==
  ASSUME TypeOK, state = "INVALID" => caller = "off", [Next]_vars
  PROVE  state' = "INVALID" => caller' = "off"
<1>1. CASE Call
  BY <1>1 DEF Call, Miracast_Init, Miracast_Start, Miracast_Disconnect,
              Miracast_DeInit, Calls, shared
<1>2. CASE CallGoesOn
  BY <1>2 DEF CallGoesOn, StartConnected, DisconnectEnds, Miracast_Stop,
              DeInitJoined, DeInitEnds, Calls, shared
<1>3. CASE WFDMainThread
  BY <1>3 DEF WFDMainThread, MainEnds, ListenTimeout, P2P_StartListen, GetMessage,
       GetTimesOut, ResetLocks, Reset, PeerIP, NewPlayer, Setup, Start, SetupFails,
       vars, app, shared
<1>4. CASE SessionThread
  BY <1>4 DEF SessionThread, RTSPSetup, RTSPTeardown, app
<1>5. CASE Supplicant \/ P2PPosts
  BY <1>5 DEF Supplicant, ListenEnds, GroupForms, GroupStarted, Connected,
              Disconnected, Event, P2PPosts, app, shared
<1>6. CASE Faulty \/ UNCHANGED vars
  BY <1>6 DEF Faulty, vars, app, shared
<1> QED
  BY <1>1, <1>2, <1>3, <1>4, <1>5, <1>6 DEF Next

-----------------------------------------------------------------------------
(* The order of the messages.                                              *)

\* It is kept by a step that posts and takes none, as long as a player that was
\* to be gone is.
LEMMA OrderStill ==
  ASSUME MessagesInOrder, UNCHANGED <<queue, p2p>>, Freed => Freed',
         Doing' = "connect" => current' = None,
         group' # "announced" => group # "announced"
  PROVE  MessagesInOrder'
<1>1. EndsFreed => EndsFreed'
  BY DEF EndsFreed
<1>2. queue # None => QueueInOrder'
  BY DEF MessagesInOrder, QueueInOrder
<1> QED
  BY <1>1, <1>2 DEF MessagesInOrder

\* A message posted comes last.
LEMMA PostInOrder ==
  ASSUME TypeOK, MessagesInOrder, NEW m \in Message, PostMessage(m), ~hist'.dropped,
         queue # None, m = "reset" \/ EndsFreed, UNCHANGED <<main, current>>
  PROVE  /\ queue' # None /\ QueueInOrder'
         /\ EndsFreed' <=> m = "reset"
<1>1. queue \in Seq(Message) /\ queue' = Append(queue, m)
  BY DEF TypeOK, PostMessage
<1>2. /\ queue' \in Seq(Message) /\ Len(queue') = Len(queue) + 1 /\ Len(queue) \in Nat
      /\ queue'[Len(queue) + 1] = m
      /\ \A i \in 1 .. Len(queue) : queue'[i] = queue[i]
  BY <1>1
<1>3. queue' # None /\ queue' # <<>>
  BY <1>2
<1>4. Freed' = Freed /\ Doing' = Doing
  BY DEF Freed, Doing
<1>5. QueueInOrder'
  <2> SUFFICES ASSUME NEW i \in 1 .. Len(queue'), queue'[i] # "reset"
               PROVE  IF i = 1 THEN Freed ELSE queue'[i - 1] = "reset"
    BY <1>4 DEF QueueInOrder
  <2>1. CASE i \in 1 .. Len(queue)
    BY <1>2, <2>1 DEF MessagesInOrder, QueueInOrder
  <2>2. CASE i = Len(queue) + 1
    <3>1. EndsFreed
      BY <1>2, <2>2
    <3>2. CASE Len(queue) = 0
      <4>1. queue = <<>>
        BY <1>1, <3>2
      <4> QED
        BY <2>2, <3>1, <3>2, <4>1 DEF EndsFreed
    <3>3. CASE Len(queue) # 0
      <4>1. queue # <<>> /\ Len(queue) \in 1 .. Len(queue)
        BY <1>2, <3>3
      <4> QED
        BY <1>2, <2>2, <3>1, <4>1 DEF EndsFreed
    <3> QED
      BY <3>2, <3>3
  <2> QED
    BY <1>2, <2>1, <2>2
<1>6. EndsFreed' <=> m = "reset"
  BY <1>2, <1>3 DEF EndsFreed
<1> QED
  BY <1>3, <1>5, <1>6

\* The message taken is the next to be acted on.
LEMMA TakeInOrder ==
  ASSUME TypeOK, MessagesInOrder, GetMessage
  PROVE  MessagesInOrder'
<1>1. queue \in Seq(Message) /\ queue # <<>> /\ queue' = Tail(queue)
  BY DEF GetMessage, TypeOK
<1>2. /\ queue' \in Seq(Message) /\ Len(queue') = Len(queue) - 1
      /\ Len(queue) \in Nat \ {0} /\ Head(queue) = queue[1] /\ queue[1] \in Message
      /\ \A i \in 1 .. Len(queue) - 1 : queue'[i] = queue[i + 1]
  BY <1>1
<1>3. UNCHANGED <<current, p2p, group>>
  BY DEF GetMessage, players, supplicant
<1>4. Doing = "nothing" /\ (Freed <=> current = None)
  BY DEF GetMessage, Doing, Freed
<1>5. Doing' = IF queue[1] = "reset" THEN "reset" ELSE "connect"
  BY <1>2 DEF GetMessage, Doing, Phase, Message, Role
<1>6. queue # None /\ (queue[1] # "reset" => current = None)
  BY <1>1, <1>2, <1>4 DEF MessagesInOrder, QueueInOrder
<1>7. Freed' <=> queue[1] = "reset"
  BY <1>5 DEF Freed
<1>8. QueueInOrder'
  <2> SUFFICES ASSUME NEW i \in 1 .. Len(queue'), queue'[i] # "reset"
               PROVE  IF i = 1 THEN Freed' ELSE queue'[i - 1] = "reset"
    BY DEF QueueInOrder
  <2>1. i + 1 \in 1 .. Len(queue) /\ i + 1 # 1 /\ queue[i + 1] # "reset"
    BY <1>2
  <2>2. queue[(i + 1) - 1] = "reset"
    BY <1>6, <2>1 DEF MessagesInOrder, QueueInOrder
  <2> QED
    BY <1>2, <1>7, <2>2
<1>9. EndsFreed => EndsFreed'
  <2>1. EndsFreed => queue[Len(queue)] = "reset"
    BY <1>1, <1>6 DEF EndsFreed
  <2>2. CASE Len(queue) = 1
    <3>1. queue' = <<>>
      BY <1>2, <2>2
    <3> QED
      BY <1>7, <2>1, <2>2, <3>1 DEF EndsFreed
  <2>3. CASE Len(queue) # 1
    <3>1. queue' # <<>> /\ queue'[Len(queue')] = queue[Len(queue)]
      BY <1>2, <2>3
    <3> QED
      BY <1>2, <2>1, <3>1 DEF EndsFreed
  <2> QED
    BY <2>2, <2>3
<1> QED
  BY <1>3, <1>5, <1>6, <1>8, <1>9 DEF MessagesInOrder

\* Without a player there is no session, and the state does not speak of one.
LEMMA NoSession ==
  ASSUME SessionsKnown, Undisturbed, current = None
  PROVE  (\A s \in Session : session[s] = "none") /\ state # "CONNECT"
BY DEF SessionsKnown, OneSession, StateAgrees

\* Stop and delete leave none behind.
LEMMA StopLeavesNone ==
  ASSUME TypeOK, PlayerInv, OneSession, Undisturbed, StopPlayer
  PROVE  current' = None /\ \A s \in Session : session'[s] = "none"
<1>1. CASE current = None
  BY <1>1 DEF StopPlayer, players, OneSession
<1>2. CASE current # None
  <2>1. current \in Session /\ session[current] # "none"
    BY <1>2 DEF TypeOK, PlayerInv
  <2> QED
    BY <1>2, <2>1 DEF StopPlayer, OneSession, TypeOK
<1> QED
  BY <1>1, <1>2

\* The messages stay in order.
LEMMA OrderStep ==
  ASSUME Inv, OrderInv, [Next]_vars, Undisturbed, Undisturbed'
  PROVE  MessagesInOrder'
<1> USE DEF Inv, OrderInv
<1>1. MessagesInOrder /\ SessionsKnown
  OBVIOUS
<1>2. queue = None => NoThread /\ current = None
  BY <1>1 DEF ThreadInv, SessionsKnown
<1>3. NoThread => Doing = "nothing"
  BY DEF NoThread, Doing
<1>4. CASE Miracast_Init \/ DeInitJoined
  <2>1. NoThread /\ current = None /\ UNCHANGED <<main, current, p2p, group>>
    BY <1>1, <1>4 DEF Miracast_Init, DeInitJoined, Calls, ThreadInv, SessionsKnown,
                      NoThread, players, supplicant
  <2>2. Freed' /\ Doing' = "nothing" /\ queue' \in {None, <<>>}
    BY <1>3, <1>4, <2>1 DEF Freed, Doing, Miracast_Init, DeInitJoined
  <2>3. EndsFreed' /\ (queue' # None => QueueInOrder')
    BY <2>2 DEF EndsFreed, QueueInOrder
  <2> QED
    BY <1>1, <2>1, <2>2, <2>3 DEF MessagesInOrder
<1>5. CASE GetMessage
  BY <1>1, <1>5, TakeInOrder
<1>6. CASE Miracast_Start \/ Miracast_Disconnect \/ Miracast_DeInit \/ StartConnected
             \/ Miracast_Stop \/ DeInitEnds
  <2>1. UNCHANGED <<queue, current, p2p, group>>
    BY <1>6 DEF Miracast_Start, Miracast_Disconnect, Miracast_DeInit, StartConnected,
                Miracast_Stop, DeInitEnds, players, supplicant
  <2>2. Doing' = Doing
    BY <1>6 DEF Miracast_Start, Miracast_Disconnect, Miracast_DeInit, StartConnected,
                Miracast_Stop, DeInitEnds, Calls, ThreadInv, NoThread, Doing
  <2>3. (Freed => Freed') /\ (Doing' = "connect" => current' = None)
    BY <1>1, <2>1, <2>2 DEF Freed, MessagesInOrder
  <2> QED
    BY <1>1, <2>1, <2>3, OrderStill
<1>7. CASE DisconnectEnds
  <2>1. current' = None /\ UNCHANGED <<queue, main, p2p, group>>
    BY <1>1, <1>7, StopLeavesNone DEF DisconnectEnds, SessionsKnown, supplicant
  <2>2. (Freed => Freed') /\ (Doing' = "connect" => current' = None)
    BY <2>1 DEF Freed, Doing
  <2> QED
    BY <1>1, <2>1, <2>2, OrderStill
<1>8. CASE Reset
  <2>1. current' = None /\ main' = "loop" /\ UNCHANGED <<queue, p2p, group>>
    BY <1>1, <1>8, StopLeavesNone DEF Reset, Goes, SessionsKnown, supplicant
  <2>2. Freed' /\ Doing' = "nothing"
    BY <2>1 DEF Freed, Doing
  <2> QED
    BY <1>1, <2>1, <2>2, OrderStill
<1>9. CASE MainEnds \/ ListenTimeout \/ P2P_StartListen \/ GetTimesOut \/ ResetLocks
             \/ PeerIP \/ Setup \/ Start \/ SetupFails
  <2>1. UNCHANGED <<queue, current, p2p, group>>
    BY <1>9 DEF MainEnds, ListenTimeout, P2P_StartListen, GetTimesOut, ResetLocks, PeerIP,
                Setup, Start, SetupFails, vars, players, supplicant
  <2>2. Doing' = Doing \/ (Doing = "connect" /\ Doing' = "nothing")
    BY <1>9 DEF MainEnds, ListenTimeout, P2P_StartListen, GetTimesOut, ResetLocks, PeerIP,
                Setup, Start, SetupFails, vars, Goes, Doing
  <2>3. (Freed => Freed') /\ (Doing' = "connect" => current' = None)
    BY <1>1, <2>1, <2>2 DEF Freed, MessagesInOrder
  <2> QED
    BY <1>1, <2>1, <2>3, OrderStill
<1>10. CASE NewPlayer
  <2>1. Doing = "connect" /\ Doing' = "nothing" /\ UNCHANGED <<queue, p2p, group>>
    BY <1>10 DEF NewPlayer, Goes, Doing, supplicant
  <2>2. ~Freed
    BY <2>1 DEF Freed
  <2> QED
    BY <1>1, <2>1, <2>2, OrderStill
<1>11. CASE SessionThread
  <2> PICK s \in Session : RTSPSetup(s) \/ RTSPTeardown(s)
    BY <1>11 DEF SessionThread
  <2>1. UNCHANGED <<main, current, p2p, group>>
    BY DEF RTSPSetup, RTSPTeardown, supplicant
  <2>2. Freed' = Freed /\ Doing' = Doing
    BY <2>1 DEF Freed, Doing
  <2>3. CASE RTSPSetup(s)
    <3>1. UNCHANGED queue
      BY <2>3 DEF RTSPSetup
    <3> QED
      BY <1>1, <2>1, <2>2, <3>1, OrderStill DEF MessagesInOrder
  <2>4. CASE RTSPTeardown(s)
    <3>1. queue # None /\ PostMessage("reset") /\ ~hist'.dropped
      BY <1>1, <1>2, <2>4, NoSession DEF RTSPTeardown
    <3>2. queue' # None /\ QueueInOrder' /\ EndsFreed'
      BY <1>1, <2>1, <3>1, PostInOrder DEF Message
    <3> QED
      BY <1>1, <2>1, <2>2, <3>2 DEF MessagesInOrder
  <2> QED
    BY <2>3, <2>4
<1>12. CASE Supplicant
  <2>1. UNCHANGED <<queue, main, current>>
    BY <1>12 DEF Supplicant, ListenEnds, GroupForms, GroupStarted, Connected,
                 Disconnected, Event, players
  <2>2. Freed' = Freed /\ Doing' = Doing
    BY <2>1 DEF Freed, Doing
  <2>3. EndsFreed' = EndsFreed /\ (queue # None => QueueInOrder')
    BY <1>1, <2>1, <2>2 DEF EndsFreed, QueueInOrder, MessagesInOrder
  <2>4. CASE ListenEnds \/ GroupForms \/ GroupStarted
    <3>1. UNCHANGED p2p /\ (group' # "announced" => group # "announced")
      BY <2>4 DEF ListenEnds, GroupForms, GroupStarted, Event, supplicant
    <3> QED
      BY <1>1, <2>1, <2>2, <2>3, <3>1 DEF MessagesInOrder
  <2>5. CASE Connected
    <3>1. EndsFreed /\ group' = "announced"
      BY <1>1, <2>5 DEF Connected, Event, MessagesInOrder
    <3> QED
      BY <1>1, <2>1, <2>2, <2>3, <3>1 DEF MessagesInOrder
  <2>6. CASE Disconnected
    <3>1. p2p = "idle" /\ p2p' \in {"idle", "reset"}
      BY <2>6 DEF Disconnected, Event
    <3>2. p2p' = "idle" => EndsFreed
      <4>1. ASSUME p2p' = "idle" PROVE queue = None
        BY <2>6, <4>1 DEF Disconnected, ThreadInv
      <4> QED
        BY <1>2, <1>3, <4>1 DEF EndsFreed, Freed
    <3> QED
      BY <1>1, <2>1, <2>2, <2>3, <3>1, <3>2 DEF MessagesInOrder, Role
  <2> QED
    BY <1>12, <2>4, <2>5, <2>6 DEF Supplicant
<1>13. CASE P2PPosts
  <2>1. UNCHANGED <<main, current, group>> /\ p2p' = "idle"
        /\ p2p \in Message /\ PostMessage(p2p) /\ ~hist'.dropped
    BY <1>13 DEF P2PPosts, players, TypeOK
  <2>2. Freed' = Freed /\ Doing' = Doing
    BY <2>1 DEF Freed, Doing
  <2>3. CASE queue = None
    <3>1. queue' = None /\ EndsFreed'
      BY <1>2, <1>3, <2>1, <2>2, <2>3 DEF PostMessage, EndsFreed, Freed
    <3> QED
      BY <1>1, <2>1, <2>2, <3>1 DEF MessagesInOrder, Role
  <2>4. CASE queue # None
    <3>1. p2p = "reset" \/ (EndsFreed /\ group = "announced")
      BY <1>1, <2>1 DEF MessagesInOrder, Message, Role
    <3>2. queue' # None /\ QueueInOrder' /\ (EndsFreed' <=> p2p = "reset")
      BY <1>1, <2>1, <2>4, <3>1, PostInOrder
    <3> QED
      BY <1>1, <2>1, <2>2, <3>1, <3>2 DEF MessagesInOrder, Role
  <2> QED
    BY <2>3, <2>4
<1>14. CASE Faulty \/ UNCHANGED vars
  <2>1. UNCHANGED vars
    BY <1>14 DEF Faulty
  <2>2. UNCHANGED <<queue, p2p, group, main, current>>
    BY <2>1 DEF vars, players, supplicant
  <2> QED
    BY <1>1, <2>2 DEF MessagesInOrder, QueueInOrder, EndsFreed, Freed, Doing
<1> QED
  BY <1>4, <1>5, <1>6, <1>7, <1>8, <1>9, <1>10, <1>11, <1>12, <1>13, <1>14
     DEF Next, Call, CallGoesOn, WFDMainThread

-----------------------------------------------------------------------------
(* The sessions.                                                           *)

\* None is left, and the state says so.
LEMMA SessionsGone ==
  ASSUME current' = None, \A s \in Session : session'[s] = "none",
         state' # "CONNECT", main' \notin {"setup", "start"}
  PROVE  SessionsKnown'
BY DEF SessionsKnown, OneSession, StateAgrees

\* The sessions stay known.
LEMMA SessionsStep ==
  ASSUME Inv, OrderInv, [Next]_vars, Undisturbed, Undisturbed'
  PROVE  SessionsKnown'
<1> USE DEF Inv, OrderInv
<1>1. MessagesInOrder /\ SessionsKnown
  OBVIOUS
<1>2. CASE Miracast_Init \/ Miracast_Start \/ StartConnected \/ Miracast_Stop \/ DeInitEnds
  <2>1. current = None
    BY <1>1, <1>2 DEF SessionsKnown, Miracast_Init, Miracast_Start, StartConnected,
                      Miracast_Stop, DeInitEnds, Calls
  <2>2. UNCHANGED <<current, session>>
    BY <1>2 DEF Miracast_Init, Miracast_Start, StartConnected, Miracast_Stop, DeInitEnds,
                players
  <2>3. state' # "CONNECT"
    BY <1>1, <1>2, <2>1, NoSession DEF Miracast_Init, Miracast_Start, StartConnected,
                                       Miracast_Stop, DeInitEnds, shared
  <2>4. main \notin {"setup", "start"} /\ (main' = main \/ main' = "loop")
    BY <1>1, <1>2, <2>1 DEF SessionsKnown, Miracast_Init, Miracast_Start, StartConnected,
                            Miracast_Stop, DeInitEnds
  <2> QED
    BY <1>1, <2>1, <2>2, <2>3, <2>4, NoSession, SessionsGone
<1>3. CASE Miracast_Disconnect \/ Miracast_DeInit \/ DeInitJoined
  <2>1. UNCHANGED <<current, session, state, main>>
    BY <1>3 DEF Miracast_Disconnect, Miracast_DeInit, DeInitJoined, players, shared
  <2>2. caller' \notin {"started", "disconnect"} => caller \notin {"started", "disconnect"}
    BY <1>3 DEF Miracast_Disconnect, Miracast_DeInit, DeInitJoined, Calls
  <2> QED
    BY <1>1, <2>1, <2>2 DEF SessionsKnown, OneSession, StateAgrees
<1>4. CASE DisconnectEnds \/ Reset
  <2>1. current' = None /\ \A s \in Session : session'[s] = "none"
    BY <1>1, <1>4, StopLeavesNone DEF DisconnectEnds, Reset, SessionsKnown
  <2>2. state' = "START" /\ main' \notin {"setup", "start"}
    BY <1>4 DEF DisconnectEnds, Reset, Goes, TypeOK
  <2> QED
    BY <2>1, <2>2, SessionsGone
<1>5. CASE MainEnds \/ ListenTimeout \/ P2P_StartListen \/ GetTimesOut \/ GetMessage
             \/ ResetLocks \/ PeerIP \/ Setup \/ (SetupFails /\ UNCHANGED session)
  <2>1. UNCHANGED <<current, session, state, caller>>
    BY <1>5 DEF MainEnds, ListenTimeout, P2P_StartListen, GetTimesOut, GetMessage,
                ResetLocks, PeerIP, Setup, SetupFails, vars, players, shared, app
  <2>2. main' \in {"setup", "start"} => main \in {"setup", "start"}
    <3>1. CASE GetMessage
      BY <3>1, TakeType DEF GetMessage, TypeOK, Phase, Message, Role
    <3>2. CASE ~GetMessage
      BY <1>5, <3>2 DEF MainEnds, ListenTimeout, P2P_StartListen, GetTimesOut,
                        ResetLocks, PeerIP, Setup, SetupFails, Goes, vars
    <3> QED
      BY <3>1, <3>2
  <2> QED
    BY <1>1, <2>1, <2>2 DEF SessionsKnown, OneSession, StateAgrees
<1>6. CASE NewPlayer
  <2>1. current = None /\ UNCHANGED <<caller, state>> /\ main' = "setup"
    BY <1>1, <1>6 DEF MessagesInOrder, Doing, NewPlayer, Goes, app, shared
  <2>2. caller = "started"
    BY <1>6 DEF NewPlayer, TypeOK
  <2>3. PICK s \in Session : session' = [session EXCEPT ![s] = "new"] /\ current' = s
    BY <1>6 DEF NewPlayer
  <2>4. session'[s] = "new" /\ \A t \in Session \ {s} : session'[t] = "none"
    BY <1>1, <2>1, <2>3, NoSession DEF TypeOK
  <2>5. state' # "CONNECT" /\ s # None
    BY <1>1, <2>1, NoSession
  <2> QED
    BY <2>1, <2>2, <2>3, <2>4, <2>5 DEF SessionsKnown, OneSession, StateAgrees
<1>7. CASE Start \/ (SetupFails /\ session' # session)
  <2>1. /\ main = "start" /\ main' = "loop" /\ UNCHANGED <<caller, state, current>>
        /\ current # None => session' = [session EXCEPT ![current] = "running"]
    BY <1>7 DEF Start, SetupFails, Goes, app, shared
  <2>2. current # None /\ session[current] = "new" /\ current \in Session
    BY <1>1, <2>1 DEF SessionsKnown, TypeOK
  <2>3. session'[current] = "running" /\ \A t \in Session \ {current} : session'[t] = session[t]
    BY <2>1, <2>2 DEF TypeOK
  <2> QED
    BY <1>1, <2>1, <2>2, <2>3 DEF SessionsKnown, OneSession, StateAgrees
<1>8. CASE SessionThread
  <2> PICK s \in Session : RTSPSetup(s) \/ RTSPTeardown(s)
    BY <1>8 DEF SessionThread
  <2>1. UNCHANGED <<main, current, caller>>
    BY DEF RTSPSetup, RTSPTeardown, app
  <2>2. current = s /\ s # None /\ session[s] \notin {"none", "new"}
    BY <1>1 DEF SessionsKnown, OneSession, RTSPSetup, RTSPTeardown
  <2>3. /\ session'[s] \in {"playing", "over"}
        /\ \A t \in Session \ {s} : session'[t] = session[t]
    BY DEF RTSPSetup, RTSPTeardown, TypeOK
  <2>4. state' = "CONNECT"
    BY <1>1 DEF SessionsKnown, StateAgrees, RTSPSetup, RTSPTeardown
  <2> QED
    BY <1>1, <2>1, <2>2, <2>3, <2>4 DEF SessionsKnown, OneSession, StateAgrees
<1>9. CASE Supplicant \/ P2PPosts \/ Faulty \/ UNCHANGED vars
  <2>1. UNCHANGED <<current, session, state, caller, main>>
    BY <1>9 DEF Supplicant, ListenEnds, GroupForms, GroupStarted, Connected, Disconnected,
                Event, P2PPosts, Faulty, vars, players, shared, app
  <2> QED
    BY <1>1, <2>1 DEF SessionsKnown, OneSession, StateAgrees
<1> QED
  BY <1>2, <1>3, <1>4, <1>5, <1>6, <1>7, <1>8, <1>9
     DEF Next, Call, CallGoesOn, WFDMainThread

-----------------------------------------------------------------------------
\* Messages are in order and the sessions known, throughout.
THEOREM OrderAlways == Spec => []OrderInv
<1>1. Init => OrderInv
  BY DEF Init, OrderInv, MessagesInOrder, EndsFreed, Freed, Doing, SessionsKnown,
         OneSession, StateAgrees, Role
<1>2. Inv /\ OrderInv /\ [Next]_vars => OrderInv'
  <2> SUFFICES ASSUME Inv, OrderInv, [Next]_vars PROVE OrderInv'
    OBVIOUS
  <2>1. state' = "INVALID" => caller' = "off"
    BY StateStep DEF Inv, OrderInv
  <2>2. ASSUME Undisturbed' PROVE MessagesInOrder' /\ SessionsKnown'
    BY <2>2, HistoryGrows, OrderStep, SessionsStep DEF Inv
  <2> QED
    BY <2>1, <2>2 DEF OrderInv
<1> QED
  BY <1>1, <1>2, InvAlways, PTL DEF Spec

\* Unless a connection raced with the application, or a message was dropped, the
\* program never forgets a player: every one that lives is the current one.
THEOREM NoPlayerLost == Spec => []OneSession
<1>1. OrderInv => OneSession
  BY DEF OrderInv, SessionsKnown, OneSession
<1> QED
  BY <1>1, OrderAlways, PTL

\* Nor does the state, then, say anything but what has become of the session.
THEOREM StateTellsOfSession == Spec => []StateAgrees
<1>1. OrderInv => StateAgrees
  BY DEF OrderInv, SessionsKnown, StateAgrees
<1> QED
  BY <1>1, OrderAlways, PTL
=============================================================================
