---------------------------- MODULE MirrorEngine ----------------------------
(***************************************************************************)
(* The casting library (screenmirror_lib/src/core): one global engine that *)
(* the application's threads drive through the screenmirror_* calls.       *)
(*                                                                         *)
(* The engine keeps its state twice, in engine->state and in the state     *)
(* machine, which refuses a change that is not in its table while the      *)
(* engine goes ahead.  A call changes the state under engine->lock and     *)
(* tells the user's callback after it has let the lock go, so calls of     *)
(* other threads come in between.  The event system has no subscriber in   *)
(* the library; an event is what the user's callback is given.             *)
(*                                                                         *)
(* screenmirror_exit frees the engine and screenmirror_init builds it, so  *)
(* an application calls neither while another call is in progress.         *)
(***************************************************************************)
EXTENDS FiniteSets

CONSTANTS
    Thread,     \* the application's threads
    NoThread

ASSUME ThreadAssumption == NoThread \notin Thread

VARIABLES
    initialized,        \* g_mirror_engine is not NULL
    state,              \* engine->state
    machine,            \* state_machine->current_state
    discoveryRunning,   \* engine->discovery_running
    hasCallback,        \* engine->user_event_callback is set
    lock,               \* the holder of engine->lock
    pc,                 \* what each thread is doing
    seen                \* what the callback read with get_state the last time

engine == <<state, machine, discoveryRunning>>
vars == <<initialized, engine, hasCallback, lock, pc, seen>>

States == {"idle", "discovering", "connecting", "connected", "streaming",
           "paused", "error"}

-----------------------------------------------------------------------------
(* The state machine.                                                      *)

\* Mutant: a connection being made cannot be given up.
LegalNoCancel ==
    [idle        |-> {"discovering", "connecting"},
     discovering |-> {"idle", "connecting"},
     connecting  |-> {"connected", "error"},
     connected   |-> {"streaming", "idle", "error"},
     streaming   |-> {"paused", "idle", "error"},
     paused      |-> {"streaming", "idle", "error"},
     error       |-> {"idle"}]

Legal ==
    [idle        |-> {"discovering", "connecting"},
     discovering |-> {"idle", "connecting"},
     connecting  |-> {"connected", "idle", "error"},
     connected   |-> {"streaming", "idle", "error"},
     streaming   |-> {"paused", "idle", "error"},
     paused      |-> {"streaming", "idle", "error"},
     error       |-> {"idle"}]

\* A change that is not legal is reported and ignored.
Transition(new) ==
    machine' = IF new \in Legal[machine] THEN new ELSE machine

-----------------------------------------------------------------------------
Init ==
    /\ initialized = FALSE
    /\ state = "idle" /\ machine = "idle" /\ discoveryRunning = FALSE
    /\ hasCallback = FALSE
    /\ lock = NoThread
    /\ pc = [t \in Thread |-> "out"]
    /\ seen = "idle"

Quiet == \A t \in Thread : pc[t] = "out"

Create ==
    /\ Quiet /\ ~initialized
    /\ initialized' = TRUE
    /\ state' = "idle" /\ machine' = "idle" /\ discoveryRunning' = FALSE
    /\ hasCallback' = FALSE /\ seen' = "idle"
    /\ UNCHANGED <<lock, pc>>

\* A call that finds the engine and gets its lock.
Enters(t) == initialized /\ pc[t] = "out" /\ lock = NoThread

SetEventCallback(t) ==
    /\ Enters(t) /\ ~hasCallback
    /\ hasCallback' = TRUE /\ seen' = state
    /\ UNCHANGED <<initialized, engine, lock, pc>>

\* The lock is released and the event is still to be delivered.
Emit(t) == pc' = [pc EXCEPT ![t] = "emit"]

StartDiscovery(t) ==
    /\ Enters(t) /\ ~discoveryRunning
    /\ discoveryRunning' = TRUE
    /\ state' = "discovering" /\ Transition("discovering")
    /\ Emit(t)
    /\ UNCHANGED <<initialized, hasCallback, lock, seen>>

StopDiscovery(t) ==
    /\ Enters(t) /\ discoveryRunning
    /\ discoveryRunning' = FALSE
    /\ state' = "idle" /\ Transition("idle")
    /\ Emit(t)
    /\ UNCHANGED <<initialized, hasCallback, lock, seen>>

\* Mutant: no event is sent.
ConnectSilently(t) ==
    /\ Enters(t) /\ state \in {"idle", "discovering"}
    /\ state' = "connecting" /\ Transition("connecting")
    /\ UNCHANGED <<initialized, discoveryRunning, hasCallback, lock, pc, seen>>

Connect(t) ==
    /\ Enters(t) /\ state \in {"idle", "discovering"}
    /\ state' = "connecting" /\ Transition("connecting")
    /\ Emit(t)
    /\ UNCHANGED <<initialized, discoveryRunning, hasCallback, lock, seen>>

Disconnect(t) ==
    /\ Enters(t) /\ state # "idle"
    /\ state' = "idle" /\ Transition("idle")
    /\ Emit(t)
    /\ UNCHANGED <<initialized, discoveryRunning, hasCallback, lock, seen>>

\* The user's callback runs without the lock and asks for the state.
Deliver(t) ==
    /\ pc[t] = "emit" /\ lock = NoThread
    /\ seen' = IF hasCallback THEN state ELSE seen
    /\ pc' = [pc EXCEPT ![t] = "out"]
    /\ UNCHANGED <<initialized, engine, hasCallback, lock>>

\* screenmirror_exit keeps the lock to the end.  When discovery runs or the
\* engine is not idle it calls stop_discovery or disconnect, which begin by
\* locking: the thread waits for the lock that it holds.
Exit(t) ==
    /\ Enters(t) /\ Quiet
    /\ IF discoveryRunning \/ state # "idle"
         THEN /\ lock' = t /\ pc' = [pc EXCEPT ![t] = "exit"]
              /\ UNCHANGED initialized
         ELSE initialized' = FALSE /\ UNCHANGED <<lock, pc>>
    /\ UNCHANGED <<engine, hasCallback, seen>>

Next ==
    \/ Create
    \/ \E t \in Thread :
          \/ SetEventCallback(t) \/ StartDiscovery(t) \/ StopDiscovery(t)
          \/ Connect(t) \/ Disconnect(t) \/ Deliver(t) \/ Exit(t)

Spec == Init /\ [][Next]_vars

-----------------------------------------------------------------------------
TypeOK ==
    /\ initialized \in BOOLEAN /\ hasCallback \in BOOLEAN
    /\ state \in States /\ machine \in States /\ seen \in States
    /\ discoveryRunning \in BOOLEAN
    /\ lock \in Thread \cup {NoThread}
    /\ pc \in [Thread -> {"out", "emit", "exit"}]

\* However the calls are ordered, the two states agree on whether the engine is
\* idle, so a refused change never leaves one of them behind there; apart from
\* a discovery started over a connection they are the same.
StatesAgree ==
    \/ machine = state
    \/ machine = "connecting" /\ state = "discovering"

\* The engine that says it is discovering has the flag that lets
\* stop_discovery end that.
DiscoveringIsRunning == state = "discovering" => discoveryRunning

\* No change is missed: with no event on its way, the state that the callback
\* read last is the state, whatever the order the events came in.
CallbackUpToDate ==
    initialized /\ hasCallback /\ seen # state => \E t \in Thread : pc[t] = "emit"

IInv == TypeOK /\ StatesAgree /\ DiscoveringIsRunning /\ CallbackUpToDate
=============================================================================
