---------------------------- MODULE TimerChannel ----------------------------
(***************************************************************************)
(* A channel of a hardware timer (Timing/timer_channel.h) with its handler *)
(* (coarse_timer.cpp, fine_timer.cpp).  A thread or an interrupt of higher *)
(* priority may ask for another timeout at any moment.  While the current  *)
(* one is being served the request is left to the handler.                 *)
(***************************************************************************)
EXTENDS Naturals

CONSTANT Coincidences   \* "between": a request may come between the handler's
                        \* reading of DIER and its reading of SR

VARIABLES
    interruptEnabled,       \* TIM_DIER_CCxIE
    flag,                   \* TIM_SR_CCxIF
    state, newState,        \* callback and action
    updateState,            \* update_state
    waitDone,               \* wait_done
    waiting,                \* a thread is in wait_ticks()
    handler,                \* what is next in the handler
    dier,                   \* the handler's copy of interruptEnabled
    owed,                   \* what was requested last has yet to happen, or to happen again
    stale                   \* calls of earlier callbacks since the last request

requestV == <<state, newState, updateState, waitDone, waiting, owed, stale>>
handlerV == <<handler, dier>>
vars == <<interruptEnabled, flag, requestV, handlerV>>

\* A callback is that of the last request, or of an earlier one
Callback == {"latest", "earlier", "nullptr"}
OnTimeout == {"START_SINGLE", "START_REPETITIVE", "START_WAIT", "STOP", "REPEAT", "STOP_WAIT"}
State == [callback : Callback, action : OnTimeout]
Idle  == [callback |-> "nullptr", action |-> "START_SINGLE"]

\* Static storage
Init ==
    /\ interruptEnabled = FALSE /\ flag = FALSE
    /\ state = Idle /\ newState = Idle /\ updateState = FALSE
    /\ waitDone = FALSE /\ waiting = FALSE
    /\ handler = "idle" /\ dier = FALSE
    /\ owed = FALSE /\ stale = 0

\* The counter gets to CCRx, which is not stopped from doing so by TIM_DIER_CCxIE.
Match ==
    /\ flag' = TRUE
    /\ UNCHANGED <<interruptEnabled, requestV, handlerV>>

-----------------------------------------------------------------------------
(* Requests, each in a critical section.  A thread is kept from running by *)
(* the handler, but an interrupt is not, nor is the callback itself.       *)

Earlier(s) == IF s.callback = "latest" THEN [s EXCEPT !.callback = "earlier"] ELSE s

\* Mutants: a handler that is due is not left to serve the request; one is waited for
\* although its interrupt is not enabled.
IsServingNothing == FALSE
IsServingFlag    == flag

IsServingTimeout == interruptEnabled /\ flag

MayRequest == ~waiting /\ (handler = "status" => "between" \in Coincidences)

\* request_state(), or set_state() and schedule_timeout()
Request(callback, start, then) ==
    /\ MayRequest
    /\ IF IsServingTimeout
       THEN /\ newState' = [callback |-> callback, action |-> start]
            /\ updateState' = TRUE
            /\ state' = Earlier(state)
            /\ UNCHANGED <<interruptEnabled, flag>>
       ELSE /\ state' = [callback |-> callback, action |-> then]
            /\ flag' = FALSE
            /\ interruptEnabled' = TRUE
            /\ newState' = Earlier(newState)
            /\ UNCHANGED updateState
    /\ owed' = TRUE
    /\ stale' = 0
    /\ UNCHANGED handlerV

InvokeInTicks == Request("latest", "START_SINGLE", "STOP") /\ UNCHANGED <<waitDone, waiting>>

EveryTicksInvoke == Request("latest", "START_REPETITIVE", "REPEAT") /\ UNCHANGED <<waitDone, waiting>>

WaitTicks ==
    /\ handler = "idle"     \* only threads wait
    /\ Request("nullptr", "START_WAIT", "STOP_WAIT")
    /\ waitDone' = FALSE
    /\ waiting' = TRUE

\* while (!wait_done);
WaitEnds ==
    /\ waiting /\ waitDone
    /\ waiting' = FALSE
    /\ owed' = FALSE
    /\ UNCHANGED <<interruptEnabled, flag, state, newState, updateState, waitDone, stale, handlerV>>

Stop ==
    /\ MayRequest
    /\ IF IsServingTimeout
       THEN /\ newState' = [callback |-> "nullptr", action |-> "STOP"]
            /\ updateState' = TRUE
            /\ UNCHANGED interruptEnabled
       ELSE /\ interruptEnabled' = FALSE
            /\ newState' = Earlier(newState)
            /\ UNCHANGED updateState
    /\ state' = Earlier(state)
    /\ owed' = FALSE
    /\ stale' = 0
    /\ UNCHANGED <<flag, waitDone, waiting, handlerV>>

-----------------------------------------------------------------------------
(* handle_coarse_timer_interrupt(), handle_fine_timer_interrupt() *)

\* The interrupt is that of this channel or of another one.
ReadDier ==
    /\ handler = "idle"
    /\ dier' = interruptEnabled
    /\ handler' = "status"
    /\ UNCHANGED <<interruptEnabled, flag, requestV>>

ReadStatus ==
    /\ handler = "status"
    /\ handler' = IF dier /\ flag THEN "invoke" ELSE "idle"
    /\ UNCHANGED <<interruptEnabled, flag, requestV, dier>>

\* invoke_callback()
InvokeCallback ==
    /\ handler = "invoke"
    /\ handler' = "handle"
    /\ owed' = (owed /\ state.callback # "latest")
    /\ stale' = stale + (IF state.callback = "earlier" THEN 1 ELSE 0)
    /\ UNCHANGED <<interruptEnabled, flag, state, newState, updateState, waitDone, waiting, dier>>

\* handle_timeout(), interrupts disabled and the counter stopped; the flag is cleared
HandleTimeout ==
    /\ handler = "handle"
    /\ LET s == IF updateState THEN newState ELSE state IN
        /\ state' = [s EXCEPT !.action =
                CASE s.action = "START_SINGLE"     -> "STOP"
                  [] s.action = "START_REPETITIVE" -> "REPEAT"
                  [] s.action = "START_WAIT"       -> "STOP_WAIT"
                  [] OTHER -> s.action]
        /\ interruptEnabled' =
                CASE s.action \in {"START_SINGLE", "START_REPETITIVE", "START_WAIT"} -> TRUE
                  [] s.action \in {"STOP", "STOP_WAIT"} -> FALSE
                  [] OTHER -> interruptEnabled
        /\ waitDone' = (waitDone \/ s.action = "STOP_WAIT")
    /\ updateState' = FALSE
    /\ flag' = FALSE
    /\ handler' = "idle"
    /\ owed' = (owed \/ state' = [callback |-> "latest", action |-> "REPEAT"])
    /\ UNCHANGED <<newState, waiting, dier, stale>>

Handler == ReadStatus \/ InvokeCallback \/ HandleTimeout

-----------------------------------------------------------------------------
Next ==
    \/ Match \/ InvokeInTicks \/ EveryTicksInvoke \/ WaitTicks \/ WaitEnds \/ Stop
    \/ ReadDier \/ Handler

Spec == Init /\ [][Next]_vars

\* The counter runs, and the handler runs when the interrupt is pending.
Fairness ==
    /\ WF_vars(Match) /\ WF_vars(WaitEnds) /\ WF_vars(Handler)
    /\ SF_vars(ReadDier /\ IsServingTimeout)

FairSpec == Spec /\ Fairness

TypeOK ==
    /\ {interruptEnabled, flag, updateState, waitDone, waiting, dier, owed} \subseteq BOOLEAN
    /\ state \in State /\ newState \in State
    /\ handler \in {"idle", "status", "invoke", "handle"}
    /\ stale \in Nat

\* "Callback from prev. configuration still may be invoked once" (timing.h): and not twice.
StaleAtMostOnce == stale <= 1

\* A request is not lost, whether it comes before, while or after the handler serves the
\* previous one: the timeout is scheduled, or the handler is about to do that.
RequestIsKept ==
    owed => LET s == IF updateState THEN newState ELSE state IN
        /\ updateState \/ interruptEnabled \/ waitDone
        /\ waiting \/ s.callback = "latest"
        /\ updateState => IsServingTimeout

\* The latest request wins over what was asked for before, whatever the handler was doing.
LatestRequestWins == StaleAtMostOnce /\ RequestIsKept

\* Unless other requests keep coming, what was asked for happens, every period of it.
RequestIsServed ==
    \/ []<><<InvokeInTicks \/ EveryTicksInvoke \/ WaitTicks \/ Stop>>_vars
    \/ owed ~> ~owed
=============================================================================
