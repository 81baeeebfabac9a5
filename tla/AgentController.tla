-------------------------- MODULE AgentController --------------------------
(***************************************************************************)
(* openhands/controller/agent_controller.py: the agent's control loop,     *)
(* with the two other subscribers of the event stream it works with (the   *)
(* runtime that executes actions, the memory that answers recalls), the    *)
(* user, and the status callback by which the web session puts the         *)
(* controller into ERROR from a thread of its own.                         *)
(*                                                                         *)
(* The stream is a sequence of events; an event's id is its position, and  *)
(* each subscriber handles the events in order, one at a time, at its own  *)
(* pace.  A subscriber goes straight to the next event that it does        *)
(* something about.  The controller's step is cut at the call of the       *)
(* language model, where everyone else runs while the model thinks, and    *)
(* again between the pending action, the state and the stream, where the   *)
(* session's error status may come in between; the error status is cut in  *)
(* the same way.  A handler up to the model's call is one step.            *)
(* Delegates, replay and loop recovery are not part of this module.        *)
(***************************************************************************)
EXTENDS Naturals, Sequences, FiniteSets

CONSTANTS
    Outcomes,      \* what agent.step may do
    Inputs,        \* what the user may send
    Failures,      \* who may fail: "runtime", "memory"
    ConfirmationMode, \* whether risky actions await the user's confirmation
    HeadlessMode,  \* whether nobody is there to extend the limits
    Iterations,    \* iteration_delta: the limit and what it grows by
    MaxInputs      \* bound on the number of inputs

AllOutcomes == {"safe", "risky", "say", "ask", "finish", "reject", "malformed",
                "context", "raise", "rate_limit", "stuck", "budget"}
AllInputs   == {"message", "stop", "pause", "confirm", "decline", "close"}

ASSUME InputsAssumption ==
    /\ Outcomes \subseteq AllOutcomes
    /\ Inputs \subseteq AllInputs
    /\ Failures \subseteq {"runtime", "memory"}
    /\ ConfirmationMode \in BOOLEAN
    /\ HeadlessMode \in BOOLEAN
    /\ Iterations \in Nat \ {0}
    /\ MaxInputs \in Nat

VARIABLES
    log,        \* the event stream
    seen,       \* the last event the controller has handled
    agentState, \* state.agent_state
    pending,    \* _pending_action
    iter,       \* iteration_flag.current_value
    max,        \* iteration_flag.max_value
    hit,        \* iteration_flag._hit_limit
    thinking,   \* the controller's thread is inside agent.step
    ending,     \* where it is after that with the action of the step, or "no"
    interrupted,\* history: an error status was under way during that
    stepped,    \* history: the value of seen when the model was last called
    rtSeen,     \* the last event the runtime has taken
    running,    \* the event the runtime is executing, or 0
    executed,   \* history: the events the runtime has started to execute
    memSeen,    \* the last recall the memory has handled
    held,       \* an error status waits in the memory's event loop
    alarms,     \* the number of error statuses on their way to the session
    status,     \* where the session is with one of them, or "no"
    crossed,    \* history: MessageCrosses has happened
    closed,     \* the session is closed, and the stream with it
    calls,      \* tool calls made so far
    inputs      \* inputs sent so far

ctlVars == <<agentState, pending, iter, max, hit, seen, thinking, stepped, calls,
             ending, interrupted, crossed>>
rtVars  == <<rtSeen, running, executed>>
memVars == <<memSeen, held>>
vars    == <<log, ctlVars, rtVars, memVars, alarms, status, closed, inputs>>

-----------------------------------------------------------------------------
(***************************************************************************)
(* Events.  cause is the id of the action that an observation answers, 0   *)
(* for none; call identifies the tool call (tool_call_metadata), 0 for     *)
(* none; arg is the state, confirmation_state or wait_for_response.        *)
(***************************************************************************)
Event(kind, cause, call, arg) ==
    [kind |-> kind, cause |-> cause, call |-> call, arg |-> arg]

\* Observations that get into state.history: NullObservation and
\* AgentStateChangedObservation are filtered out.
InHistory(e) == e.kind \in {"observation", "error"}

NoAction == [id |-> 0, kind |-> "none", call |-> 0, arg |-> "none"]

Init ==
    /\ log = <<>>
    /\ seen = 0
    /\ agentState = "awaiting_user_input"
    /\ pending = NoAction
    /\ iter = 0
    /\ max = Iterations
    /\ hit = FALSE
    /\ thinking = FALSE
    /\ ending = "no"
    /\ interrupted = FALSE
    /\ crossed = FALSE
    /\ stepped = 0
    /\ rtSeen = 0
    /\ running = 0
    /\ executed = {}
    /\ memSeen = 0
    /\ held = FALSE
    /\ alarms = 0
    /\ status = "no"
    /\ closed = FALSE
    /\ calls = 0
    /\ inputs = 0

(***************************************************************************)
(* The part of the state that set_agent_state_to works on, as one record,  *)
(* so that its calls can be composed the way the handlers compose them.    *)
(***************************************************************************)
World == [state |-> agentState, pending |-> pending, max |-> max, hit |-> hit,
          log |-> log, seen |-> seen, alarms |-> alarms]

Become(w) ==
    /\ agentState' = w.state
    /\ pending' = w.pending
    /\ max' = w.max
    /\ hit' = w.hit
    /\ log' = w.log
    /\ alarms' = w.alarms

Emit(w, e) == [w EXCEPT !.log = Append(@, e)]

\* The pending action goes (again) on the stream and gets the id of that event.
EmitPending(w) ==
    [Emit(w, Event(w.pending.kind, 0, w.pending.call, w.pending.arg))
       EXCEPT !.pending = [w.pending EXCEPT !.id = Len(w.log) + 1]]

\* _reset: an action that has no observation in the history gets an
\* ErrorObservation, and is forgotten.
AnswerPending(w) ==
    LET answered == \E i \in 1 .. w.seen :
                       InHistory(w.log[i]) /\ w.log[i].call = w.pending.call
    IN  IF w.pending = NoAction \/ answered THEN w
        ELSE Emit(w, Event("error", w.pending.id, w.pending.call, "not_executed"))

Forget(w) == [w EXCEPT !.pending = NoAction]

Reset(w) == Forget(AnswerPending(w))

\* An AgentStateChangedObservation tells the state as it is now.
Announce(w) == Emit(w, Event("state", 0, 0, w.state))

\* IterationControlFlag.increase_limit.
IncreaseLimit(w) ==
    IF w.hit /\ ~HeadlessMode THEN [w EXCEPT !.max = @ + Iterations, !.hit = FALSE] ELSE w

\* The user's verdict is written on the pending action, which goes on the
\* stream once more, with a new id.
Decide(w, verdict) ==
    IF w.pending = NoAction THEN w
    ELSE EmitPending([w EXCEPT !.pending = [w.pending EXCEPT !.arg = verdict]])

SetAgentStateTo(w, new) ==
    IF new = w.state THEN w
    ELSE LET set == [w EXCEPT !.state = new]
             done == CASE new \in {"stopped", "error"} -> Reset(set)
                       [] new = "running" /\ w.state = "error" -> IncreaseLimit(set)
                       [] new = "user_confirmed" -> Decide(set, "confirmed")
                       [] new = "user_rejected" -> Decide(set, "rejected")
                       [] OTHER -> set
         IN  Announce(done)

-----------------------------------------------------------------------------
(***************************************************************************)
(* The controller's handlers.                                              *)
(***************************************************************************)
\* Mutant of HandleMessage: only an agent that waits for input or has ended is set running.
HandleMessageStays(w) ==
    LET recalled == EmitPending(
            [w EXCEPT !.pending = [id |-> 0, kind |-> "recall", call |-> 0, arg |-> "none"]])
    IN  IF w.state = "awaiting_user_confirmation" THEN recalled
        ELSE SetAgentStateTo(recalled, "running")

\* A user message: recall first, run after.
HandleMessage(w) ==
    SetAgentStateTo(
        EmitPending(
            [w EXCEPT !.pending = [id |-> 0, kind |-> "recall", call |-> 0, arg |-> "none"]]),
        "running")

HandleAction(w, e) ==
    CASE e.kind = "message" -> HandleMessage(w)
      [] e.kind = "say" /\ e.arg = "wait" -> SetAgentStateTo(w, "awaiting_user_input")
      [] e.kind = "change" -> SetAgentStateTo(w, e.arg)
      [] e.kind = "finish" -> SetAgentStateTo(w, "finished")
      [] e.kind = "reject" -> SetAgentStateTo(w, "rejected")
      [] OTHER -> w

\* Mutant of HandleObservation: the pending action is only cleared with a verdict.
HandleObservationKeeps(w, e) ==
    LET cleared == [w EXCEPT !.pending = NoAction]
    IN  IF w.pending = NoAction \/ w.pending.id # e.cause THEN w
        ELSE CASE w.state = "user_confirmed" -> SetAgentStateTo(cleared, "running")
               [] w.state = "user_rejected" -> SetAgentStateTo(cleared, "awaiting_user_input")
               [] OTHER -> w

HandleObservation(w, e) ==
    LET cleared == [w EXCEPT !.pending = NoAction]
    IN  IF w.pending = NoAction \/ w.pending.id # e.cause THEN w
        ELSE CASE w.state = "awaiting_user_confirmation" -> w
               [] w.state = "user_confirmed" -> SetAgentStateTo(cleared, "running")
               [] w.state = "user_rejected" -> SetAgentStateTo(cleared, "awaiting_user_input")
               [] OTHER -> cleared

Observations == {"observation", "error", "null"}

Handle(w, e) ==
    IF e.kind \in Observations THEN HandleObservation(w, e) ELSE HandleAction(w, e)

\* A NullObservation of the memory has a cause; the runtime's are not emitted.
ShouldStep(w, e) ==
    \/ e.kind \in Observations \cup {"message", "condense"}
    \/ e.kind = "say" /\ w.state # "awaiting_user_input"

\* The events that the controller does something about; state changes, recalls
\* and runnable actions only go into its history.
Handled == Observations \cup {"message", "say", "change", "finish", "reject", "condense"}

\* The head of _step.
MayStep(w) == w.state = "running" /\ w.pending = NoAction

\* _react_to_exception: an error status to the session, and ERROR.
Fail(w) == SetAgentStateTo([w EXCEPT !.alarms = @ + 1], "error")

\* Mutant of ReachedLimit: off by one.
ReachedLimitLate(w) == iter > w.max

\* IterationControlFlag.reached_limit.
ReachedLimit(w) == iter >= w.max

\* The stuck detector, the iteration limit or the budget raises, or the model
\* is called; the budget is checked after the iteration was counted.
StepBegin(w) ==
    \/ /\ "stuck" \in Outcomes
       /\ Become(Fail(w))
       /\ UNCHANGED <<iter, thinking, stepped>>
    \/ /\ ReachedLimit(w)
       /\ Become(Fail([w EXCEPT !.hit = TRUE]))
       /\ UNCHANGED <<iter, thinking, stepped>>
    \/ /\ ~ReachedLimit(w)
       /\ "budget" \in Outcomes
       /\ iter' = iter + 1
       /\ Become(Fail([w EXCEPT !.hit = FALSE]))
       /\ UNCHANGED <<thinking, stepped>>
    \/ /\ ~ReachedLimit(w)
       /\ iter' = iter + 1
       /\ Become([w EXCEPT !.hit = FALSE])
       /\ thinking' = TRUE
       /\ stepped' = w.seen

\* The first event after from that is of one of the kinds.  A closed stream
\* delivers nothing.
NextOf(from, kinds, i) ==
    /\ ~closed
    /\ i \in from + 1 .. Len(log)
    /\ log[i].kind \in kinds
    /\ \A j \in from + 1 .. i - 1 : log[j].kind \notin kinds

IsVerdict(e) == e.kind = "change" /\ e.arg \in {"user_confirmed", "user_rejected"}

\* A message is handled between the parts of an error status, which will forget
\* the message's recall, with a verdict right behind it in the stream.
MessageCrosses(i) ==
    /\ status # "no"
    /\ log[i].kind = "message"
    /\ \E k \in i + 1 .. Len(log) : IsVerdict(log[k])

\* on_event: history, handler, and a step if the event calls for one.
OnEvent(i) ==
    LET w == Handle([World EXCEPT !.seen = i], log[i])
    IN  /\ ~thinking /\ ending = "no"
        /\ NextOf(seen, Handled, i)
        /\ seen' = i
        /\ crossed' = (crossed \/ MessageCrosses(i))
        /\ IF ShouldStep(w, log[i]) /\ MayStep(w)
             THEN StepBegin(w)
             ELSE Become(w) /\ UNCHANGED <<iter, thinking, stepped>>
        /\ UNCHANGED <<calls, ending, interrupted, rtVars, memVars, status, closed, inputs>>

\* agent.step has returned or raised, with anything but a call of a tool.  The
\* state is not looked at again.
StepEnd(outcome) ==
    LET w == World
    IN  /\ thinking
        /\ thinking' = FALSE
        /\ Become(CASE outcome = "say"        -> Emit(w, Event("say", 0, 0, "go"))
                    [] outcome = "ask"        -> Emit(w, Event("say", 0, 0, "wait"))
                    [] outcome = "finish"     -> Emit(w, Event("finish", 0, 0, "none"))
                    [] outcome = "reject"     -> Emit(w, Event("reject", 0, 0, "none"))
                    [] outcome = "malformed"  -> Emit(w, Event("error", 0, 0, "malformed"))
                    [] outcome = "context"    -> Emit(w, Event("condense", 0, 0, "none"))
                    [] outcome = "rate_limit" -> SetAgentStateTo(w, "rate_limited")
                    [] outcome = "raise"      -> Fail(w))
        /\ UNCHANGED <<iter, seen, stepped, calls, ending, interrupted, crossed,
                       rtVars, memVars, status, closed, inputs>>

\* A runnable action becomes the pending one.
TakeAction(outcome) ==
    LET confirm == outcome = "risky" /\ ConfirmationMode
    IN  /\ thinking
        /\ thinking' = FALSE
        /\ calls' = calls + 1
        /\ pending' = [id |-> 0, kind |-> "run", call |-> calls + 1,
                       arg |-> IF confirm THEN "awaiting" ELSE "none"]
        /\ ending' = IF confirm THEN "asking" ELSE "taken"
        /\ interrupted' = (status # "no")
        /\ UNCHANGED <<log, agentState, iter, max, hit, seen, stepped, crossed,
                       rtVars, memVars, alarms, status, closed, inputs>>

\* One that needs the user's confirmation puts the controller into the state
\* that waits for it.
AskConfirmation ==
    /\ ending = "asking"
    /\ ending' = "asked"
    /\ agentState' = "awaiting_user_confirmation"
    /\ UNCHANGED <<log, pending, iter, max, hit, seen, thinking, stepped, calls, interrupted,
                   crossed, rtVars, memVars, alarms, status, closed, inputs>>

\* The action goes on the stream, whether it is still the pending one or not,
\* after the announcement of whatever the state is by now.
PutAction ==
    LET action == Event("run", 0, calls, IF ending = "asked" THEN "awaiting" ELSE "none")
        w == IF ending = "asked" THEN Announce(World) ELSE World
    IN  /\ ending \in {"taken", "asked"}
        /\ ending' = "no"
        /\ Become(IF pending = NoAction THEN Emit(w, action) ELSE EmitPending(w))
        /\ UNCHANGED <<iter, seen, thinking, stepped, calls, interrupted, crossed,
                       rtVars, memVars, status, closed, inputs>>

-----------------------------------------------------------------------------
(***************************************************************************)
(* The runtime (openhands/runtime/base.py).                                *)
(***************************************************************************)
\* Mutant of RuntimeTake: an action that awaits confirmation is executed.
RuntimeTakeUnasked(i) ==
    /\ running = 0
    /\ NextOf(rtSeen, {"run"}, i)
    /\ rtSeen' = i
    /\ IF log[i].arg = "rejected"
         THEN /\ log' = Append(log, Event("observation", i, log[i].call, "rejected"))
              /\ UNCHANGED <<running, executed>>
         ELSE /\ running' = i
              /\ executed' = executed \cup {i}
              /\ UNCHANGED log
    /\ UNCHANGED <<ctlVars, memVars, alarms, status, closed, inputs>>

\* An action that awaits confirmation gives a NullObservation, which is not
\* emitted; a rejected one is answered without being executed.
RuntimeTake(i) ==
    /\ running = 0
    /\ NextOf(rtSeen, {"run"}, i)
    /\ rtSeen' = i
    /\ CASE log[i].arg = "awaiting" -> UNCHANGED <<log, running, executed>>
         [] log[i].arg = "rejected" ->
              /\ log' = Append(log, Event("observation", i, log[i].call, "rejected"))
              /\ UNCHANGED <<running, executed>>
         [] OTHER ->
              /\ running' = i
              /\ executed' = executed \cup {i}
              /\ UNCHANGED log
    /\ UNCHANGED <<ctlVars, memVars, alarms, status, closed, inputs>>

RuntimeObserve ==
    /\ running # 0
    /\ log' = Append(log, Event("observation", running, log[running].call, "none"))
    /\ running' = 0
    /\ UNCHANGED <<ctlVars, rtSeen, executed, memVars, alarms, status, closed, inputs>>

\* Any other exception: no observation, an error status instead.
RuntimeFail ==
    /\ "runtime" \in Failures
    /\ running # 0
    /\ running' = 0
    /\ alarms' = alarms + 1
    /\ UNCHANGED <<log, ctlVars, rtSeen, executed, memVars, status, closed, inputs>>

(***************************************************************************)
(* The memory (openhands/memory/memory.py).                                *)
(***************************************************************************)
MemoryAnswer(i, kind) ==
    /\ ~held
    /\ NextOf(memSeen, {"recall"}, i)
    /\ memSeen' = i
    /\ log' = Append(log, Event(kind, i, 0, "none"))
    /\ UNCHANGED <<ctlVars, rtVars, held, alarms, status, closed, inputs>>

\* An exception: no observation.  The error status is a task of the memory's
\* own event loop, which stops as soon as the handler has returned, before
\* the task gets its turn.
MemoryFail(i) ==
    /\ "memory" \in Failures
    /\ ~held
    /\ NextOf(memSeen, {"recall"}, i)
    /\ memSeen' = i
    /\ held' = TRUE
    /\ UNCHANGED <<log, ctlVars, rtVars, alarms, status, closed, inputs>>

\* The next event, whatever it is, runs the loop again, the task first.
MemoryStatus ==
    /\ held
    /\ ~closed
    /\ memSeen < Len(log)
    /\ held' = FALSE
    /\ alarms' = alarms + 1
    /\ UNCHANGED <<log, ctlVars, rtVars, memSeen, status, closed, inputs>>

(***************************************************************************)
(* The session (openhands/server/session): an error status reaches the     *)
(* controller from the server's event loop, and so does the end of the     *)
(* session.  Nothing in set_agent_state_to gives that loop away, so a      *)
(* status is handled to its end before the next one, an input of the user  *)
(* or the end of the session; the threads of the others go on meanwhile.   *)
(***************************************************************************)
\* set_agent_state_to(ERROR): the state first.
StatusBegin ==
    /\ alarms > 0
    /\ ~closed
    /\ status = "no"
    /\ alarms' = alarms - 1
    /\ IF agentState = "error"
         THEN UNCHANGED <<agentState, status, interrupted>>
         ELSE /\ agentState' = "error"
              /\ status' = "entered"
              /\ interrupted' = (interrupted \/ ending # "no")
    /\ UNCHANGED <<log, pending, iter, max, hit, seen, thinking, stepped, calls, ending, crossed,
                   rtVars, memVars, closed, inputs>>

\* _reset looks through the history for the answer to what is pending.
StatusAnswer ==
    /\ status = "entered"
    /\ status' = "answered"
    /\ Become(AnswerPending(World))
    /\ UNCHANGED <<iter, seen, thinking, stepped, calls, ending, interrupted, crossed,
                   rtVars, memVars, closed, inputs>>

\* What is pending by now is forgotten, and the state is announced as it is.
StatusEnd ==
    /\ status = "answered"
    /\ status' = "no"
    /\ Become(Announce(Forget(World)))
    /\ UNCHANGED <<iter, seen, thinking, stepped, calls, ending, interrupted, crossed,
                   rtVars, memVars, closed, inputs>>

StatusError == StatusBegin \/ StatusAnswer \/ StatusEnd

\* Closing the stream waits for the handlers that are at work.
SessionClose ==
    /\ "close" \in Inputs
    /\ ~closed
    /\ status = "no"
    /\ ~thinking /\ ending = "no"
    /\ running = 0
    /\ closed' = TRUE
    /\ Become(SetAgentStateTo(World, "stopped"))
    /\ UNCHANGED <<iter, seen, thinking, stepped, calls, ending, interrupted, crossed,
                   rtVars, memVars, status, inputs>>

(***************************************************************************)
(* The user.  The buttons to confirm and to decline belong to the latest   *)
(* action that awaits confirmation; they are there while the last state    *)
(* announced is awaiting_user_confirmation, and go away when one of them   *)
(* is pressed.                                                             *)
(***************************************************************************)
IsAsk(e) == e.kind = "run" /\ e.arg = "awaiting"

\* The state that was announced last is st.
LastAnnounced(st) ==
    \E i \in 1 .. Len(log) :
        /\ log[i].kind = "state" /\ log[i].arg = st
        /\ \A j \in i + 1 .. Len(log) : log[j].kind # "state"

ButtonsShown ==
    /\ LastAnnounced("awaiting_user_confirmation")
    /\ \E a \in 1 .. Len(log) :
          IsAsk(log[a]) /\ \A j \in a + 1 .. Len(log) : ~IsAsk(log[j]) /\ ~IsVerdict(log[j])

UserEvent(input) ==
    CASE input = "message" -> Event("message", 0, 0, "none")
      [] input = "stop"    -> Event("change", 0, 0, "stopped")
      [] input = "pause"   -> Event("change", 0, 0, "paused")
      [] input = "confirm" -> Event("change", 0, 0, "user_confirmed")
      [] input = "decline" -> Event("change", 0, 0, "user_rejected")

\* No verdict comes between a question's state and the question itself.
UserInput(input) ==
    /\ inputs < MaxInputs
    /\ ~closed
    /\ status = "no"
    /\ input \in {"confirm", "decline"} => ButtonsShown /\ ending # "asked"
    /\ inputs' = inputs + 1
    /\ log' = Append(log, UserEvent(input))
    /\ UNCHANGED <<ctlVars, rtVars, memVars, alarms, status, closed>>

-----------------------------------------------------------------------------
Controller ==
    \/ \E i \in 1 .. Len(log) : OnEvent(i)
    \/ \E outcome \in Outcomes \ {"safe", "risky", "stuck", "budget"} : StepEnd(outcome)
    \/ \E outcome \in Outcomes \cap {"safe", "risky"} : TakeAction(outcome)
    \/ AskConfirmation
    \/ PutAction

Runtime ==
    \/ \E i \in 1 .. Len(log) : RuntimeTake(i)
    \/ RuntimeObserve
    \/ RuntimeFail

Memory ==
    \/ \E i \in 1 .. Len(log), kind \in {"observation", "null"} : MemoryAnswer(i, kind)
    \/ \E i \in 1 .. Len(log) : MemoryFail(i)
    \/ MemoryStatus

Next ==
    \/ Controller
    \/ Runtime
    \/ Memory
    \/ StatusError
    \/ SessionClose
    \/ \E input \in Inputs \ {"close"} : UserInput(input)

Spec == Init /\ [][Next]_vars

\* The pool threads of the three subscribers and the server's loop are
\* scheduled, commands and model calls return (they have time-outs).
Fairness ==
    WF_vars(Controller) /\ WF_vars(Runtime) /\ WF_vars(Memory) /\ WF_vars(StatusError)

FairSpec == Spec /\ Fairness

-----------------------------------------------------------------------------
(***************************************************************************)
(* Properties                                                              *)
(***************************************************************************)
States == {"running", "awaiting_user_input", "awaiting_user_confirmation",
           "user_confirmed", "user_rejected", "paused", "stopped", "error",
           "finished", "rejected", "rate_limited"}

\* The types of the controller's state and of its cursors.
TypeOK ==
    /\ agentState \in States
    /\ pending.kind \in {"none", "run", "recall"}
    /\ pending.id \in 0 .. Len(log)
    /\ iter \in Nat /\ max \in Nat
    /\ {seen, stepped, rtSeen, memSeen, running} \subseteq 0 .. Len(log)
    /\ executed \subseteq 1 .. Len(log)
    /\ alarms \in Nat
    /\ {thinking, hit, held, closed, interrupted, crossed} \subseteq BOOLEAN
    /\ ending \in {"no", "taken", "asking", "asked"}
    /\ status \in {"no", "entered", "answered"}

Asked(call) == {i \in 1 .. Len(log) : IsAsk(log[i]) /\ log[i].call = call}
IsConfirm(e) == e.kind = "change" /\ e.arg = "user_confirmed"

\* A risky call is executed only after a confirmation that the user sent after
\* being asked about this very call: no confirmation of an earlier call, and no
\* message or stop that overtakes it, lets a call through.
ConfirmedFirst ==
    \A x \in executed : \A a \in Asked(log[x].call) :
        \E i \in a + 1 .. x - 1 : IsConfirm(log[i])

\* No tool call is executed twice, although a confirmed action is put on the
\* stream a second time.
ExecutedOnce ==
    \A x, y \in executed : log[x].call = log[y].call => x = y

\* What the runtime executes is what the user allowed, and only once, however
\* verdicts, messages, stops, error statuses and late observations cross; unless
\* a message and a verdict behind it met an error status half way (MessageCrosses).
ExecutedAsAllowed == crossed \/ (ConfirmedFirst /\ ExecutedOnce)

\* While the controller waits for the user's verdict there is an action to be
\* decided, and it has not been executed; or an error status has come between
\* the parts of the step that asks, and has left nothing pending.
AwaitingHasAction ==
    agentState = "awaiting_user_confirmation" =>
        \/ /\ pending.kind = "run" /\ pending.arg = "awaiting"
           /\ \A x \in executed : log[x].call # pending.call
        \/ interrupted /\ pending = NoAction

\* The model is called at most max times, and max grows only by user action
\* after the limit stopped the agent.
WithinLimit == iter <= max /\ max <= Iterations * (1 + inputs)

\* The agent comes to rest: it does not stay in RUNNING with nobody left to
\* take the next step, whatever is lost, overtaken or fails.
AgentSettles == (agentState = "running") ~> (agentState # "running")

\* What the comment in _reset says: a runnable action needs an observation to
\* be complete in the history that the model is called with.
HistoryComplete ==
    thinking =>
        \A i \in 1 .. stepped : log[i].kind = "run" =>
            \E j \in 1 .. stepped : InHistory(log[j]) /\ log[j].call = log[i].call

=============================================================================
