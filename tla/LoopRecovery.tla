---------------------------- MODULE LoopRecovery ----------------------------
(***************************************************************************)
(* StuckDetector (openhands/controller/stuck.py), the recovery from a loop *)
(* in AgentController, and the history that a restarted controller reads   *)
(* back (State.save_to_session, StateTracker._init_history).  Interactive  *)
(* mode: only what follows the last user message is looked at.             *)
(***************************************************************************)
EXTENDS Naturals, Sequences, SequencesExt, FiniteSets

CONSTANTS
    Actions,        \* what the agent may do, up to _eq_no_pid
    Observations,   \* what it may observe, likewise; "error" is an ErrorObservation,
                    \* "syntax" an IPython cell with one of the syntax errors
    MaxEvents,      \* bound on the events of the stream
    MaxMessages,    \* bound on the messages among them
    MaxRestarts     \* bound on restarts

VARIABLES
    stream,     \* the event stream; an event's id is its position
    history,    \* state.history: ids
    endId,      \* state.end_id, 0 when it is not set
    analysis,   \* stuck_analysis.loop_start_idx + 1, 0 for None
    mode,       \* agent_state: running, error, waiting, stopped
    found,      \* history: the last event when the analysis was made
    restarts

vars == <<stream, history, endId, analysis, mode, found, restarts>>

Act(a) == [k |-> "act", v |-> a]
Obs(o) == [k |-> "obs", v |-> o]
Say    == [k |-> "say", v |-> "words"]       \* a MessageAction of the agent
User   == [k |-> "user", v |-> "words"]

\* The RecallActions for the first message of the user and for the others.  They
\* find nothing: a NullObservation, which is not in the history.
FirstRecall == Act("workspace")
Recall == Act("recall")

IsAction(e) == e.k \in {"act", "say"}
IsObservation(e) == e.k = "obs"
IsUser(e) == e.k = "user"

Events(h) == [i \in DOMAIN h |-> stream[h[i]]]

Init ==
    /\ stream = <<User, FirstRecall>>
    /\ history = <<1, 2>>
    /\ endId = 0
    /\ analysis = 0
    /\ mode = "running"
    /\ found = 0
    /\ restarts = 0

-----------------------------------------------------------------------------
(***************************************************************************)
(* is_stuck, for h = the events after the last user message.  The scenario *)
(* of repeated condensation observations cannot arise: these are only made *)
(* for views and never in the history.                                     *)
(***************************************************************************)
LastN(s, n) == SubSeq(s, IF Len(s) > n THEN Len(s) - n + 1 ELSE 1, Len(s))
AllSame(s) == \A i \in DOMAIN s : s[i] = s[1]
LastActions(h, n) == LastN(SelectSeq(h, IsAction), n)
LastObservations(h, n) == LastN(SelectSeq(h, IsObservation), n)

RepeatingActionObservation(h) ==
    LET a == LastActions(h, 4)
        o == LastObservations(h, 4)
    IN  Len(a) = 4 /\ Len(o) = 4 /\ AllSame(a) /\ AllSame(o)

RepeatingActionError(h) ==
    LET a == LastActions(h, 3)
        o == LastObservations(h, 3)
    IN  /\ Len(a) = 3 /\ Len(o) = 3 /\ AllSame(a) /\ AllSame(o)
        /\ o[1].v \in {"error", "syntax"}

\* Three equal messages of the agent without an observation between them: the
\* positions from which just two more messages follow, up to the last of them.
Says(h) == {i \in DOMAIN h : h[i].k = "say"}
Monologue(h) ==
    {i \in Says(h) :
        /\ Cardinality({j \in Says(h) : j > i}) = 2
        /\ \A j \in Says(h) : \A m \in i .. j : ~IsObservation(h[m])}

ActionObservationPattern(h) ==
    LET a == LastActions(h, 6)
        o == LastObservations(h, 6)
    IN  Len(a) = 6 /\ Len(o) = 6 /\ \A i \in 1 .. 4 : a[i] = a[i + 2] /\ o[i] = o[i + 2]

\* list.index: the first event that is equal.
Index(h, e) == SelectInSeq(h, LAMBDA x : x = e)

\* Position in h where the loop is taken to start; 0 if there is no loop.  The
\* error scenario looks for the fourth of the last actions although it compares
\* three.
LoopStart(h) ==
    IF Len(h) < 3 THEN 0
    ELSE IF RepeatingActionObservation(h) \/ RepeatingActionError(h)
      THEN Index(h, LastActions(h, 4)[1])
    ELSE IF Monologue(h) # {} THEN CHOOSE i \in Monologue(h) : TRUE
    ELSE IF ActionObservationPattern(h) THEN Index(h, LastActions(h, 6)[1])
    ELSE 0

LastUser(h) == SelectLastInSeq(Events(h), IsUser)

\* With fewer events after that message is_stuck returns at once, and the last
\* analysis stays.
LooksAgain(h) == Len(h) - LastUser(h) >= 3

\* Mutant of IsStuck: the whole history is looked at, as in headless mode.
IsStuckHeadless(h) == LoopStart(SelectSeq(Events(h), LAMBDA e : ~IsUser(e)))

\* Position in the history where the loop starts, 0 if the agent is not stuck.
IsStuck(h) ==
    LET start == LoopStart(SubSeq(Events(h), LastUser(h) + 1, Len(h)))
    IN  IF start = 0 THEN 0 ELSE LastUser(h) + start

-----------------------------------------------------------------------------
\* New events are in the stream and, when they are delivered, in the history.
Emit(events) ==
    /\ Len(stream) + Len(events) <= MaxEvents
    /\ Len(SelectSeq(stream \o events, LAMBDA e : e.k \in {"say", "user"})) <= MaxMessages
    /\ stream' = stream \o events
    /\ history' = history \o [i \in DOMAIN events |-> Len(stream) + i]

\* A message of the user starts the agent.  That there was a loop is not forgotten.
UserMessage ==
    /\ mode # "stopped"
    /\ Emit(<<User, Recall>>)
    /\ mode' = "running"
    /\ UNCHANGED <<endId, analysis, found, restarts>>

\* _step: an agent that is stuck is stopped with an error; otherwise it acts.
StepStuck ==
    /\ mode = "running"
    /\ IsStuck(history) # 0
    /\ analysis' = IsStuck(history)
    /\ mode' = "error"
    /\ found' = Len(stream)
    /\ UNCHANGED <<stream, history, endId, restarts>>

StepActs ==
    /\ mode = "running"
    /\ IsStuck(history) = 0
    /\ analysis' = IF LooksAgain(history) THEN 0 ELSE analysis
    /\ \/ \E a \in Actions, o \in Observations : Emit(<<Act(a), Obs(o)>>) /\ mode' = mode
       \/ Emit(<<Say>>) /\ mode' \in {"running", "waiting"}
    /\ UNCHANGED <<endId, found, restarts>>

\* Mutant of Truncated: the comparison with the length is turned round.
TruncatedNever(h) == IF analysis <= Len(h) THEN h ELSE SubSeq(h, 1, analysis - 1)

\* _truncate_memory_to_point.
Truncated(h) == IF analysis > Len(h) THEN h ELSE SubSeq(h, 1, analysis - 1)

EndIdOf(h) == IF analysis > Len(h) THEN endId ELSE Last(<<0>> \o Truncated(h))

\* What tells of the recovery.  The last message is handled once more, though it
\* is not sent again: RecallAction.
Note(option) == IF option = 1 THEN <<Obs("reset")>> ELSE <<Obs("restarting"), Recall>>

\* _handle_loop_recovery_action: the request is an event, too.  Option 1 waits for
\* the user, option 2 goes on with the last message.
Recover(option) ==
    LET asked == Append(history, Len(stream) + 1)
        note == Note(option)
    IN  /\ analysis # 0
        /\ Len(stream) + 1 + Len(note) <= MaxEvents
        /\ stream' = Append(stream, Act("recover")) \o note
        /\ history' = Truncated(asked) \o [i \in DOMAIN note |-> Len(stream) + 1 + i]
        /\ endId' = EndIdOf(asked)
        /\ mode' = IF option = 1 THEN "waiting" ELSE "running"
        /\ UNCHANGED <<analysis, found, restarts>>

\* Option 3.
StopStuck ==
    /\ analysis # 0
    /\ mode # "stopped"
    /\ Emit(<<Act("recover")>>)
    /\ mode' = "stopped"
    /\ UNCHANGED <<endId, analysis, found, restarts>>

\* The controller is closed and its state saved; a new one reads the events from
\* the stream, up to end_id if it is set.
Restart ==
    /\ restarts < MaxRestarts
    /\ restarts' = restarts + 1
    /\ history' = [i \in 1 .. (IF endId = 0 THEN Len(stream) ELSE endId) |-> i]
    /\ analysis' = 0
    /\ mode' = "waiting"
    /\ UNCHANGED <<stream, endId, found>>

Next ==
    \/ UserMessage
    \/ StepStuck
    \/ StepActs
    \/ \E option \in {1, 2} : Recover(option)
    \/ StopStuck
    \/ Restart

Spec == Init /\ [][Next]_vars

-----------------------------------------------------------------------------
\* The recoveries since the last message of the user that the history tells of.
Recoveries ==
    {i \in DOMAIN history :
        i > LastUser(history) /\ stream[history[i]] \in {Obs("reset"), Obs("restarting")}}

\* Recovery removes the loop: what is left of the history, with the note about
\* the recovery, is not found to be a loop again, by any scenario.  Only the first
\* two after a message of the user do so for certain: the notes and RecallActions
\* of recoveries stay and are equal, and a few of them are a loop themselves.
LoopRemoved ==
    [][\A option \in {1, 2} :
         Recover(option) => (Cardinality(Recoveries) <= 2 => IsStuck(history) = 0)']_vars

\* Whatever is sent, in which order and how often: no recovery takes away a
\* message of the user that was there when the loop was found (the index of the
\* loop is relative to the last one).  One that was sent since then may go: the
\* index stays until the agent has done something about the message.
UserMessagesKept ==
    [][restarts' = restarts =>
         \A i \in DOMAIN history : IsUser(stream[history[i]]) =>
             \/ \E j \in DOMAIN history' : history'[j] = history[i]
             \/ analysis # 0 /\ history[i] > found]_vars
=============================================================================
