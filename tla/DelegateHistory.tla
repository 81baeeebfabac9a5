-------------------------- MODULE DelegateHistory --------------------------
(***************************************************************************)
(* Delegates of an AgentController (on_event, start_delegate,              *)
(* end_delegate), the history of the parent while they come and go, and    *)
(* the history that StateTracker._init_history reads back from the stream. *)
(***************************************************************************)
EXTENDS Naturals, Sequences, SequencesExt, FiniteSetsExt

CONSTANT MaxEvents   \* bound on the events of the stream

VARIABLES
    stream,      \* the event stream: kinds of events; an id is a position
    delivered,   \* number of events that were delivered to the controller
    history,     \* state.history of the parent: ids
    delegate,    \* "none", "active" or "done" (finished, rejected, in error)
    startId,     \* state.start_id: the first id that a restart reads back
    late         \* an event came between a delegate's end and its result

vars == <<stream, delivered, history, delegate, startId, late>>

Init ==
    /\ stream = <<>>
    /\ delivered = 0
    /\ history = <<>>
    /\ delegate = "none"
    /\ startId = 1
    /\ late = FALSE

Add(kind) ==
    /\ Len(stream) < MaxEvents
    /\ stream' = Append(stream, kind)

\* agent_history_filter: changes of the agent's state are not history.
Included(kind) == kind # "changed"

-----------------------------------------------------------------------------
(***************************************************************************)
(* _init_history.                                                          *)
(***************************************************************************)
\* search_events from start_id on, with the filter.
Restored == SelectSeq([i \in DOMAIN stream |-> i],
                      LAMBDA i : i >= startId /\ Included(stream[i]))

\* The ranges of delegates: a result ends the last delegation without one.
DelegateRanges(ids) ==
    LET Match(acc, i) ==
          CASE stream[i] = "delegate" -> [acc EXCEPT !.open = Append(@, i)]
            [] stream[i] = "result" /\ acc.open # <<>> ->
                 [open |-> Front(acc.open), ranges |-> acc.ranges \cup {<<Last(acc.open), i>>}]
            [] OTHER -> acc
    IN  FoldLeft(Match, [open |-> <<>>, ranges |-> {}], ids).ranges

\* Mutant of After: the event after a delegate is skipped.
AfterSkips(r) == r[2] + 2

\* Where the history goes on after the range of a delegate.
After(r) == r[2] + 1

\* The ranges in order of their first events: what comes before each of them,
\* its two ends, and what comes after the last one.
InitHistory ==
    LET From(n) == SelectSeq(Restored, LAMBDA i : i >= n)
        Cut(acc, r) == [out  |-> acc.out \o SelectSeq(From(acc.next), LAMBDA i : i < r[1]) \o r,
                        next |-> After(r)]
        sorted == SetToSortSeq(DelegateRanges(Restored), LAMBDA r, q : r[1] < q[1])
        cut == FoldLeft(Cut, [out |-> <<>>, next |-> startId], sorted)
    IN  cut.out \o From(cut.next)

\* The local start_id that is stored in the state afterwards: the loop over the
\* ranges leaves the start of the last one in it.
StartIdAfter == Max({startId} \cup {r[1] : r \in DelegateRanges(Restored)})

-----------------------------------------------------------------------------
\* The agent in charge, the parent or its delegate, acts.
AgentActs ==
    /\ delegate # "done"
    /\ Add("event")
    /\ UNCHANGED <<delivered, history, delegate, startId, late>>

UserMessage ==
    /\ Add("user")
    /\ UNCHANGED <<delivered, history, delegate, startId, late>>

\* The parent decides to delegate; the delegate starts on top of the stream when
\* the action is delivered.
Delegate ==
    /\ delegate = "none"
    /\ delivered = Len(stream)
    /\ Add("delegate")
    /\ UNCHANGED <<delivered, history, delegate, startId, late>>

DelegateFinish ==
    /\ delegate = "active"
    /\ delivered = Len(stream)
    /\ Add("finish")
    /\ UNCHANGED <<delivered, history, delegate, startId, late>>

\* on_event, with no delegate: the event is the controller's own.  A delegate is
\* given its task as a message.
DeliverOwn(id) ==
    /\ delegate = "none"
    /\ history' = IF Included(stream[id]) THEN Append(history, id) ELSE history
    /\ IF stream[id] = "delegate" THEN Add("user") /\ delegate' = "active"
                                  ELSE UNCHANGED <<stream, delegate>>
    /\ UNCHANGED late

\* An active delegate gets the event, nobody else.  It tells when it is done.
DeliverForwarded(id) ==
    /\ delegate = "active"
    /\ IF stream[id] = "finish" THEN Add("changed") /\ delegate' = "done"
                                ELSE UNCHANGED <<stream, delegate>>
    /\ UNCHANGED <<history, late>>

\* end_delegate: the first event after that, whatever it is, ends the delegate
\* and is not looked at.
DeliverEnds(id) ==
    /\ delegate = "done"
    /\ Add("result")
    /\ delegate' = "none"
    /\ late' = (late \/ \E i \in id + 1 .. Len(stream) : Included(stream[i]))
    /\ UNCHANGED history

Deliver ==
    LET id == delivered + 1
    IN  /\ id <= Len(stream)
        /\ delivered' = id
        /\ UNCHANGED startId
        /\ DeliverOwn(id) \/ DeliverForwarded(id) \/ DeliverEnds(id)

\* The state is saved and a new controller made.  A delegate that was active is
\* gone: its events become the parent's.
Restart ==
    /\ delivered = Len(stream)
    /\ history' = InitHistory
    /\ startId' = StartIdAfter
    /\ delegate' = "none"
    /\ UNCHANGED <<stream, delivered, late>>

Next == AgentActs \/ UserMessage \/ Delegate \/ DelegateFinish \/ Deliver \/ Restart

Spec == Init /\ [][Next]_vars

-----------------------------------------------------------------------------
\* A moment at which everything was delivered, to the parent.  (Not after an
\* event came between the end of a delegate and its result, see the README.)
Quiet == delivered = Len(stream) /\ delegate = "none" /\ ~late

\* Between delegates, the history that a restart reads back is the one that
\* the controller has collected event by event, as far as start_id reaches
\* back, also when an earlier restart cut a delegate off (_init_history).
RestoredAsCollected ==
    Quiet => InitHistory = SelectSeq(history, LAMBDA i : i >= startId)

\* A restart loses nothing of the history: what _init_history restores is all
\* that the controller has collected.
RestoredInFull == Quiet => InitHistory = history
=============================================================================
