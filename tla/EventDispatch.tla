--------------------------- MODULE EventDispatch ---------------------------
(***************************************************************************)
(* openhands/events/stream.py: how the queue thread of an EventStream      *)
(* passes the events to its subscribers, while other threads subscribe,    *)
(* unsubscribe and close.                                                  *)
(*                                                                         *)
(* None of the dictionaries is protected by a lock, so every access of one *)
(* that another thread may come between is a step of its own.  Events are  *)
(* numbered in the order in which add_event puts them on the queue.  A     *)
(* callback is subscribed and unsubscribed by one thread, which waits for  *)
(* the one call before it makes the other, and under its id only once; the *)
(* stream is closed when no such call is under way.                        *)
(***************************************************************************)
EXTENDS Naturals, Sequences, FiniteSetsExt

CONSTANTS
    Callbacks, \* the callback ids
    KeyOf,     \* the subscriber id of each, as its place in the sorted order
    Initial,   \* the callbacks that are subscribed at the start
    Calls,     \* what other threads may call: "subscribe", "unsubscribe", "close"
    MaxEvents  \* bound on the number of events

ASSUME DispatchAssumption ==
    /\ KeyOf \in [Callbacks -> Nat]
    /\ Initial \subseteq Callbacks
    /\ Calls \subseteq {"subscribe", "unsubscribe", "close"}
    /\ MaxEvents \in Nat

VARIABLES
    published,   \* the number of events put on the queue
    queue,       \* _queue
    subscribers, \* the callbacks in _subscribers
    known,       \* the subscriber ids in _subscribers, which are never removed
    pool,        \* _thread_pools: "none", "open" or "shut" for each callback
    work,        \* the events each pool still has to run its callback with
    busy,        \* the event each pool's thread is in the callback with, or 0
    handled,     \* history: the events each callback was called with
    since,       \* history: the events published when subscribe returned;
                 \* beyond MaxEvents before
    event,       \* the event the queue thread passes on, or 0
    keys,        \* the subscriber ids it still has to visit
    ids,         \* callback_ids: the callbacks it still has to visit
    current,     \* {c} while it is between the check of c and the submit
    found,       \* it has looked up the callback and the pool
    alive,       \* no exception has ended the queue thread
    leaving,     \* the callbacks being cleaned up
    phase        \* close: "open", "stopping", "cleaning" or "closed"

threadVars == <<event, keys, ids, current, found, alive>>
poolVars   == <<work, busy, handled>>
vars == <<published, queue, subscribers, known, pool, poolVars, since,
          threadVars, leaving, phase>>

Init ==
    /\ published = 0
    /\ queue = <<>>
    /\ subscribers = Initial
    /\ known = {KeyOf[c] : c \in Initial}
    /\ pool = [c \in Callbacks |-> IF c \in Initial THEN "open" ELSE "none"]
    /\ work = [c \in Callbacks |-> <<>>]
    /\ busy = [c \in Callbacks |-> 0]
    /\ handled = [c \in Callbacks |-> <<>>]
    /\ since = [c \in Callbacks |-> IF c \in Initial THEN 0 ELSE MaxEvents + 1]
    /\ event = 0
    /\ keys = {}
    /\ ids = {}
    /\ current = {}
    /\ found = FALSE
    /\ alive = TRUE
    /\ leaving = {}
    /\ phase = "open"

-----------------------------------------------------------------------------
(***************************************************************************)
(* The threads that use the stream.                                        *)
(***************************************************************************)
\* The end of add_event.
Put ==
    /\ published < MaxEvents
    /\ published' = published + 1
    /\ queue' = Append(queue, published + 1)
    /\ UNCHANGED <<subscribers, known, pool, poolVars, since, threadVars, leaving, phase>>

\* subscribe enters the callback first and the pool after it.
SubscribeCallback(c) ==
    /\ "subscribe" \in Calls
    /\ c \notin subscribers \cup leaving
    /\ since[c] > MaxEvents
    /\ phase = "open"
    /\ subscribers' = subscribers \cup {c}
    /\ known' = known \cup {KeyOf[c]}
    /\ UNCHANGED <<published, queue, pool, poolVars, since, threadVars, leaving, phase>>

SubscribePool(c) ==
    /\ c \in subscribers \ leaving
    /\ pool[c] = "none"
    /\ pool' = [pool EXCEPT ![c] = "open"]
    /\ since' = [since EXCEPT ![c] = published]
    /\ UNCHANGED <<published, queue, subscribers, known, poolVars, threadVars, leaving, phase>>

\* _clean_up_subscriber shuts the pool down, waits until it has run what it
\* was given, deletes the pool and then the callback.
CleanUpShut(c) ==
    /\ c \in subscribers \ leaving
    /\ pool[c] = "open"
    /\ leaving' = leaving \cup {c}
    /\ pool' = [pool EXCEPT ![c] = "shut"]
    /\ UNCHANGED <<published, queue, subscribers, known, poolVars, since, threadVars, phase>>

\* Mutant of CleanUpPool: shutdown(wait=False).
CleanUpPoolNoWait(c) ==
    /\ pool[c] = "shut"
    /\ pool' = [pool EXCEPT ![c] = "none"]
    /\ UNCHANGED <<published, queue, subscribers, known, poolVars, since, threadVars, leaving,
                   phase>>

CleanUpPool(c) ==
    /\ pool[c] = "shut"
    /\ work[c] = <<>> /\ busy[c] = 0
    /\ pool' = [pool EXCEPT ![c] = "none"]
    /\ UNCHANGED <<published, queue, subscribers, known, poolVars, since, threadVars, leaving,
                   phase>>

CleanUpCallback(c) ==
    /\ c \in leaving
    /\ pool[c] = "none"
    /\ leaving' = leaving \ {c}
    /\ subscribers' = subscribers \ {c}
    /\ UNCHANGED <<published, queue, known, pool, poolVars, since, threadVars, phase>>

Unsubscribe(c) ==
    /\ "unsubscribe" \in Calls
    /\ phase = "open"
    /\ CleanUpShut(c)

\* close: stop the queue thread and wait for it, clean up one callback after
\* the other, empty the queue.
CloseStop ==
    /\ "close" \in Calls
    /\ phase = "open"
    /\ leaving = {} /\ \A c \in subscribers : pool[c] # "none"
    /\ phase' = "stopping"
    /\ UNCHANGED <<published, queue, subscribers, known, pool, poolVars, since, threadVars,
                   leaving>>

\* Mutant of CloseJoin: the queue has to be empty.
CloseJoinDrained ==
    /\ phase = "stopping"
    /\ event = 0 /\ queue = <<>>
    /\ phase' = "cleaning"
    /\ UNCHANGED <<published, queue, subscribers, known, pool, poolVars, since, threadVars,
                   leaving>>

CloseJoin ==
    /\ phase = "stopping"
    /\ event = 0 \/ ~alive
    /\ phase' = "cleaning"
    /\ UNCHANGED <<published, queue, subscribers, known, pool, poolVars, since, threadVars,
                   leaving>>

CloseCleanUp(c) ==
    /\ phase = "cleaning"
    /\ leaving = {}
    /\ CleanUpShut(c)

CloseEnd ==
    /\ phase = "cleaning"
    /\ subscribers = {}
    /\ phase' = "closed"
    /\ queue' = <<>>
    /\ UNCHANGED <<published, subscribers, known, pool, poolVars, since, threadVars, leaving>>

-----------------------------------------------------------------------------
(***************************************************************************)
(* The queue thread: _process_queue.                                       *)
(***************************************************************************)
\* Mutant of Get: a LifoQueue.
GetLast ==
    /\ alive
    /\ event = 0
    /\ phase = "open"
    /\ queue # <<>>
    /\ event' = queue[Len(queue)]
    /\ queue' = SubSeq(queue, 1, Len(queue) - 1)
    /\ keys' = known
    /\ UNCHANGED <<published, subscribers, known, pool, poolVars, since, ids,
                   current, found, alive, leaving, phase>>

Get ==
    /\ alive
    /\ event = 0
    /\ phase = "open"
    /\ queue # <<>>
    /\ event' = Head(queue)
    /\ queue' = Tail(queue)
    /\ keys' = known
    /\ UNCHANGED <<published, subscribers, known, pool, poolVars, since, ids,
                   current, found, alive, leaving, phase>>

\* Mutant of NextKey: the thread is done after the first subscriber id.
NextKeyOnce ==
    /\ alive
    /\ event # 0
    /\ ids = {} /\ current = {}
    /\ IF keys = {}
         THEN event' = 0 /\ UNCHANGED <<keys, ids>>
         ELSE /\ keys' = {}
              /\ ids' = {c \in subscribers : KeyOf[c] = Min(keys)}
              /\ UNCHANGED event
    /\ UNCHANGED <<published, queue, subscribers, known, pool, poolVars, since,
                   current, found, alive, leaving, phase>>

\* The next subscriber id in sorted order, and a copy of its callback ids.
NextKey ==
    /\ alive
    /\ event # 0
    /\ ids = {} /\ current = {}
    /\ IF keys = {}
         THEN event' = 0 /\ UNCHANGED <<keys, ids>>
         ELSE /\ keys' = keys \ {Min(keys)}
              /\ ids' = {c \in subscribers : KeyOf[c] = Min(keys)}
              /\ UNCHANGED event
    /\ UNCHANGED <<published, queue, subscribers, known, pool, poolVars, since,
                   current, found, alive, leaving, phase>>

\* Whether the callback is still there.
Check(c) ==
    /\ alive
    /\ current = {}
    /\ c \in ids
    /\ ids' = ids \ {c}
    /\ current' = {c} \cap subscribers
    /\ found' = FALSE
    /\ UNCHANGED <<published, queue, subscribers, known, pool, poolVars, since,
                   event, keys, alive, leaving, phase>>

\* The callback and its pool are looked up: KeyError if one is not there.
Lookup(c) ==
    /\ alive
    /\ c \in current
    /\ ~found
    /\ alive' = (c \in subscribers /\ pool[c] # "none")
    /\ found' = TRUE
    /\ UNCHANGED <<published, queue, subscribers, known, pool, poolVars, since,
                   event, keys, ids, current, leaving, phase>>

\* submit: RuntimeError if the pool is shut down.
Submit(c) ==
    /\ alive
    /\ c \in current
    /\ found
    /\ current' = {}
    /\ IF pool[c] = "open"
         THEN work' = [work EXCEPT ![c] = Append(@, event)] /\ UNCHANGED alive
         ELSE alive' = FALSE /\ UNCHANGED work
    /\ UNCHANGED <<published, queue, subscribers, known, pool, busy, handled, since,
                   event, keys, ids, found, leaving, phase>>

(***************************************************************************)
(* The thread of a pool (max_workers=1).  An exception of the callback     *)
(* ends that call only.                                                    *)
(***************************************************************************)
CallbackBegin(c) ==
    /\ busy[c] = 0
    /\ work[c] # <<>>
    /\ busy' = [busy EXCEPT ![c] = Head(work[c])]
    /\ work' = [work EXCEPT ![c] = Tail(@)]
    /\ handled' = [handled EXCEPT ![c] = Append(@, Head(work[c]))]
    /\ UNCHANGED <<published, queue, subscribers, known, pool, since, threadVars, leaving, phase>>

CallbackEnd(c) ==
    /\ busy[c] # 0
    /\ busy' = [busy EXCEPT ![c] = 0]
    /\ UNCHANGED <<published, queue, subscribers, known, pool, work, handled, since,
                   threadVars, leaving, phase>>

-----------------------------------------------------------------------------
QueueThread == Get \/ NextKey \/ \E c \in Callbacks : Check(c) \/ Lookup(c) \/ Submit(c)

PoolThread(c) == CallbackBegin(c) \/ CallbackEnd(c)

CleanUp(c) == CleanUpPool(c) \/ CleanUpCallback(c)

Close == CloseJoin \/ CloseEnd \/ \E c \in Callbacks : CloseCleanUp(c)

Next ==
    \/ Put
    \/ QueueThread
    \/ CloseStop
    \/ Close
    \/ \E c \in Callbacks :
         \/ SubscribeCallback(c) \/ SubscribePool(c)
         \/ Unsubscribe(c) \/ CleanUp(c)
         \/ PoolThread(c)

Spec == Init /\ [][Next]_vars

\* Every thread is scheduled, a call that has begun goes on, callbacks return.
Fairness ==
    /\ WF_vars(QueueThread)
    /\ WF_vars(Close)
    /\ \A c \in Callbacks : WF_vars(PoolThread(c)) /\ WF_vars(CleanUp(c))

FairSpec == Spec /\ Fairness

-----------------------------------------------------------------------------
(***************************************************************************)
(* Properties                                                              *)
(***************************************************************************)
\* The types of the state.
TypeOK ==
    /\ published \in 0 .. MaxEvents
    /\ queue \in Seq(1 .. published)
    /\ subscribers \subseteq Callbacks /\ leaving \subseteq subscribers
    /\ known \subseteq Nat /\ keys \subseteq known
    /\ pool \in [Callbacks -> {"none", "open", "shut"}]
    /\ work \in [Callbacks -> Seq(1 .. published)]
    /\ handled \in [Callbacks -> Seq(1 .. published)]
    /\ busy \in [Callbacks -> 0 .. published]
    /\ since \in [Callbacks -> 0 .. MaxEvents + 1]
    /\ event \in 0 .. published
    /\ ids \subseteq Callbacks /\ current \subseteq Callbacks
    /\ found \in BOOLEAN /\ alive \in BOOLEAN
    /\ phase \in {"open", "stopping", "cleaning", "closed"}

Given(c) == handled[c] \o work[c]

\* Each callback is given consecutive events in the order they were added: one
\* that is busy, that is subscribed late or that others join and leave around
\* misses none in between, gets none twice and sees no two swapped.
InOrder ==
    \A c \in Callbacks : \A i \in 1 .. Len(Given(c)) - 1 :
        Given(c)[i + 1] = Given(c)[i] + 1

\* When a callback is unsubscribed its thread is not in it and has nothing
\* left to call it with, whatever the queue thread was doing meanwhile.
QuietAfterUnsubscribe ==
    \A c \in Callbacks :
        c \notin subscribers => work[c] = <<>> /\ busy[c] = 0

\* Unsubscribing one callback does not make another one miss an event: at rest
\* between two events, every callback that has been there all along has been
\* given the events the queue thread is done with.
NoneSkipped ==
    alive /\ event = 0 /\ phase = "open" =>
        \A c \in Callbacks : pool[c] = "open" =>
            \A n \in since[c] + 1 .. published - Len(queue) :
                \E i \in 1 .. Len(Given(c)) : Given(c)[i] = n

\* What a callback is given is a stretch of the stream without gaps, repeats or
\* swaps, and it reaches to the event that the queue thread has finished with.
DeliveredInOrder == InOrder /\ NoneSkipped

\* Every event that is added after subscribe has returned reaches the callback,
\* however the others come and go, unless the callback itself is unsubscribed,
\* the stream is closed, or the queue thread has ended: once events stop
\* coming (there are at most MaxEvents) the callback has been called with all.
EveryEventDelivered ==
    \A c \in Callbacks :
        []<>(\/ \A n \in since[c] + 1 .. published :
                  \E i \in 1 .. Len(handled[c]) : handled[c][i] = n
             \/ pool[c] # "open" \/ phase # "open" \/ ~alive)

\* close returns: the queue thread and the pools all come to an end.
CloseReturns == (phase = "stopping") ~> (phase = "closed")

\* What the comment in _process_queue says: a callback may be removed while
\* the queue thread iterates.  It does not end the thread.
QueueThreadSurvives == alive

=============================================================================
