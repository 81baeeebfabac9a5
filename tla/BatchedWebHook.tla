--------------------------- MODULE BatchedWebHook ---------------------------
(***************************************************************************)
(* openhands/storage/batched_web_hook.py: a file store that passes every   *)
(* write and delete on to a web hook, in batches that are sent when they   *)
(* are large enough, when a timer has expired, or by flush.                *)
(*                                                                         *)
(* write and delete are two steps: the underlying store first, the batch,  *)
(* under its lock, after it.  A timer that has expired waits for the lock  *)
(* and can no longer be cancelled.  Batches are sent by the threads of the *)
(* executor, each tried up to three times; a request can fail before or    *)
(* after the other side has applied it.                                    *)
(***************************************************************************)
EXTENDS Naturals, Sequences, FiniteSets, FiniteSetsExt, SequencesExt

CONSTANTS
    Writers,    \* the threads that use the store
    Paths,
    Contents,   \* what a file may contain
    None,       \* no file: what delete leaves
    SizeOf,     \* the size in bytes of each content
    Limit,      \* batch_size_limit_bytes
    Workers,    \* the number of the executor's threads
    Failures,   \* how a request may fail: "refused", "unanswered"
    MaxUpdates  \* bound on the number of writes and deletes

ASSUME WebHookAssumption ==
    /\ None \notin Contents
    /\ SizeOf \in [Contents \cup {None} -> Nat] /\ SizeOf[None] = 0
    /\ Limit \in Nat \ {0} /\ Workers \in Nat \ {0} /\ MaxUpdates \in Nat
    /\ Failures \subseteq {"refused", "unanswered"}

VARIABLES
    local,    \* the underlying file store
    updating, \* the update each writer has still to queue: <<>> or <<path, contents>>
    batch,    \* _batch, by path
    size,     \* _batch_size
    timer,    \* _batch_timer: "none", "armed" or "fired"
    late,     \* timers that have fired and wait for the lock
    tasks,    \* the batches given to the executor, not done yet
    flushing, \* <<>>, or <<task>> while flush sends and holds the lock
    remote,   \* the files on the other side
    count,    \* history: how often each path was updated
    lost      \* history: the paths of the batches that were given up

batchVars == <<batch, size, timer>>
vars == <<local, updating, batchVars, late, tasks, flushing, remote, count, lost>>

Empty == [p \in {} |-> None]

Init ==
    /\ local = [p \in Paths |-> None]
    /\ updating = [w \in Writers |-> <<>>]
    /\ batch = Empty
    /\ size = 0
    /\ timer = "none"
    /\ late = 0
    /\ tasks = <<>>
    /\ flushing = <<>>
    /\ remote = [p \in Paths |-> None]
    /\ count = [p \in Paths |-> 0]
    /\ lost = {}

\* The bytes of a batch, and their number.
Bytes(b) == UNION {{p} \X (1 .. SizeOf[b[p]]) : p \in DOMAIN b}
Sum(b) == Cardinality(Bytes(b))

LockFree == flushing = <<>>

\* _send_batch does nothing with an empty batch.
Task(b) == IF b = Empty THEN <<>> ELSE <<[batch |-> b, tries |-> 0]>>

-----------------------------------------------------------------------------
\* write and delete (contents None): the file first.
WriteFile(w, p, v) ==
    /\ MapThenSumSet(LAMBDA q : count[q], Paths) < MaxUpdates
    /\ updating[w] = <<>>
    /\ local' = [local EXCEPT ![p] = v]
    /\ updating' = [updating EXCEPT ![w] = <<p, v>>]
    /\ count' = [count EXCEPT ![p] = @ + 1]
    /\ UNCHANGED <<batchVars, late, tasks, flushing, remote, lost>>

\* Mutant of Enqueue: the batch is reset before it is handed over.
EnqueueAfterReset(b) ==
    /\ tasks' = tasks \o Task(Empty)
    /\ batch' = Empty
    /\ size' = 0
    /\ timer' = "none"

\* _enqueue_batch_from_lock
Enqueue(b) ==
    /\ tasks' = tasks \o Task(b)
    /\ batch' = Empty
    /\ size' = 0
    /\ timer' = "none"

\* Mutant of NewSize: the contents that are replaced still count.
NewSizeOverwritten(p, v) == size + SizeOf[v]

\* The bytes of the batch once p has the contents v.
NewSize(p, v) ==
    size - (IF p \in DOMAIN batch THEN SizeOf[batch[p]] ELSE 0) + SizeOf[v]

\* Mutant of Restarted: a timer that is there is cancelled only.
RestartedOnce == IF timer = "none" THEN "armed" ELSE "none"

\* The timer that there is is cancelled, a new one started.
Restarted == "armed"

\* _queue_update
QueueUpdate(w) ==
    LET p == updating[w][1]
        v == updating[w][2]
        b == [q \in DOMAIN batch \cup {p} |-> IF q = p THEN v ELSE batch[q]]
    IN  /\ updating[w] # <<>>
        /\ LockFree
        /\ IF NewSize(p, v) >= Limit
             THEN Enqueue(b)
             ELSE /\ batch' = b
                  /\ size' = NewSize(p, v)
                  /\ timer' = Restarted
                  /\ UNCHANGED tasks
        /\ updating' = [updating EXCEPT ![w] = <<>>]
        /\ UNCHANGED <<local, late, flushing, remote, count, lost>>

\* The timer expires, and its thread goes for the lock.
TimerFires ==
    /\ timer = "armed"
    /\ timer' = "fired"
    /\ late' = late + 1
    /\ UNCHANGED <<local, updating, batch, size, tasks, flushing, remote, count, lost>>

\* _enqueue_batch_from_timer, perhaps with a batch that is not the timer's.
EnqueueFromTimer ==
    /\ late > 0
    /\ LockFree
    /\ late' = late - 1
    /\ Enqueue(batch)
    /\ UNCHANGED <<local, updating, flushing, remote, count, lost>>

-----------------------------------------------------------------------------
Applied(b) == [p \in Paths |-> IF p \in DOMAIN b THEN b[p] ELSE remote[p]]

MaxTries == 3

\* stop_after_attempt
TriedOut(task) == task.tries + 1 >= MaxTries

(***************************************************************************)
(* One attempt of _send_batch_request.  left is what remains to be done    *)
(* with the task: nothing when it was sent or was tried often enough.      *)
(***************************************************************************)
Attempt(task, left) ==
    \/ /\ remote' = Applied(task.batch)
       /\ left = <<>>
       /\ UNCHANGED lost
    \/ /\ \/ "refused" \in Failures /\ UNCHANGED remote
          \/ "unanswered" \in Failures /\ remote' = Applied(task.batch)
       /\ IF TriedOut(task)
            THEN left = <<>> /\ lost' = lost \cup DOMAIN task.batch
            ELSE left = <<[task EXCEPT !.tries = @ + 1]>> /\ UNCHANGED lost

Outcomes(task) == {<<>>, <<[task EXCEPT !.tries = @ + 1]>>}

\* A thread of the executor, which takes the tasks in order but does not wait
\* for the ones before.
SendBatch(i) ==
    /\ i <= Workers
    /\ \E left \in Outcomes(tasks[i]) :
         /\ Attempt(tasks[i], left)
         /\ tasks' = SubSeq(tasks, 1, i - 1) \o left \o SubSeq(tasks, i + 1, Len(tasks))
    /\ UNCHANGED <<local, updating, batchVars, late, flushing, count>>

\* flush sends the batch itself, under the lock, and cancels the timer last.
FlushBegin ==
    /\ LockFree
    /\ flushing' = Task(batch)
    /\ batch' = Empty
    /\ size' = 0
    /\ timer' = IF batch = Empty THEN "none" ELSE timer
    /\ UNCHANGED <<local, updating, late, tasks, remote, count, lost>>

FlushSend ==
    /\ ~LockFree
    /\ \E left \in Outcomes(flushing[1]) :
         /\ Attempt(flushing[1], left)
         /\ flushing' = left
         /\ timer' = IF left = <<>> THEN "none" ELSE timer
    /\ UNCHANGED <<local, updating, batch, size, late, tasks, count>>

-----------------------------------------------------------------------------
Update == \E w \in Writers, p \in Paths, v \in Contents \cup {None} : WriteFile(w, p, v)

Send == \E i \in 1 .. Len(tasks) : SendBatch(i)

Next ==
    \/ Update
    \/ \E w \in Writers : QueueUpdate(w)
    \/ TimerFires
    \/ EnqueueFromTimer
    \/ Send
    \/ FlushBegin
    \/ FlushSend

Spec == Init /\ [][Next]_vars

\* Threads are scheduled, time passes, requests return.
Fairness ==
    /\ \A w \in Writers : WF_vars(QueueUpdate(w))
    /\ WF_vars(TimerFires) /\ WF_vars(EnqueueFromTimer)
    /\ WF_vars(Send) /\ WF_vars(FlushSend)

FairSpec == Spec /\ Fairness

-----------------------------------------------------------------------------
(***************************************************************************)
(* Properties                                                              *)
(***************************************************************************)
\* The types of the state.
TypeOK ==
    /\ local \in [Paths -> Contents \cup {None}]
    /\ remote \in [Paths -> Contents \cup {None}]
    /\ \A w \in Writers : updating[w] \in {<<>>} \cup Paths \X (Contents \cup {None})
    /\ DOMAIN batch \subseteq Paths
    /\ size \in Nat /\ late \in Nat
    /\ timer \in {"none", "armed", "fired"}
    /\ \A i \in 1 .. Len(tasks) : tasks[i].tries \in 0 .. MaxTries - 1
    /\ Len(flushing) <= 1
    /\ lost \subseteq Paths

\* _batch_size is the number of bytes in the batch, however often a path was
\* overwritten or deleted in it, and a batch that has reached the limit is not
\* kept back.
SizeAccounts == size = Sum(batch) /\ size < Limit

\* Updates never wait for nothing: whenever there are any, a timer is running
\* or one that has expired is about to send them.
NeverStranded == batch # Empty => timer = "armed" \/ late > 0

Quiescent ==
    /\ \A w \in Writers : updating[w] = <<>>
    /\ batch = Empty
    /\ tasks = <<>>
    /\ LockFree

\* A file that is written once, as the files of events are, arrives: when
\* nothing is left to be sent the other side has it, however batches, retries
\* and timers interleaved, unless its batch was given up.
WrittenOnceArrives ==
    Quiescent => \A p \in Paths \ lost : count[p] <= 1 => remote[p] = local[p]

\* Every update is sent, or given up after three attempts.
EventuallySent == []<>Quiescent

=============================================================================
