------------------------ MODULE BatchedWebHookProofs ------------------------
(***************************************************************************)
(* Proofs about BatchedWebHook.                                            *)
(***************************************************************************)
EXTENDS BatchedWebHook, FiniteSetTheorems, SequenceTheorems, TLAPS

(***************************************************************************)
(* While flush holds the lock the batch is empty; it is not looked at      *)
(* until the lock is free, so that flush may cancel the timer last.        *)
(***************************************************************************)
TimerInv ==
    /\ late \in Nat
    /\ NeverStranded
    /\ ~LockFree => batch = Empty

\* The invariant holds of the object as its constructor leaves it.
LEMMA TimerInvInit == ASSUME Init PROVE TimerInv
  BY DEF Init, TimerInv, NeverStranded, LockFree

\* Every step of the writers, the timer, the sender and flush preserves it.
LEMMA TimerInvNext == ASSUME TimerInv, [Next]_vars PROVE TimerInv'
<1> USE DEF TimerInv, NeverStranded, LockFree
<1>1. ASSUME NEW w \in Writers, NEW p \in Paths, NEW v \in Contents \cup {None},
             WriteFile(w, p, v)
      PROVE  TimerInv'
  BY <1>1 DEF WriteFile, batchVars
<1>2. ASSUME NEW w \in Writers, QueueUpdate(w) PROVE TimerInv'
  <2>1. late' = late /\ flushing' = flushing /\ flushing = <<>>
    BY <1>2 DEF QueueUpdate
  <2>2. batch' = Empty \/ timer' = "armed"
    BY <1>2 DEF QueueUpdate, Enqueue, Restarted
  <2> QED BY <2>1, <2>2 DEF Empty
<1>3. CASE TimerFires
  BY <1>3 DEF TimerFires, Empty
<1>4. CASE EnqueueFromTimer
  BY <1>4 DEF EnqueueFromTimer, Enqueue, Empty
<1>5. ASSUME NEW i \in 1 .. Len(tasks), SendBatch(i) PROVE TimerInv'
  BY <1>5 DEF SendBatch, batchVars, Empty
<1>6. CASE FlushBegin
  BY <1>6 DEF FlushBegin, Empty
<1>7. CASE FlushSend
  BY <1>7 DEF FlushSend, Empty
<1>8. CASE UNCHANGED vars
  BY <1>8 DEF vars, batchVars, Empty
<1> QED
  BY <1>1, <1>2, <1>3, <1>4, <1>5, <1>6, <1>7, <1>8 DEF Next, Update, Send

(***************************************************************************)
(* Whenever the batch has updates, a timer runs or one that has expired    *)
(* is about to send them, for any writers, paths, sizes, limits and        *)
(* failures: late timers, flush and the size limit never leave updates     *)
(* behind.                                                                 *)
(***************************************************************************)
THEOREM UpdatesNeverStranded == Spec => []NeverStranded
<1>1. TimerInv => NeverStranded
  BY DEF TimerInv
<1> QED
  BY <1>1, TimerInvInit, TimerInvNext, PTL DEF Spec

-----------------------------------------------------------------------------
(***************************************************************************)
(* The second result: what was written once arrives.  A path p is held     *)
(* with contents x by whoever still has to send it: a writer before it has *)
(* the lock, the batch, the executor's tasks, flush.                       *)
(***************************************************************************)
Values  == Contents \cup {None}
Batches == UNION {[D -> Values] : D \in SUBSET Paths}
TaskSet == [batch : Batches, tries : Nat]

Has(b, p, x) == p \in DOMAIN b /\ b[p] = x
In(s, p, x)  == \E i \in 1 .. Len(s) : Has(s[i].batch, p, x)

Holds(p, x) ==
    \/ \E w \in Writers : updating[w] = <<p, x>>
    \/ Has(batch, p, x)
    \/ In(tasks, p, x)
    \/ In(flushing, p, x)

WebTypes ==
    /\ local \in [Paths -> Values] /\ remote \in [Paths -> Values]
    /\ updating \in [Writers -> {<<>>} \cup (Paths \X Values)]
    /\ batch \in Batches
    /\ tasks \in Seq(TaskSet)
    /\ flushing \in Seq(TaskSet) /\ Len(flushing) <= 1
    /\ count \in [Paths -> Nat]
    /\ lost \subseteq Paths

\* A path never written is nowhere; one written once is held with no other contents than
\* those of the file, and is held as long as it has neither arrived nor been given up.
Arriving(p) ==
    /\ count[p] = 0 => local[p] = None /\ remote[p] = None /\ \A x \in Values : ~ Holds(p, x)
    /\ count[p] = 1 =>
         /\ \A x \in Values : Holds(p, x) => x = local[p]
         /\ p \in lost \/ remote[p] = local[p] \/ Holds(p, local[p])

ArriveInv == WebTypes /\ \A p \in Paths : Arriving(p)

\* What a batch is.
LEMMA BatchType ==
    ASSUME NEW D \in SUBSET Paths, NEW b \in [D -> Values]
    PROVE  b \in Batches /\ DOMAIN b = D
  BY DEF Batches

\* What is in a batch.
LEMMA BatchFields ==
    ASSUME NEW b \in Batches
    PROVE  /\ DOMAIN b \subseteq Paths /\ b \in [DOMAIN b -> Values]
           /\ \A p \in DOMAIN b : b[p] \in Values
<1>1. PICK D \in SUBSET Paths : b \in [D -> Values]
  BY DEF Batches
<1>2. DOMAIN b = D
  BY <1>1
<1> QED BY <1>1, <1>2

\* The empty batch.
LEMMA EmptyBatch == Empty \in Batches /\ DOMAIN Empty = {} /\ \A p, x : ~ Has(Empty, p, x)
<1>1. Empty \in [{} -> Values] /\ DOMAIN Empty = {}
  BY DEF Empty
<1>2. Empty \in Batches
  BY <1>1, BatchType
<1> QED BY <1>1, <1>2 DEF Has

\* Two task lists, one after the other.
LEMMA InConcat ==
    ASSUME NEW s \in Seq(TaskSet), NEW t \in Seq(TaskSet), NEW p, NEW x
    PROVE  s \o t \in Seq(TaskSet) /\ (In(s \o t, p, x) <=> In(s, p, x) \/ In(t, p, x))
<1>1. /\ s \o t \in Seq(TaskSet) /\ Len(s \o t) = Len(s) + Len(t)
      /\ Len(s) \in Nat /\ Len(t) \in Nat
      /\ \A i \in 1 .. Len(s) + Len(t) :
           (s \o t)[i] = IF i <= Len(s) THEN s[i] ELSE t[i - Len(s)]
  BY ConcatProperties
<1> DEFINE r == s \o t
<1> HIDE DEF r
<1>2. ASSUME In(r, p, x) PROVE In(s, p, x) \/ In(t, p, x)
  <2>1. PICK i \in 1 .. Len(s) + Len(t) : Has(r[i].batch, p, x)
    BY <1>1, <1>2 DEF In, r
  <2>2. CASE i <= Len(s)
    <3>1. i \in 1 .. Len(s) /\ r[i] = s[i]
      BY <1>1, <2>2 DEF r
    <3> QED BY <2>1, <3>1 DEF In
  <2>3. CASE ~ (i <= Len(s))
    <3>1. i - Len(s) \in 1 .. Len(t) /\ r[i] = t[i - Len(s)]
      BY <1>1, <2>3 DEF r
    <3> QED BY <2>1, <3>1 DEF In
  <2> QED BY <2>2, <2>3
<1>3. ASSUME In(s, p, x) PROVE In(r, p, x)
  <2>1. PICK i \in 1 .. Len(s) : Has(s[i].batch, p, x)
    BY <1>3 DEF In
  <2>2. i \in 1 .. Len(r) /\ r[i] = s[i]
    BY <1>1 DEF r
  <2> QED BY <2>1, <2>2 DEF In
<1>4. ASSUME In(t, p, x) PROVE In(r, p, x)
  <2>1. PICK i \in 1 .. Len(t) : Has(t[i].batch, p, x)
    BY <1>4 DEF In
  <2>2. i + Len(s) \in 1 .. Len(r) /\ r[i + Len(s)] = t[i]
    BY <1>1 DEF r
  <2> QED BY <2>1, <2>2 DEF In
<1> QED BY <1>1, <1>2, <1>3, <1>4 DEF r

\* The task of a batch holds what the batch has; an empty batch makes no task.
LEMMA InTask ==
    ASSUME NEW b \in Batches
    PROVE  /\ Task(b) \in Seq(TaskSet) /\ Len(Task(b)) <= 1
           /\ \A p, x : In(Task(b), p, x) <=> Has(b, p, x)
<1>1. CASE b = Empty
  <2>1. Task(b) = <<>> /\ Len(<<>>) = 0
    BY <1>1 DEF Task
  <2> QED BY <1>1, <2>1, EmptyBatch DEF In
<1>2. CASE b # Empty
  <2> DEFINE u == [batch |-> b, tries |-> 0]
  <2>1. Task(b) = <<u>>
    BY <1>2 DEF Task
  <2>2. u \in TaskSet /\ u.batch = b
    BY DEF TaskSet
  <2> HIDE DEF u
  <2>3. <<u>> \in Seq(TaskSet) /\ Len(<<u>>) = 1 /\ <<u>>[1] = u
    BY <2>2
  <2> QED BY <2>1, <2>2, <2>3 DEF In
<1> QED BY <1>1, <1>2

\* A task is replaced by what is left of it.
LEMMA InSplice ==
    ASSUME NEW s \in Seq(TaskSet), NEW i \in 1 .. Len(s), NEW left \in Seq(TaskSet),
           NEW p, NEW x
    PROVE  LET r == SubSeq(s, 1, i - 1) \o left \o SubSeq(s, i + 1, Len(s))
           IN  /\ r \in Seq(TaskSet)
               /\ In(r, p, x) => In(s, p, x) \/ In(left, p, x)
               /\ In(left, p, x) => In(r, p, x)
               /\ In(s, p, x) => In(r, p, x) \/ Has(s[i].batch, p, x)
<1> DEFINE a == SubSeq(s, 1, i - 1)
           b == SubSeq(s, i + 1, Len(s))
           r == a \o left \o b
<1>1. Len(s) \in Nat /\ \A k \in 1 .. Len(s) : s[k] \in TaskSet
  OBVIOUS
<1>2. /\ a \in Seq(TaskSet) /\ Len(a) = i - 1
      /\ \A k \in 1 .. i - 1 : a[k] = s[k]
  <2>1. \A k \in 1 .. i - 1 : s[k] \in TaskSet
    BY <1>1
  <2>2. 1 \in Int /\ i - 1 \in Int /\ (i - 1) - 1 + 1 = i - 1
    BY <1>1
  <2> QED BY <2>1, <2>2, SubSeqProperties
<1>3. /\ b \in Seq(TaskSet) /\ Len(b) = Len(s) - i
      /\ \A k \in 1 .. Len(s) - i : b[k] = s[i + k]
  <2>1. \A k \in i + 1 .. Len(s) : s[k] \in TaskSet
    BY <1>1
  <2>2. i + 1 \in Int /\ Len(s) \in Int /\ Len(s) - (i + 1) + 1 = Len(s) - i
    BY <1>1
  <2>3. /\ b \in Seq(TaskSet) /\ Len(b) = IF i + 1 <= Len(s) THEN Len(s) - (i + 1) + 1 ELSE 0
        /\ \A k \in 1 .. Len(s) - (i + 1) + 1 : b[k] = s[(i + 1) + k - 1]
    BY <2>1, <2>2, SubSeqProperties
  <2> HIDE DEF b
  <2>4. Len(b) = Len(s) - i
    BY <1>1, <2>3
  <2>5. ASSUME NEW k \in 1 .. Len(s) - i PROVE b[k] = s[i + k]
    <3>1. k \in 1 .. Len(s) - (i + 1) + 1 /\ (i + 1) + k - 1 = i + k
      BY <1>1, <2>2
    <3>2. b[k] = s[(i + 1) + k - 1]
      BY <2>3, <3>1
    <3> QED BY <3>1, <3>2
  <2> QED BY <2>3, <2>4, <2>5
<1> HIDE DEF a, b
<1>4. /\ a \o left \in Seq(TaskSet) /\ r \in Seq(TaskSet)
      /\ In(r, p, x) <=> In(a, p, x) \/ In(left, p, x) \/ In(b, p, x)
  BY <1>2, <1>3, InConcat
<1> HIDE DEF r
<1>5. In(a, p, x) \/ In(b, p, x) => In(s, p, x)
  <2>1. ASSUME In(a, p, x) PROVE In(s, p, x)
    BY <1>1, <1>2, <2>1 DEF In
  <2>2. ASSUME In(b, p, x) PROVE In(s, p, x)
    <3>1. PICK k \in 1 .. Len(s) - i : Has(b[k].batch, p, x)
      BY <1>3, <2>2 DEF In
    <3>2. i + k \in 1 .. Len(s) /\ b[k] = s[i + k]
      BY <1>1, <1>3
    <3> QED BY <3>1, <3>2 DEF In
  <2> QED BY <2>1, <2>2
<1>6. ASSUME In(s, p, x) PROVE In(a, p, x) \/ In(b, p, x) \/ Has(s[i].batch, p, x)
  <2>1. PICK k \in 1 .. Len(s) : Has(s[k].batch, p, x)
    BY <1>6 DEF In
  <2>2. CASE k < i
    <3>1. k \in 1 .. Len(a) /\ a[k] = s[k]
      BY <1>1, <1>2, <2>2
    <3> QED BY <2>1, <3>1 DEF In
  <2>3. CASE k > i
    <3>1. k - i \in 1 .. Len(b) /\ k - i \in 1 .. Len(s) - i /\ i + (k - i) = k
      BY <1>1, <1>3, <2>3
    <3>2. b[k - i] = s[k]
      BY <1>3, <3>1
    <3> QED BY <2>1, <3>1, <3>2 DEF In
  <2>4. CASE k = i
    BY <2>1, <2>4
  <2> QED BY <1>1, <2>2, <2>3, <2>4
<1> QED BY <1>4, <1>5, <1>6 DEF r, a, b

\* One attempt: what changes on the other side was held, and a task that is gone was
\* applied or given up.
LEMMA AttemptDoes ==
    ASSUME WebTypes, NEW task \in TaskSet, NEW left \in Outcomes(task), Attempt(task, left)
    PROVE  /\ remote' \in [Paths -> Values]
           /\ \A p \in Paths : remote'[p] = remote[p] \/ Has(task.batch, p, remote'[p])
           /\ lost \subseteq lost' /\ lost' \subseteq Paths
           /\ left \in Seq(TaskSet) /\ Len(left) <= 1
           /\ \A p, x : In(left, p, x) => Has(task.batch, p, x)
           /\ \A p \in Paths, x \in Values : Has(task.batch, p, x) =>
                p \in lost' \/ remote'[p] = x \/ In(left, p, x)
<1> DEFINE b == task.batch
           u == [task EXCEPT !.tries = @ + 1]
<1>1. b \in Batches /\ task.tries \in Nat
  BY DEF TaskSet
<1>2. DOMAIN b \subseteq Paths /\ \A p \in DOMAIN b : b[p] \in Values
  BY <1>1, BatchFields
<1>3. u \in TaskSet /\ u.batch = b
  BY <1>1 DEF TaskSet
<1>4. left = <<>> \/ left = <<u>>
  BY DEF Outcomes
<1>5. \/ remote' = Applied(b) /\ left = <<>> /\ lost' = lost
      \/ /\ remote' = remote \/ remote' = Applied(b)
         /\ \/ left = <<>> /\ lost' = lost \cup DOMAIN b
            \/ left = <<u>> /\ lost' = lost
  BY DEF Attempt
<1> HIDE DEF u, b
<1>6. <<u>> \in Seq(TaskSet) /\ Len(<<u>>) = 1 /\ <<u>>[1] = u /\ Len(<<>>) = 0
  BY <1>3
<1>7. left \in Seq(TaskSet) /\ Len(left) <= 1
  <2>1. CASE left = <<>>
    BY <2>1
  <2>2. CASE left = <<u>>
    BY <1>6, <2>2
  <2> QED BY <1>4, <2>1, <2>2
<1>8. \A p, x : In(<<u>>, p, x) <=> Has(b, p, x)
  BY <1>3, <1>6 DEF In
<1>9. \A p, x : ~ In(<<>>, p, x)
  BY <1>6 DEF In
<1>10. /\ Applied(b) \in [Paths -> Values]
       /\ \A p \in Paths : p \in DOMAIN b => Applied(b)[p] = b[p]
       /\ \A p \in Paths : p \notin DOMAIN b => Applied(b)[p] = remote[p]
  BY <1>2 DEF Applied, WebTypes
<1>11. remote' \in [Paths -> Values] /\ lost \subseteq lost' /\ lost' \subseteq Paths
  BY <1>2, <1>5, <1>10 DEF WebTypes
<1>12. \A p \in Paths : remote'[p] = remote[p] \/ Has(b, p, remote'[p])
  BY <1>5, <1>10 DEF Has
<1>13. ASSUME NEW p, NEW x, In(left, p, x) PROVE Has(b, p, x)
  BY <1>4, <1>8, <1>9, <1>13
<1>14. ASSUME NEW p \in Paths, NEW x \in Values, Has(b, p, x)
       PROVE  p \in lost' \/ remote'[p] = x \/ In(left, p, x)
  <2>1. CASE remote' = Applied(b)
    BY <1>10, <1>14, <2>1 DEF Has
  <2>2. CASE left = <<>> /\ lost' = lost \cup DOMAIN b
    BY <1>14, <2>2 DEF Has
  <2>3. CASE left = <<u>>
    BY <1>8, <1>14, <2>3
  <2> QED BY <1>5, <2>1, <2>2, <2>3
<1> QED BY <1>7, <1>11, <1>12, <1>13, <1>14 DEF b

\* A step that moves updates on: it holds nothing new, what the other side gets was held,
\* and what is no longer held has arrived or is lost.
LEMMA MoveStep ==
    ASSUME ArriveInv, WebTypes', count' = count, local' = local, lost \subseteq lost',
           \A p \in Paths, x \in Values : Holds(p, x)' => Holds(p, x),
           \A p \in Paths : remote'[p] = remote[p] \/ Holds(p, remote'[p]),
           \A p \in Paths : count[p] = 1 /\ Holds(p, local[p]) =>
               p \in lost' \/ remote'[p] = local[p] \/ Holds(p, local[p])'
    PROVE  ArriveInv'
<1> SUFFICES ASSUME NEW p \in Paths PROVE Arriving(p)'
  BY DEF ArriveInv
<1>1. Arriving(p) /\ local[p] \in Values /\ remote'[p] \in Values
  BY DEF ArriveInv, WebTypes
<1>2. local'[p] = local[p] /\ count'[p] = count[p]
  OBVIOUS
<1>3. ASSUME count[p] = 0
      PROVE  local[p] = None /\ remote'[p] = None /\ \A x \in Values : ~ Holds(p, x)'
  <2>1. local[p] = None /\ remote[p] = None /\ \A x \in Values : ~ Holds(p, x)
    BY <1>1, <1>3 DEF Arriving
  <2> QED BY <1>1, <2>1
<1>4. ASSUME count[p] = 1
      PROVE  /\ \A x \in Values : Holds(p, x)' => x = local[p]
             /\ p \in lost' \/ remote'[p] = local[p] \/ Holds(p, local[p])'
  <2>1. /\ \A x \in Values : Holds(p, x) => x = local[p]
        /\ p \in lost \/ remote[p] = local[p] \/ Holds(p, local[p])
    BY <1>1, <1>4 DEF Arriving
  <2>2. remote[p] = local[p] => remote'[p] = local[p]
    BY <1>1, <2>1
  <2> QED BY <1>4, <2>1, <2>2
<1> QED BY <1>2, <1>3, <1>4 DEF Arriving

\* A step that changes none of it.
LEMMA StillStep ==
    ASSUME ArriveInv, UNCHANGED <<local, updating, batch, tasks, flushing, remote, count, lost>>
    PROVE  ArriveInv'
<1>1. WebTypes'
  BY DEF ArriveInv, WebTypes
<1>2. \A p, x : Holds(p, x)' <=> Holds(p, x)
  BY DEF Holds
<1>3. \A p \in Paths : Holds(p, local[p])' <=> Holds(p, local[p])
  BY DEF Holds
<1> QED BY <1>1, <1>2, <1>3, MoveStep

\* write and delete: the writer holds the new contents.
LEMMA WriteFileKeeps ==
    ASSUME ArriveInv, NEW w \in Writers, NEW p \in Paths, NEW v \in Contents \cup {None},
           WriteFile(w, p, v)
    PROVE  ArriveInv'
<1>1. /\ updating[w] = <<>> /\ local' = [local EXCEPT ![p] = v]
      /\ updating' = [updating EXCEPT ![w] = <<p, v>>]
      /\ count' = [count EXCEPT ![p] = @ + 1]
      /\ UNCHANGED <<batch, tasks, flushing, remote, lost>>
  BY DEF WriteFile, batchVars
<1>2. WebTypes /\ v \in Values /\ \A q \in Paths : Arriving(q)
  BY DEF ArriveInv, Values
<1>3. WebTypes'
  <2>1. <<p, v>> \in {<<>>} \cup (Paths \X Values)
    BY <1>2
  <2>2. local' \in [Paths -> Values] /\ count' \in [Paths -> Nat]
    BY <1>1, <1>2 DEF WebTypes
  <2>3. updating' \in [Writers -> {<<>>} \cup (Paths \X Values)]
    BY <1>1, <1>2, <2>1 DEF WebTypes
  <2> QED BY <1>1, <1>2, <2>2, <2>3 DEF WebTypes
<1>4. \A o \in Writers : updating'[o] = IF o = w THEN <<p, v>> ELSE updating[o]
  BY <1>1, <1>2 DEF WebTypes
<1>5. \A q \in Paths : /\ local'[q] = IF q = p THEN v ELSE local[q]
                       /\ count'[q] = IF q = p THEN count[q] + 1 ELSE count[q]
                       /\ count[q] \in Nat
  BY <1>1, <1>2 DEF WebTypes
<1>6. \A q, x : Holds(q, x)' <=> Holds(q, x) \/ <<q, x>> = <<p, v>>
  <2>1. \A q, x : (\E o \in Writers : updating'[o] = <<q, x>>) <=>
                     (\E o \in Writers : updating[o] = <<q, x>>) \/ <<q, x>> = <<p, v>>
    BY <1>1, <1>4
  <2> QED BY <1>1, <2>1 DEF Holds
<1>7. ASSUME NEW q \in Paths PROVE Arriving(q)'
  <2>1. CASE q # p
    <3>1. \A x : Holds(q, x)' <=> Holds(q, x)
      BY <1>6, <2>1
    <3>2. local'[q] = local[q] /\ count'[q] = count[q] /\ remote'[q] = remote[q] /\ lost' = lost
      BY <1>1, <1>5, <2>1
    <3>3. Arriving(q)
      BY <1>2
    <3> QED BY <3>1, <3>2, <3>3 DEF Arriving
  <2>2. CASE q = p /\ count[p] = 0
    <3>1. \A x \in Values : ~ Holds(p, x)
      BY <1>2, <2>2 DEF Arriving
    <3>2. local'[p] = v /\ count'[p] = 1
      BY <1>5, <2>2
    <3>3. \A x \in Values : Holds(p, x)' => x = v
      BY <1>6, <3>1
    <3>4. Holds(p, v)'
      BY <1>6
    <3> QED BY <2>2, <3>2, <3>3, <3>4 DEF Arriving
  <2>3. CASE q = p /\ count[p] # 0
    <3>1. count'[p] # 0 /\ count'[p] # 1
      BY <1>5, <2>3
    <3> QED BY <2>3, <3>1 DEF Arriving
  <2> QED BY <2>1, <2>2, <2>3
<1> QED BY <1>3, <1>7 DEF ArriveInv

\* _queue_update: from the writer to the batch or, with the batch, to the executor.
LEMMA QueueKeeps ==
    ASSUME ArriveInv, NEW w \in Writers, QueueUpdate(w)
    PROVE  ArriveInv'
<1> DEFINE p == updating[w][1]
           v == updating[w][2]
           b == [q \in DOMAIN batch \cup {p} |-> IF q = p THEN v ELSE batch[q]]
<1>1. WebTypes /\ \A q \in Paths : Arriving(q)
  BY DEF ArriveInv
<1>2. p \in Paths /\ v \in Values /\ updating[w] = <<p, v>>
  <2>1. updating[w] \in Paths \X Values
    BY <1>1 DEF QueueUpdate, WebTypes
  <2> QED BY <2>1
<1>3. /\ \/ tasks' = tasks \o Task(b) /\ batch' = Empty
         \/ batch' = b /\ tasks' = tasks
      /\ updating' = [updating EXCEPT ![w] = <<>>]
      /\ UNCHANGED <<local, flushing, remote, count, lost>>
  BY DEF QueueUpdate, Enqueue
<1>4. DOMAIN batch \subseteq Paths /\ \A q \in DOMAIN batch : batch[q] \in Values
  BY <1>1, BatchFields DEF WebTypes
<1> HIDE DEF p, v
<1>5. b \in Batches
  <2>1. DOMAIN batch \cup {p} \in SUBSET Paths
    BY <1>2, <1>4
  <2>2. b \in [DOMAIN batch \cup {p} -> Values]
    BY <1>2, <1>4
  <2> HIDE DEF b
  <2> QED BY <2>1, <2>2, BatchType
<1>6. \A q, x : Has(b, q, x) <=> (q = p /\ x = v) \/ (q # p /\ Has(batch, q, x))
  BY DEF Has
<1> HIDE DEF b
<1>7. /\ tasks' \in Seq(TaskSet) /\ batch' \in Batches
      /\ \A q, x : Has(batch', q, x) \/ In(tasks', q, x) <=> Has(b, q, x) \/ In(tasks, q, x)
  <2>1. CASE tasks' = tasks \o Task(b) /\ batch' = Empty
    <3>1. Task(b) \in Seq(TaskSet) /\ \A q, x : In(Task(b), q, x) <=> Has(b, q, x)
      BY <1>5, InTask
    <3>2. /\ tasks \o Task(b) \in Seq(TaskSet)
          /\ \A q, x : In(tasks \o Task(b), q, x) <=> In(tasks, q, x) \/ In(Task(b), q, x)
      BY <1>1, <3>1, InConcat DEF WebTypes
    <3> QED BY <2>1, <3>1, <3>2, EmptyBatch
  <2>2. CASE batch' = b /\ tasks' = tasks
    BY <1>1, <1>5, <2>2 DEF WebTypes
  <2> QED BY <1>3, <2>1, <2>2
<1>8. \A o \in Writers : updating'[o] = IF o = w THEN <<>> ELSE updating[o]
  BY <1>1, <1>3 DEF WebTypes
<1>9. WebTypes'
  <2>1. updating' \in [Writers -> {<<>>} \cup (Paths \X Values)]
    BY <1>1, <1>3 DEF WebTypes
  <2> QED BY <1>1, <1>3, <1>7, <2>1 DEF WebTypes
<1>10. Holds(p, v)
  BY <1>2 DEF Holds
<1>11. ASSUME NEW q \in Paths, NEW x \in Values, Holds(q, x)' PROVE Holds(q, x)
  <2>1. CASE \E o \in Writers : updating'[o] = <<q, x>>
    <3>1. PICK o \in Writers : updating'[o] = <<q, x>>
      BY <2>1
    <3>2. o # w /\ updating[o] = <<q, x>>
      BY <1>8, <3>1
    <3> QED BY <3>2 DEF Holds
  <2>2. CASE Has(batch', q, x) \/ In(tasks', q, x)
    <3>1. (q = p /\ x = v) \/ Has(batch, q, x) \/ In(tasks, q, x)
      BY <1>6, <1>7, <2>2
    <3> QED BY <1>10, <3>1 DEF Holds
  <2>3. CASE In(flushing', q, x)
    BY <1>3, <2>3 DEF Holds
  <2> QED BY <1>11, <2>1, <2>2, <2>3 DEF Holds
<1>12. ASSUME NEW q \in Paths, count[q] = 1, Holds(q, local[q]) PROVE Holds(q, local[q])'
  <2>1. local[q] \in Values /\ \A x \in Values : Holds(q, x) => x = local[q]
    BY <1>1, <1>12 DEF WebTypes, Arriving
  <2>2. q = p => v = local[q]
    BY <1>2, <1>10, <2>1
  <2>3. Has(b, q, local[q]) \/ In(tasks, q, local[q]) => Holds(q, local[q])'
    <3>1. Has(b, q, local[q]) \/ In(tasks, q, local[q]) =>
            Has(batch', q, local'[q]) \/ In(tasks', q, local'[q])
      BY <1>3, <1>7
    <3> QED BY <3>1 DEF Holds
  <2>4. CASE q = p
    BY <1>6, <2>2, <2>3, <2>4
  <2>5. CASE q # p
    <3>1. CASE \E o \in Writers : updating[o] = <<q, local[q]>>
      <4>1. PICK o \in Writers : updating[o] = <<q, local[q]>>
        BY <3>1
      <4>2. o # w
        BY <1>2, <2>5, <4>1
      <4>3. updating'[o] = <<q, local'[q]>>
        BY <1>3, <1>8, <4>1, <4>2
      <4> QED BY <4>3 DEF Holds
    <3>2. CASE Has(batch, q, local[q]) \/ In(tasks, q, local[q])
      BY <1>6, <2>3, <2>5, <3>2
    <3>3. CASE In(flushing, q, local[q])
      BY <1>3, <3>3 DEF Holds
    <3> QED BY <1>12, <3>1, <3>2, <3>3 DEF Holds
  <2> QED BY <2>4, <2>5
<1> QED BY <1>3, <1>9, <1>11, <1>12, MoveStep

\* The batch goes to the executor or to flush.
LEMMA HandOverKeeps ==
    ASSUME ArriveInv, EnqueueFromTimer \/ FlushBegin
    PROVE  ArriveInv'
<1>1. WebTypes /\ batch \in Batches
  BY DEF ArriveInv, WebTypes
<1>2. /\ Task(batch) \in Seq(TaskSet) /\ Len(Task(batch)) <= 1
      /\ \A q, x : In(Task(batch), q, x) <=> Has(batch, q, x)
  BY <1>1, InTask
<1>3. /\ batch' = Empty /\ UNCHANGED <<local, updating, remote, count, lost>>
      /\ \/ tasks' = tasks \o Task(batch) /\ flushing' = flushing
         \/ flushing = <<>> /\ flushing' = Task(batch) /\ tasks' = tasks
  BY DEF EnqueueFromTimer, FlushBegin, Enqueue, LockFree
<1>4. /\ tasks' \in Seq(TaskSet) /\ flushing' \in Seq(TaskSet) /\ Len(flushing') <= 1
      /\ \A q, x : In(tasks', q, x) \/ In(flushing', q, x) <=>
                     Has(batch, q, x) \/ In(tasks, q, x) \/ In(flushing, q, x)
  <2>1. CASE tasks' = tasks \o Task(batch) /\ flushing' = flushing
    <3>1. /\ tasks \o Task(batch) \in Seq(TaskSet)
          /\ \A q, x : In(tasks \o Task(batch), q, x) <=> In(tasks, q, x) \/ In(Task(batch), q, x)
      BY <1>1, <1>2, InConcat DEF WebTypes
    <3> QED BY <1>1, <1>2, <2>1, <3>1 DEF WebTypes
  <2>2. CASE flushing = <<>> /\ flushing' = Task(batch) /\ tasks' = tasks
    <3>1. \A q, x : ~ In(flushing, q, x)
      BY <2>2 DEF In
    <3> QED BY <1>1, <1>2, <2>2, <3>1 DEF WebTypes
  <2> QED BY <1>3, <2>1, <2>2
<1>5. WebTypes'
  BY <1>1, <1>3, <1>4, EmptyBatch DEF WebTypes
<1>6. \A q, x : Holds(q, x)' <=> Holds(q, x)
  BY <1>3, <1>4, EmptyBatch DEF Holds
<1>7. \A q \in Paths : Holds(q, local[q])' <=> Holds(q, local[q])
  <2> TAKE q \in Paths
  <2>1. local'[q] = local[q]
    BY <1>3
  <2> QED BY <1>3, <1>4, <2>1, EmptyBatch DEF Holds
<1> QED BY <1>3, <1>5, <1>6, <1>7, MoveStep

\* A thread of the executor, or flush, has tried to send a batch.
LEMMA SendKeeps ==
    ASSUME ArriveInv, NEW task \in TaskSet, NEW left \in Outcomes(task), Attempt(task, left),
           UNCHANGED <<local, updating, batch, count>>,
           tasks' \in Seq(TaskSet), flushing' \in Seq(TaskSet), Len(flushing') <= 1,
           \A q, x : Has(task.batch, q, x) => In(tasks, q, x) \/ In(flushing, q, x),
           \A q, x : In(tasks', q, x) \/ In(flushing', q, x) =>
                       In(tasks, q, x) \/ In(flushing, q, x) \/ In(left, q, x),
           \A q, x : In(tasks, q, x) \/ In(flushing, q, x) =>
                       In(tasks', q, x) \/ In(flushing', q, x) \/ Has(task.batch, q, x),
           \A q, x : In(left, q, x) => In(tasks', q, x) \/ In(flushing', q, x)
    PROVE  ArriveInv'
<1>1. WebTypes
  BY DEF ArriveInv
<1>2. /\ remote' \in [Paths -> Values]
      /\ \A p \in Paths : remote'[p] = remote[p] \/ Has(task.batch, p, remote'[p])
      /\ lost \subseteq lost' /\ lost' \subseteq Paths
      /\ \A p, x : In(left, p, x) => Has(task.batch, p, x)
      /\ \A p \in Paths, x \in Values : Has(task.batch, p, x) =>
           p \in lost' \/ remote'[p] = x \/ In(left, p, x)
  BY <1>1, AttemptDoes
<1>3. WebTypes'
  BY <1>1, <1>2 DEF WebTypes
<1>4. \A q, x : Holds(q, x)' => Holds(q, x)
  BY <1>2 DEF Holds
<1>5. \A p \in Paths : remote'[p] = remote[p] \/ Holds(p, remote'[p])
  BY <1>2 DEF Holds
<1>6. ASSUME NEW q \in Paths, Holds(q, local[q])
      PROVE  q \in lost' \/ remote'[q] = local[q] \/ Holds(q, local[q])'
  <2>1. local[q] \in Values /\ local'[q] = local[q]
    BY <1>1 DEF WebTypes
  <2>2. In(tasks', q, local[q]) \/ In(flushing', q, local[q]) => Holds(q, local[q])'
    BY <2>1 DEF Holds
  <2>3. CASE (\E o \in Writers : updating[o] = <<q, local[q]>>) \/ Has(batch, q, local[q])
    BY <2>1, <2>3 DEF Holds
  <2>4. CASE In(tasks, q, local[q]) \/ In(flushing, q, local[q])
    <3>1. In(tasks', q, local[q]) \/ In(flushing', q, local[q]) \/ Has(task.batch, q, local[q])
      BY <2>4
    <3>2. Has(task.batch, q, local[q]) =>
            q \in lost' \/ remote'[q] = local[q] \/ In(left, q, local[q])
      BY <1>2, <2>1
    <3> QED BY <2>2, <3>1, <3>2
  <2> QED BY <1>6, <2>3, <2>4 DEF Holds
<1> QED BY <1>2, <1>3, <1>4, <1>5, <1>6, MoveStep

\* A thread of the executor.
LEMMA SendBatchKeeps ==
    ASSUME ArriveInv, NEW i \in 1 .. Len(tasks), SendBatch(i)
    PROVE  ArriveInv'
<1>1. tasks \in Seq(TaskSet) /\ flushing \in Seq(TaskSet) /\ Len(flushing) <= 1 /\ WebTypes
  BY DEF ArriveInv, WebTypes
<1>2. tasks[i] \in TaskSet
  BY <1>1
<1>3. PICK left \in Outcomes(tasks[i]) :
        /\ Attempt(tasks[i], left)
        /\ tasks' = SubSeq(tasks, 1, i - 1) \o left \o SubSeq(tasks, i + 1, Len(tasks))
  BY DEF SendBatch
<1>4. UNCHANGED <<local, updating, batch, flushing, count>>
  BY DEF SendBatch, batchVars
<1>5. left \in Seq(TaskSet) /\ \A p, x : In(left, p, x) => Has(tasks[i].batch, p, x)
  BY <1>1, <1>2, <1>3, AttemptDoes
<1>6. /\ tasks' \in Seq(TaskSet)
      /\ \A p, x : In(tasks', p, x) => In(tasks, p, x) \/ In(left, p, x)
      /\ \A p, x : In(left, p, x) => In(tasks', p, x)
      /\ \A p, x : In(tasks, p, x) => In(tasks', p, x) \/ Has(tasks[i].batch, p, x)
  BY <1>1, <1>3, <1>5, InSplice
<1>7. \A p, x : Has(tasks[i].batch, p, x) => In(tasks, p, x)
  BY DEF In
<1> QED BY <1>1, <1>2, <1>3, <1>4, <1>6, <1>7, SendKeeps

\* flush sends one task at most.
LEMMA OneAtMost == ASSUME NEW n \in Nat, n # 0, n <= 1 PROVE n = 1
  OBVIOUS

\* flush, under the lock.
LEMMA FlushSendKeeps ==
    ASSUME ArriveInv, FlushSend
    PROVE  ArriveInv'
<1>1. tasks \in Seq(TaskSet) /\ flushing \in Seq(TaskSet) /\ Len(flushing) <= 1 /\ WebTypes
  BY DEF ArriveInv, WebTypes
<1>2. Len(flushing) = 1 /\ flushing[1] \in TaskSet
  <2>1. flushing # <<>>
    BY DEF FlushSend, LockFree
  <2>2. Len(flushing) \in Nat /\ Len(flushing) # 0
    BY <1>1, <2>1, EmptySeq
  <2>3. Len(flushing) = 1
    BY <1>1, <2>2, OneAtMost
  <2> QED BY <1>1, <2>3
<1>3. PICK left \in Outcomes(flushing[1]) : Attempt(flushing[1], left) /\ flushing' = left
  BY DEF FlushSend
<1>4. UNCHANGED <<local, updating, batch, tasks, count>>
  BY DEF FlushSend
<1>5. left \in Seq(TaskSet) /\ Len(left) <= 1
      /\ \A p, x : In(left, p, x) => Has(flushing[1].batch, p, x)
  BY <1>1, <1>2, <1>3, AttemptDoes
<1>6. \A p, x : In(flushing, p, x) <=> Has(flushing[1].batch, p, x)
  BY <1>2 DEF In
<1> QED BY <1>1, <1>2, <1>3, <1>4, <1>5, <1>6, SendKeeps

\* The object as its constructor leaves it.
LEMMA ArriveStarts == ASSUME Init PROVE ArriveInv
<1>1. tasks = <<>> /\ flushing = <<>> /\ batch = Empty /\ updating = [w \in Writers |-> <<>>]
      /\ local = [p \in Paths |-> None] /\ remote = [p \in Paths |-> None]
      /\ count = [p \in Paths |-> 0] /\ lost = {}
  BY DEF Init
<1>2. tasks \in Seq(TaskSet) /\ flushing \in Seq(TaskSet) /\ Len(flushing) = 0 /\ Len(tasks) = 0
  BY <1>1
<1>3. WebTypes
  BY <1>1, <1>2, EmptyBatch DEF WebTypes, Values
<1>4. \A p, x : ~ Holds(p, x)
  <2>1. \A w \in Writers : \A p, x : updating[w] # <<p, x>>
    BY <1>1
  <2> QED BY <1>1, <1>2, <2>1, EmptyBatch DEF Holds, In
<1>5. \A p \in Paths : count[p] = 0 /\ local[p] = None /\ remote[p] = None
  BY <1>1
<1> QED BY <1>3, <1>4, <1>5 DEF ArriveInv, Arriving

\* Every step of the writers, the timer, the executor and flush keeps it.
LEMMA ArriveKept == ASSUME ArriveInv, [Next]_vars PROVE ArriveInv'
<1>1. CASE Update
  BY <1>1, WriteFileKeeps DEF Update
<1>2. CASE \E w \in Writers : QueueUpdate(w)
  BY <1>2, QueueKeeps
<1>3. CASE TimerFires
  BY <1>3, StillStep DEF TimerFires
<1>4. CASE EnqueueFromTimer \/ FlushBegin
  BY <1>4, HandOverKeeps
<1>5. CASE Send
  BY <1>5, SendBatchKeeps DEF Send
<1>6. CASE FlushSend
  BY <1>6, FlushSendKeeps
<1>7. CASE UNCHANGED vars
  BY <1>7, StillStep DEF vars, batchVars
<1> QED BY <1>1, <1>2, <1>3, <1>4, <1>5, <1>6, <1>7 DEF Next

(***************************************************************************)
(* When nothing is left to be sent, a file that was written once is on the *)
(* other side as it was written, unless its batch was given up, for any    *)
(* writers, paths, contents, limits and numbers of executor threads, and   *)
(* whatever requests fail before or after they were applied.               *)
(***************************************************************************)
THEOREM WritesArrive == Spec => []WrittenOnceArrives
<1>1. ArriveInv => WrittenOnceArrives
  <2> SUFFICES ASSUME ArriveInv, Quiescent, NEW p \in Paths \ lost, count[p] <= 1
               PROVE  remote[p] = local[p]
    BY DEF WrittenOnceArrives
  <2>1. Arriving(p) /\ count[p] \in Nat /\ local[p] \in Values
    BY DEF ArriveInv, WebTypes
  <2>2. ~ Holds(p, local[p])
    <3>1. \A w \in Writers : updating[w] # <<p, local[p]>>
      BY DEF Quiescent
    <3>2. tasks = <<>> /\ flushing = <<>> /\ batch = Empty /\ Len(<<>>) = 0
      BY DEF Quiescent, LockFree
    <3> QED BY <3>1, <3>2, EmptyBatch DEF Holds, In
  <2>3. count[p] = 0 \/ count[p] = 1
    BY <2>1
  <2> QED BY <2>1, <2>2, <2>3 DEF Arriving
<1> QED
  BY <1>1, ArriveStarts, ArriveKept, PTL DEF Spec

-----------------------------------------------------------------------------
(***************************************************************************)
(* The third result: the size that decides when a batch is sent is the     *)
(* number of its bytes.                                                    *)
(***************************************************************************)
SizeInv == ArriveInv /\ IsFiniteSet(Bytes(batch)) /\ SizeAccounts

\* The bytes of one file.
LEMMA BytesOfFile ==
    ASSUME NEW p, NEW n \in Nat
    PROVE  IsFiniteSet({p} \X (1 .. n)) /\ Cardinality({p} \X (1 .. n)) = n
<1>1. IsFiniteSet({p}) /\ Cardinality({p}) = 1
  BY FS_Singleton
<1>2. IsFiniteSet(1 .. n) /\ Cardinality(1 .. n) = IF 1 > n THEN 0 ELSE n - 1 + 1
  BY FS_Interval
<1>3. Cardinality(1 .. n) = n
  BY <1>2
<1>4. /\ IsFiniteSet({p} \X (1 .. n))
      /\ Cardinality({p} \X (1 .. n)) = Cardinality({p}) * Cardinality(1 .. n)
  BY <1>1, <1>2, FS_Product
<1>5. 1 * n = n
  OBVIOUS
<1> QED BY <1>1, <1>3, <1>4, <1>5

\* A batch in which the contents of p are set to v: what p had is taken off.
LEMMA BytesReplaced ==
    ASSUME NEW D, NEW b \in [D -> Values], NEW p, NEW v \in Values, IsFiniteSet(Bytes(b)),
           NEW c, DOMAIN c = D \cup {p},
           \A q \in D \cup {p} : c[q] = IF q = p THEN v ELSE b[q]
    PROVE  /\ IsFiniteSet(Bytes(c))
           /\ Sum(b) \in Nat
           /\ Sum(c) = Sum(b) - (IF p \in D THEN SizeOf[b[p]] ELSE 0) + SizeOf[v]
<1> DEFINE old == IF p \in D THEN SizeOf[b[p]] ELSE 0
           Replaced == {p} \X (1 .. old)
           Added == {p} \X (1 .. SizeOf[v])
           Rest == Bytes(b) \ Replaced
<1>1. old \in Nat /\ SizeOf[v] \in Nat
  BY WebHookAssumption DEF Values
<1>2. IsFiniteSet(Replaced) /\ Cardinality(Replaced) = old
  BY <1>1, BytesOfFile
<1>3. IsFiniteSet(Added) /\ Cardinality(Added) = SizeOf[v]
  BY <1>1, BytesOfFile
<1>4. Bytes(b) \cap Replaced = Replaced
  <2>1. CASE p \in D
    BY <2>1 DEF Bytes
  <2>2. CASE p \notin D
    BY <2>2
  <2> QED BY <2>1, <2>2
<1>5. Bytes(c) = Rest \cup Added
  <2>1. ASSUME NEW x \in Bytes(c) PROVE x \in Rest \cup Added
    <3>1. PICK q \in D \cup {p} : x \in {q} \X (1 .. SizeOf[c[q]])
      BY <2>1 DEF Bytes
    <3>2. CASE q = p
      BY <3>1, <3>2
    <3>3. CASE q # p
      BY <3>1, <3>3 DEF Bytes
    <3> QED BY <3>2, <3>3
  <2>2. ASSUME NEW x \in Added PROVE x \in Bytes(c)
    BY <2>2 DEF Bytes
  <2>3. ASSUME NEW x \in Rest PROVE x \in Bytes(c)
    <3>1. PICK q \in D : x \in {q} \X (1 .. SizeOf[b[q]])
      BY <2>3 DEF Bytes
    <3>2. q # p
      BY <2>3, <3>1
    <3> QED BY <3>1, <3>2 DEF Bytes
  <2> QED BY <2>1, <2>2, <2>3
<1>6. Rest \cap Added = {}
  <2>1. ASSUME NEW x \in Rest, x \in Added PROVE FALSE
    <3>1. PICK q \in D : x \in {q} \X (1 .. SizeOf[b[q]])
      BY <2>1 DEF Bytes
    <3> QED BY <2>1, <3>1
  <2> QED BY <2>1
<1> HIDE DEF Rest, Added, Replaced, old
<1>7. IsFiniteSet(Rest) /\ Cardinality(Rest) = Sum(b) - old
  BY <1>2, <1>4, FS_Difference DEF Rest, Sum
<1>8. Sum(b) \in Nat /\ Cardinality(Rest) \in Nat
  BY <1>7, FS_CardinalityType DEF Sum
<1>9. /\ IsFiniteSet(Rest \cup Added)
      /\ Cardinality(Rest \cup Added) = Cardinality(Rest) + Cardinality(Added) - Cardinality({})
  BY <1>3, <1>6, <1>7, FS_Union
<1>10. Cardinality({}) = 0
  BY FS_EmptySet
<1>11. Sum(c) = Cardinality(Rest) + Cardinality(Added)
  <2>1. Sum(c) = Cardinality(Rest \cup Added)
    BY <1>5 DEF Sum
  <2>2. Cardinality(Rest \cup Added) = Cardinality(Rest) + Cardinality(Added)
    BY <1>1, <1>3, <1>8, <1>9, <1>10
  <2> QED BY <2>1, <2>2
<1>12. Sum(c) = Sum(b) - old + SizeOf[v]
  BY <1>3, <1>7, <1>11
<1> QED
  BY <1>5, <1>8, <1>9, <1>12 DEF old

\* The empty batch has no bytes.
LEMMA BytesOfEmpty == IsFiniteSet(Bytes(Empty)) /\ Sum(Empty) = 0
<1>1. Bytes(Empty) = {}
  BY DEF Bytes, Empty
<1> QED BY <1>1, FS_EmptySet DEF Sum

\* An update that is queued.
LEMMA SizeQueued ==
    ASSUME SizeInv, NEW w \in Writers, QueueUpdate(w)
    PROVE  IsFiniteSet(Bytes(batch))' /\ SizeAccounts'
<1> DEFINE p == updating[w][1]
           v == updating[w][2]
           c == [q \in DOMAIN batch \cup {p} |-> IF q = p THEN v ELSE batch[q]]
<1>1. updating[w] # <<>> /\ updating[w] \in {<<>>} \cup (Paths \X Values)
  BY DEF QueueUpdate, SizeInv, ArriveInv, WebTypes
<1>2. p \in Paths /\ v \in Values
  BY <1>1
<1>3. batch \in [DOMAIN batch -> Values]
  BY BatchFields DEF SizeInv, ArriveInv, WebTypes
<1>4. /\ IF NewSize(p, v) >= Limit THEN batch' = Empty /\ size' = 0
                                   ELSE batch' = c /\ size' = NewSize(p, v)
  BY DEF QueueUpdate, Enqueue
<1> HIDE DEF p, v
<1>5. /\ IsFiniteSet(Bytes(c)) /\ Sum(batch) \in Nat
      /\ Sum(c) = Sum(batch) - (IF p \in DOMAIN batch THEN SizeOf[batch[p]] ELSE 0) + SizeOf[v]
  <2>1. /\ DOMAIN c = DOMAIN batch \cup {p}
        /\ \A q \in DOMAIN batch \cup {p} : c[q] = IF q = p THEN v ELSE batch[q]
    OBVIOUS
  <2>2. IsFiniteSet(Bytes(batch))
    BY DEF SizeInv
  <2> HIDE DEF c
  <2>3. IsFiniteSet(Bytes(c)) /\ Sum(batch) \in Nat
    BY <1>2, <1>3, <2>1, <2>2, BytesReplaced
  <2>4. Sum(c) = Sum(batch) - (IF p \in DOMAIN batch THEN SizeOf[batch[p]] ELSE 0) + SizeOf[v]
    BY <1>2, <1>3, <2>1, <2>2, BytesReplaced
  <2> QED BY <2>3, <2>4
<1>6. Sum(c) = NewSize(p, v)
  BY <1>5 DEF NewSize, SizeInv, SizeAccounts
<1> HIDE DEF c
<1>7. Sum(c) \in Nat
  BY <1>5, FS_CardinalityType DEF Sum
<1>8. CASE NewSize(p, v) >= Limit
  BY <1>4, <1>8, BytesOfEmpty, WebHookAssumption DEF SizeAccounts, Bytes, Sum
<1>9. CASE ~(NewSize(p, v) >= Limit)
  <2>1. batch' = c /\ size' = Sum(c) /\ size' < Limit
    BY <1>4, <1>6, <1>7, <1>9, WebHookAssumption
  <2> QED BY <2>1, <1>5 DEF SizeAccounts, Bytes, Sum
<1> QED BY <1>8, <1>9

\* The batch leaves, or nothing happens to it.
LEMMA SizeStill ==
    ASSUME SizeInv, (batch' = Empty /\ size' = 0) \/ UNCHANGED <<batch, size>>
    PROVE  IsFiniteSet(Bytes(batch))' /\ SizeAccounts'
<1>1. CASE batch' = Empty /\ size' = 0
  BY <1>1, BytesOfEmpty, WebHookAssumption DEF SizeAccounts, Bytes, Sum
<1>2. CASE UNCHANGED <<batch, size>>
  BY <1>2 DEF SizeInv, SizeAccounts, Bytes, Sum
<1> QED BY <1>1, <1>2

\* Every step keeps the account.
LEMMA SizeKept == ASSUME SizeInv, [Next]_vars PROVE SizeInv'
<1>1. ArriveInv'
  BY ArriveKept DEF SizeInv
<1>2. (\E w \in Writers : QueueUpdate(w))
      \/ (batch' = Empty /\ size' = 0) \/ UNCHANGED <<batch, size>>
  BY DEF Next, Update, Send, WriteFile, TimerFires, EnqueueFromTimer, Enqueue, SendBatch,
         FlushBegin, FlushSend, vars, batchVars
<1> QED BY <1>1, <1>2, SizeQueued, SizeStill DEF SizeInv

(***************************************************************************)
(* _batch_size is the number of bytes in the batch, and below the limit,   *)
(* for any writers, paths, contents and sizes, in whatever order paths are *)
(* overwritten and deleted and timers and flush take the batch away.       *)
(***************************************************************************)
THEOREM BatchSizeAccounts == Spec => []SizeAccounts
<1>1. Init => SizeInv
  <2>1. Init => batch = Empty /\ size = 0
    BY DEF Init
  <2> QED BY <2>1, ArriveStarts, BytesOfEmpty, WebHookAssumption DEF SizeInv, SizeAccounts
<1>2. SizeInv => SizeAccounts
  BY DEF SizeInv
<1> QED BY <1>1, <1>2, SizeKept, PTL DEF Spec

=============================================================================
