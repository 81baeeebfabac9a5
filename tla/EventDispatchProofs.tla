------------------------ MODULE EventDispatchProofs ------------------------
(***************************************************************************)
(* Proofs about EventDispatch.                                             *)
(***************************************************************************)
EXTENDS EventDispatch, SequenceTheorems, WellFoundedInduction, TLAPS

(***************************************************************************)
(* A callback without a pool has nothing to run and runs nothing; a        *)
(* callback that is not registered has no pool.  The domains of the        *)
(* functions are all of the types that the argument needs.                 *)
(***************************************************************************)
PoolInv ==
    /\ DOMAIN pool = Callbacks /\ DOMAIN work = Callbacks /\ DOMAIN busy = Callbacks
    /\ \A c \in Callbacks :
         /\ pool[c] = "none" => work[c] = <<>> /\ busy[c] = 0
         /\ c \notin subscribers => pool[c] = "none"

\* The invariant holds of the object as its constructor leaves it.
LEMMA PoolInvInit == ASSUME Init PROVE PoolInv
  BY DEF Init, PoolInv

\* Every step of the publishers, of close, of the queue thread and of the pools preserves it.
LEMMA PoolInvNext == ASSUME PoolInv, [Next]_vars PROVE PoolInv'
<1> USE DEF PoolInv
<1>1. CASE Put
  BY <1>1 DEF Put, poolVars
<1>2. ASSUME NEW c \in Callbacks, SubscribeCallback(c) PROVE PoolInv'
  BY <1>2 DEF SubscribeCallback, poolVars
<1>3. ASSUME NEW c \in Callbacks, SubscribePool(c) PROVE PoolInv'
  BY <1>3 DEF SubscribePool, poolVars
<1>4. ASSUME NEW c \in Callbacks, CleanUpShut(c) PROVE PoolInv'
  BY <1>4 DEF CleanUpShut, poolVars
<1>5. ASSUME NEW c \in Callbacks, CleanUpPool(c) PROVE PoolInv'
  BY <1>5 DEF CleanUpPool, poolVars
<1>6. ASSUME NEW c \in Callbacks, CleanUpCallback(c) PROVE PoolInv'
  BY <1>6 DEF CleanUpCallback, poolVars
<1>7. CASE CloseStop
  BY <1>7 DEF CloseStop, poolVars
<1>8. CASE CloseJoin
  BY <1>8 DEF CloseJoin, poolVars
<1>9. CASE CloseEnd
  BY <1>9 DEF CloseEnd, poolVars
<1>10. CASE Get
  BY <1>10 DEF Get, poolVars
<1>11. CASE NextKey
  BY <1>11 DEF NextKey, poolVars
<1>12. ASSUME NEW c \in Callbacks, Check(c) PROVE PoolInv'
  BY <1>12 DEF Check, poolVars
<1>13. ASSUME NEW c \in Callbacks, Lookup(c) PROVE PoolInv'
  BY <1>13 DEF Lookup, poolVars
<1>14. ASSUME NEW c \in Callbacks, Submit(c) PROVE PoolInv'
  <2>1. CASE pool[c] = "open"
    BY <1>14, <2>1 DEF Submit
  <2>2. CASE pool[c] # "open"
    BY <1>14, <2>2 DEF Submit
  <2> QED BY <2>1, <2>2
<1>15. ASSUME NEW c \in Callbacks, CallbackBegin(c) PROVE PoolInv'
  BY <1>15 DEF CallbackBegin
<1>16. ASSUME NEW c \in Callbacks, CallbackEnd(c) PROVE PoolInv'
  BY <1>16 DEF CallbackEnd
<1>17. CASE UNCHANGED vars
  BY <1>17 DEF vars, poolVars
<1> QED
  BY <1>1, <1>2, <1>3, <1>4, <1>5, <1>6, <1>7, <1>8, <1>9, <1>10, <1>11, <1>12,
     <1>13, <1>14, <1>15, <1>16, <1>17
     DEF Next, QueueThread, PoolThread, CleanUp, Close, Unsubscribe, CloseCleanUp

(***************************************************************************)
(* A callback that unsubscribe or close has removed is not running and     *)
(* will not be run, for any number of callbacks and events: whatever the   *)
(* queue thread has looked up before, submit finds the pool shut.          *)
(***************************************************************************)
THEOREM CallbacksQuiet == Spec => []QuietAfterUnsubscribe
<1>1. PoolInv => QuietAfterUnsubscribe
  BY DEF PoolInv, QuietAfterUnsubscribe
<1> QED
  BY <1>1, PoolInvInit, PoolInvNext, PTL DEF Spec

-----------------------------------------------------------------------------
(***************************************************************************)
(* The order of delivery.  The events that the queue thread has taken are  *)
(* 1 .. Done, the last of them the one it passes on.                       *)
(***************************************************************************)
Done == published - Len(queue)

\* The queue thread has not yet come to callback c with the event it passes on.
ToVisit(c) == KeyOf[c] \in keys \/ c \in ids \/ c \in current

\* The last event that c must have been given, had it been there all along.
Reach(c) == IF ToVisit(c) THEN Done - 1 ELSE Done

DispatchTypes ==
    /\ published \in Nat /\ published <= MaxEvents
    /\ queue \in Seq(Nat) /\ Len(queue) <= published
    /\ work \in [Callbacks -> Seq(Nat)] /\ handled \in [Callbacks -> Seq(Nat)]
    /\ since \in [Callbacks -> Nat]
    /\ known \subseteq Nat /\ keys \subseteq known /\ subscribers \subseteq Callbacks
    /\ ids \subseteq Callbacks /\ current \subseteq Callbacks

\* The queue holds the events after Done, until close empties it.
QueueInOrder == phase # "closed" => \A i \in 1 .. Len(queue) : queue[i] = Done + i

\* Where the queue thread is: what it has still to visit, each callback once.
ThreadInv ==
    /\ alive /\ event = 0 => keys = {} /\ ids = {} /\ current = {}
    /\ alive /\ event # 0 => event = Done /\ phase \in {"open", "stopping"}
    /\ \A c \in ids \cup current : KeyOf[c] \notin keys
    /\ \A c \in current : c \notin ids /\ \A d \in current : d = c
    /\ \A c \in subscribers : KeyOf[c] \in known
    /\ phase = "closed" => subscribers = {}

\* A callback gets one pool in its life, and nothing before it.
OnePool ==
    \A c \in Callbacks :
        /\ pool[c] = "none" /\ c \in subscribers \ leaving => since[c] > MaxEvents
        /\ since[c] > MaxEvents => pool[c] = "none" /\ Len(Given(c)) = 0
        /\ pool[c] = "shut" => c \in leaving

\* What a callback has been given are consecutive events ...
Stretch(c) == \A i \in 1 .. Len(Given(c)) : Given(c)[i] = Given(c)[1] + i - 1

\* ... that begin no later than its subscription and go on to its Reach.
Cover(c) ==
    alive /\ pool[c] = "open" =>
        /\ Len(Given(c)) = 0 => Reach(c) <= since[c]
        /\ Len(Given(c)) # 0 => /\ Given(c)[1] <= since[c] + 1
                                /\ Given(c)[1] + Len(Given(c)) - 1 = Reach(c)

OrderInv ==
    /\ PoolInv /\ DispatchTypes /\ QueueInOrder /\ ThreadInv /\ OnePool
    /\ \A c \in Callbacks : Stretch(c) /\ Cover(c)

\* sorted() gives the subscriber ids one by one: the least of them is one of them.
LEMMA LeastKey == ASSUME NEW S, S \subseteq Nat, S # {} PROVE Min(S) \in S
<1> DEFINE R == OpToRel(<, Nat)
<1>1. \A x, y \in Nat : <<x, y>> \in R <=> x < y
  BY DEF OpToRel
<1>2. IsWellFoundedOn(R, Nat)
  BY NatLessThanWellFounded
<1> HIDE DEF R
<1>3. PICK m \in S : \A y \in S : ~ (<<y, m>> \in R)
  BY <1>2, WFMin
<1>4. \A y \in S : m <= y
  <2>1. \A y \in S : ~ (y < m)
    BY <1>1, <1>3
  <2> QED BY <2>1
<1> QED BY <1>4, Zenon DEF Min

\* The constants that the argument needs.
LEMMA DispatchConstants == MaxEvents \in Nat /\ KeyOf \in [Callbacks -> Nat]
  BY DispatchAssumption

\* What a callback has been given is a sequence of numbers.
LEMMA GivenType ==
    ASSUME DispatchTypes, NEW c \in Callbacks
    PROVE  Given(c) \in Seq(Nat) /\ Len(Given(c)) \in Nat /\ Done \in Nat /\ since[c] \in Nat
<1>1. work[c] \in Seq(Nat) /\ handled[c] \in Seq(Nat)
  BY DEF DispatchTypes
<1>2. Given(c) \in Seq(Nat)
  BY <1>1 DEF Given
<1>3. Done \in Nat
  BY DEF DispatchTypes, Done
<1> QED BY <1>2, <1>3 DEF DispatchTypes

\* A step that gives c nothing and does not move the queue thread past it keeps
\* what is said about c.
LEMMA FrameGiven ==
    ASSUME OrderInv, NEW c \in Callbacks, UNCHANGED <<Given(c), Done>>, since'[c] = since[c],
           alive' => alive, pool'[c] = "open" => pool[c] = "open",
           alive' /\ pool'[c] = "open" => ToVisit(c)' = ToVisit(c)
    PROVE  Stretch(c)' /\ Cover(c)'
<1>1. Stretch(c) /\ Cover(c)
  BY DEF OrderInv
<1> QED BY <1>1 DEF Stretch, Cover, Reach

\* The constructor leaves an empty queue, and nothing has been given to anyone.
LEMMA OrderInvInit == ASSUME Init PROVE OrderInv
<1>1. DispatchTypes
  <2>1. known \subseteq Nat
    BY DispatchAssumption DEF Init
  <2>2. <<>> \in Seq(Nat) /\ Len(<<>>) = 0
    OBVIOUS
  <2>3. published \in Nat /\ published <= MaxEvents /\ queue \in Seq(Nat) /\ Len(queue) <= published
    BY <2>2, DispatchConstants DEF Init
  <2>4. work \in [Callbacks -> Seq(Nat)] /\ handled \in [Callbacks -> Seq(Nat)]
    BY <2>2 DEF Init
  <2>5. since \in [Callbacks -> Nat]
    BY DispatchConstants DEF Init
  <2>6. keys \subseteq known /\ ids \subseteq Callbacks /\ current \subseteq Callbacks
    BY DEF Init
  <2>7. subscribers \subseteq Callbacks
    BY DispatchAssumption DEF Init
  <2> QED BY <2>1, <2>3, <2>4, <2>5, <2>6, <2>7 DEF DispatchTypes
<1>2. \A c \in Callbacks : Given(c) = <<>>
  BY DEF Init, Given
<1>3. Done = 0
  <2>1. published = 0 /\ Len(queue) = 0
    BY DEF Init
  <2> QED BY <2>1 DEF Done
<1>4. QueueInOrder /\ ThreadInv
  BY DEF Init, QueueInOrder, ThreadInv
<1>5. OnePool
  BY <1>2, DispatchConstants DEF Init, OnePool
<1>6. \A c \in Callbacks : Stretch(c)
  BY <1>2 DEF Stretch
<1>7. ASSUME NEW c \in Callbacks PROVE Cover(c)
  <2>1. Reach(c) = 0
    BY <1>3 DEF Init, Reach, ToVisit
  <2>2. pool[c] = "open" => since[c] = 0
    BY DEF Init
  <2> QED BY <1>2, <2>1, <2>2 DEF Cover
<1> QED BY <1>1, <1>4, <1>5, <1>6, <1>7, PoolInvInit DEF OrderInv

\* The types are kept.
LEMMA DispatchTypesNext == ASSUME OrderInv, [Next]_vars PROVE DispatchTypes'
<1> USE DEF DispatchTypes
<1> DispatchTypes
  BY DEF OrderInv
<1>1. CASE Put
  BY <1>1, DispatchConstants DEF Put, poolVars, threadVars
<1>2. ASSUME NEW c \in Callbacks, SubscribeCallback(c) PROVE DispatchTypes'
  <2>1. KeyOf[c] \in Nat
    BY DispatchConstants
  <2> QED BY <1>2, <2>1 DEF SubscribeCallback, poolVars, threadVars
<1>3. ASSUME NEW c \in Callbacks, SubscribePool(c) PROVE DispatchTypes'
  BY <1>3 DEF SubscribePool, poolVars, threadVars
<1>4. ASSUME NEW c \in Callbacks, CleanUpShut(c) PROVE DispatchTypes'
  BY <1>4 DEF CleanUpShut, poolVars, threadVars
<1>5. ASSUME NEW c \in Callbacks, CleanUpPool(c) PROVE DispatchTypes'
  BY <1>5 DEF CleanUpPool, poolVars, threadVars
<1>6. ASSUME NEW c \in Callbacks, CleanUpCallback(c) PROVE DispatchTypes'
  BY <1>6 DEF CleanUpCallback, poolVars, threadVars
<1>7. CASE CloseStop
  BY <1>7 DEF CloseStop, poolVars, threadVars
<1>8. CASE CloseJoin
  BY <1>8 DEF CloseJoin, poolVars, threadVars
<1>9. CASE CloseEnd
  BY <1>9 DEF CloseEnd, poolVars, threadVars
<1>10. CASE Get
  <2>1. queue # <<>> /\ queue' = Tail(queue) /\ published' = published
    BY <1>10 DEF Get
  <2>2. queue' \in Seq(Nat) /\ Len(queue') = Len(queue) - 1
    BY <2>1
  <2> QED BY <1>10, <2>1, <2>2 DEF Get, poolVars
<1>11. CASE NextKey
  <2>1. keys' \subseteq known /\ known' = known
    BY <1>11 DEF NextKey
  <2>2. ids' \subseteq Callbacks
    BY <1>11 DEF NextKey
  <2> QED BY <1>11, <2>1, <2>2 DEF NextKey, poolVars
<1>12. ASSUME NEW c \in Callbacks, Check(c) PROVE DispatchTypes'
  BY <1>12 DEF Check, poolVars
<1>13. ASSUME NEW c \in Callbacks, Lookup(c) PROVE DispatchTypes'
  BY <1>13 DEF Lookup, poolVars
<1>14. ASSUME NEW c \in Callbacks, Submit(c) PROVE DispatchTypes'
  <2>1. CASE pool[c] = "open"
    <3>1. c \in current /\ event \in Nat
      BY <1>14, GivenType DEF Submit, OrderInv, ThreadInv
    <3>2. Append(work[c], event) \in Seq(Nat)
      BY <3>1
    <3> QED BY <1>14, <2>1, <3>2 DEF Submit
  <2>2. CASE pool[c] # "open"
    BY <1>14, <2>2 DEF Submit
  <2> QED BY <2>1, <2>2
<1>15. ASSUME NEW c \in Callbacks, CallbackBegin(c) PROVE DispatchTypes'
  <2>1. work[c] \in Seq(Nat) /\ work[c] # <<>> /\ handled[c] \in Seq(Nat)
    BY <1>15 DEF CallbackBegin
  <2>2. Tail(work[c]) \in Seq(Nat) /\ Append(handled[c], Head(work[c])) \in Seq(Nat)
    BY <2>1
  <2> QED BY <1>15, <2>2 DEF CallbackBegin, threadVars
<1>16. ASSUME NEW c \in Callbacks, CallbackEnd(c) PROVE DispatchTypes'
  BY <1>16 DEF CallbackEnd, threadVars
<1>17. CASE UNCHANGED vars
  BY <1>17 DEF vars, poolVars, threadVars
<1> QED
  BY <1>1, <1>2, <1>3, <1>4, <1>5, <1>6, <1>7, <1>8, <1>9, <1>10, <1>11, <1>12,
     <1>13, <1>14, <1>15, <1>16, <1>17
     DEF Next, QueueThread, PoolThread, CleanUp, Close, Unsubscribe, CloseCleanUp

\* The queue stays a run of numbers, and the thread's lists stay what they are.
LEMMA ThreadInvNext == ASSUME OrderInv, [Next]_vars PROVE QueueInOrder' /\ ThreadInv'
<1> DEFINE Good == QueueInOrder' /\ ThreadInv'
<1> SUFFICES Good
  OBVIOUS
<1>a. DispatchTypes /\ QueueInOrder /\ ThreadInv /\ Done \in Nat
  BY GivenType DEF OrderInv, Done, DispatchTypes
<1>b. ASSUME UNCHANGED <<published, queue, subscribers, known, event, keys, ids, current>>,
             alive' => alive,
             \/ phase' = phase
             \/ /\ phase # "closed" /\ phase' # "closed"
                /\ phase' = "stopping" \/ event = 0 \/ ~ alive
      PROVE  Good
  <2>1. Done' = Done
    BY <1>b DEF Done
  <2>2. QueueInOrder'
    BY <1>a, <1>b, <2>1 DEF QueueInOrder
  <2>3. ThreadInv'
    BY <1>a, <1>b, <2>1 DEF ThreadInv
  <2> QED BY <2>2, <2>3 DEF Good
<1> HIDE DEF Good
<1>1. CASE Put
  <2>1. published' = published + 1 /\ queue' = Append(queue, published + 1)
    BY <1>1 DEF Put
  <2>2. Done' = Done /\ Len(queue') = Len(queue) + 1 /\ queue'[Len(queue')] = Done + Len(queue')
        /\ \A i \in 1 .. Len(queue) : queue'[i] = queue[i]
    BY <1>a, <2>1 DEF DispatchTypes, Done
  <2>3. QueueInOrder'
    <3> SUFFICES ASSUME phase # "closed", NEW i \in 1 .. Len(queue') PROVE queue'[i] = Done + i
      BY <1>1, <2>2 DEF QueueInOrder, Put
    <3>1. i \in 1 .. Len(queue) \/ i = Len(queue')
      BY <2>2, <1>a DEF DispatchTypes
    <3> QED BY <1>a, <2>2, <3>1 DEF QueueInOrder
  <2>4. ThreadInv'
    BY <1>1, <1>a, <2>2 DEF Put, ThreadInv, threadVars
  <2> QED BY <2>3, <2>4 DEF Good
<1>2. ASSUME NEW c \in Callbacks, SubscribeCallback(c) PROVE Good
  <2>1. Done' = Done /\ UNCHANGED <<queue, phase>> /\ phase = "open"
    BY <1>2 DEF SubscribeCallback, Done
  <2>2. QueueInOrder'
    BY <1>a, <2>1 DEF QueueInOrder
  <2>3. ThreadInv'
    BY <1>2, <1>a, <2>1 DEF SubscribeCallback, ThreadInv, threadVars
  <2> QED BY <2>2, <2>3 DEF Good
<1>3. ASSUME NEW c \in Callbacks, SubscribePool(c) PROVE Good
  BY <1>3, <1>b DEF SubscribePool, threadVars
<1>4. ASSUME NEW c \in Callbacks, CleanUpShut(c) PROVE Good
  BY <1>4, <1>b DEF CleanUpShut, threadVars
<1>5. ASSUME NEW c \in Callbacks, CleanUpPool(c) PROVE Good
  BY <1>5, <1>b DEF CleanUpPool, threadVars
<1>6. ASSUME NEW c \in Callbacks, CleanUpCallback(c) PROVE Good
  BY <1>6, <1>a DEF CleanUpCallback, threadVars, ThreadInv, QueueInOrder, Done, Good
<1>7. CASE CloseStop
  BY <1>7, <1>b DEF CloseStop, threadVars
<1>8. CASE CloseJoin
  BY <1>8, <1>b DEF CloseJoin, threadVars
<1>9. CASE CloseEnd
  BY <1>9, <1>a DEF CloseEnd, threadVars, ThreadInv, QueueInOrder, Good
<1>10. CASE Get
  <2>1. /\ alive /\ queue # <<>> /\ queue' = Tail(queue) /\ published' = published /\ phase = "open"
        /\ event' = Head(queue) /\ keys' = known /\ event = 0
        /\ UNCHANGED <<ids, current, alive, subscribers, known, phase>>
    BY <1>10 DEF Get
  <2>2. Done' = Done + 1 /\ Len(queue') = Len(queue) - 1 /\ Head(queue) = Done + 1
        /\ \A i \in 1 .. Len(queue') : queue'[i] = queue[i + 1] /\ i + 1 \in 1 .. Len(queue)
    BY <1>a, <2>1 DEF DispatchTypes, Done, QueueInOrder
  <2>3. QueueInOrder'
    <3> SUFFICES ASSUME NEW i \in 1 .. Len(queue') PROVE queue'[i] = Done + 1 + i
      BY <2>2 DEF QueueInOrder
    <3>1. queue[i + 1] = Done + (i + 1)
      BY <1>a, <2>1, <2>2 DEF QueueInOrder
    <3> QED BY <1>a, <2>2, <3>1
  <2>4. ThreadInv'
    BY <1>a, <2>1, <2>2 DEF ThreadInv
  <2> QED BY <2>3, <2>4 DEF Good
<1>11. CASE NextKey
  <2>1. /\ alive /\ event # 0 /\ ids = {} /\ current = {}
        /\ UNCHANGED <<published, queue, subscribers, known, phase, current, alive>>
    BY <1>11 DEF NextKey
  <2>2. QueueInOrder'
    BY <1>a, <2>1 DEF QueueInOrder, Done
  <2>3. CASE keys = {}
    BY <1>11, <1>a, <2>1, <2>2, <2>3 DEF NextKey, ThreadInv, Done, Good
  <2>4. CASE keys # {}
    <3>1. /\ keys' = keys \ {Min(keys)} /\ event' = event
          /\ ids' = {c \in subscribers : KeyOf[c] = Min(keys)}
      BY <1>11, <2>4 DEF NextKey
    <3>2. \A c \in ids' : KeyOf[c] \notin keys'
      BY <3>1
    <3> QED BY <1>a, <2>1, <2>2, <3>1, <3>2 DEF ThreadInv, Done, Good
  <2> QED BY <2>3, <2>4
<1>12. ASSUME NEW c \in Callbacks, Check(c) PROVE Good
  <2>1. /\ alive /\ c \in ids /\ ids' = ids \ {c} /\ current' = {c} \cap subscribers
        /\ UNCHANGED <<published, queue, subscribers, known, phase, event, keys, alive>>
    BY <1>12 DEF Check
  <2>2. QueueInOrder'
    BY <1>a, <2>1 DEF QueueInOrder, Done
  <2>3. ThreadInv'
    BY <1>a, <2>1 DEF ThreadInv, Done
  <2> QED BY <2>2, <2>3 DEF Good
<1>13. ASSUME NEW c \in Callbacks, Lookup(c) PROVE Good
  BY <1>13, <1>b DEF Lookup
<1>14. ASSUME NEW c \in Callbacks, Submit(c) PROVE Good
  <2>1. /\ alive /\ current' = {}
        /\ UNCHANGED <<published, queue, subscribers, known, phase, event, keys, ids>>
    BY <1>14 DEF Submit
  <2>2. QueueInOrder'
    BY <1>a, <2>1 DEF QueueInOrder, Done
  <2>3. ThreadInv'
    BY <1>a, <2>1 DEF ThreadInv, Done
  <2> QED BY <2>2, <2>3 DEF Good
<1>15. ASSUME NEW c \in Callbacks, CallbackBegin(c) PROVE Good
  BY <1>15, <1>b DEF CallbackBegin, threadVars
<1>16. ASSUME NEW c \in Callbacks, CallbackEnd(c) PROVE Good
  BY <1>16, <1>b DEF CallbackEnd, threadVars
<1>17. CASE UNCHANGED vars
  BY <1>17, <1>b DEF vars, threadVars
<1> QED
  BY <1>1, <1>2, <1>3, <1>4, <1>5, <1>6, <1>7, <1>8, <1>9, <1>10, <1>11, <1>12,
     <1>13, <1>14, <1>15, <1>16, <1>17
     DEF Next, QueueThread, PoolThread, CleanUp, Close, Unsubscribe, CloseCleanUp

\* A callback's thread moves an event from what is left to run to what was run.
LEMMA GivenBegins ==
    ASSUME DispatchTypes, NEW d \in Callbacks, CallbackBegin(d), NEW c \in Callbacks
    PROVE  Given(c)' = Given(c)
<1>1. CASE c = d
  <2> DEFINE wk == work[c]
             hd == handled[c]
  <2>1. wk \in Seq(Nat) /\ wk # <<>> /\ hd \in Seq(Nat)
    BY <1>1 DEF DispatchTypes, CallbackBegin
  <2>2. work'[c] = Tail(wk) /\ handled'[c] = Append(hd, Head(wk))
    BY <1>1 DEF DispatchTypes, CallbackBegin
  <2> HIDE DEF wk, hd
  <2>3. Append(hd, Head(wk)) \o Tail(wk) = hd \o wk
    BY <2>1, SMTT(30)
  <2> QED BY <2>2, <2>3 DEF Given, wk, hd
<1>2. CASE c # d
  BY <1>2 DEF DispatchTypes, CallbackBegin, Given
<1> QED BY <1>1, <1>2

\* To append to what comes last is to append to the whole.
LEMMA AppendLast ==
    ASSUME NEW s \in Seq(Nat), NEW t \in Seq(Nat), NEW e \in Nat
    PROVE  s \o Append(t, e) = Append(s \o t, e)
<1> DEFINE l == s \o Append(t, e)
           r == Append(s \o t, e)
<1>1. /\ l \in Seq(Nat) /\ r \in Seq(Nat)
      /\ Len(l) = Len(s) + Len(t) + 1 /\ Len(r) = Len(s) + Len(t) + 1
  OBVIOUS
<1>2. ASSUME NEW i \in 1 .. Len(s) + Len(t) + 1 PROVE l[i] = r[i]
  OBVIOUS
<1> HIDE DEF l, r
<1>3. l = r
  BY <1>1, <1>2, SeqEqual
<1> QED BY <1>3 DEF l, r

\* What submit does to the events that the callbacks have been given.
LEMMA GivenSubmits ==
    ASSUME DispatchTypes, NEW d \in Callbacks, Submit(d), pool[d] = "open", event \in Nat,
           NEW c \in Callbacks
    PROVE  Given(c)' = IF c = d THEN Append(Given(c), event) ELSE Given(c)
<1>1. work' = [work EXCEPT ![d] = Append(work[d], event)] /\ handled' = handled
  BY DEF Submit
<1>2. work[c] \in Seq(Nat) /\ handled[c] \in Seq(Nat)
  BY DEF DispatchTypes
<1>3. handled[c] \o Append(work[c], event) = Append(handled[c] \o work[c], event)
  BY <1>2, AppendLast
<1> QED BY <1>1, <1>3 DEF DispatchTypes, Given

\* The event that follows a stretch of length l from a on.
LEMMA NextInStretch == \A a, l, e \in Nat : a + l - 1 = e - 1 => e = a + (l + 1) - 1
  OBVIOUS

\* One more event after a stretch that reached the event before it.
LEMMA StretchGrows ==
    ASSUME NEW s \in Seq(Nat), NEW e \in Nat,
           \A i \in 1 .. Len(s) : s[i] = s[1] + i - 1,
           Len(s) # 0 => s[1] + Len(s) - 1 = e - 1
    PROVE  /\ \A i \in 1 .. Len(Append(s, e)) : Append(s, e)[i] = Append(s, e)[1] + i - 1
           /\ Len(Append(s, e)) = Len(s) + 1
           /\ Append(s, e)[1] = IF Len(s) = 0 THEN e ELSE s[1]
<1> DEFINE t == Append(s, e)
<1>1. /\ Len(s) \in Nat /\ Len(t) = Len(s) + 1 /\ t[Len(s) + 1] = e
      /\ \A i \in 1 .. Len(s) : t[i] = s[i] /\ s[i] \in Nat
  BY SMTT(30)
<1> HIDE DEF t
<1>2. t[1] = IF Len(s) = 0 THEN e ELSE s[1]
  BY <1>1
<1>3. ASSUME NEW i \in 1 .. Len(t) PROVE t[i] = t[1] + i - 1
  <2>1. CASE i = Len(s) + 1
    <3>1. CASE Len(s) = 0
      BY <1>1, <1>2, <2>1, <3>1
    <3>2. CASE Len(s) # 0
      <4>1. s[1] \in Nat
        BY <1>1, <3>2
      <4>2. s[1] + Len(s) - 1 = e - 1
        BY <3>2
      <4>3. e = s[1] + (Len(s) + 1) - 1
        BY <1>1, <4>1, <4>2, NextInStretch, ZenonT(30)
      <4> QED BY <1>1, <1>2, <2>1, <3>2, <4>3
    <3> QED BY <3>1, <3>2
  <2>2. CASE i # Len(s) + 1
    <3>1. i \in 1 .. Len(s) /\ Len(s) # 0
      BY <1>1, <2>2
    <3> QED BY <1>1, <1>2, <3>1
  <2> QED BY <2>1, <2>2
<1> QED BY <1>1, <1>2, <1>3 DEF t

\* No callback gets a second pool.
LEMMA OnePoolNext == ASSUME OrderInv, [Next]_vars PROVE OnePool'
<1>a. DispatchTypes /\ OnePool /\ PoolInv /\ ThreadInv /\ MaxEvents \in Nat
  BY DispatchConstants DEF OrderInv
<1>b. ASSUME UNCHANGED <<work, handled>>, NEW c \in Callbacks PROVE Given(c)' = Given(c)
  BY <1>b DEF Given
<1>c. ASSUME UNCHANGED <<pool, since, subscribers, leaving>>,
             \A c \in Callbacks : Given(c)' = Given(c)
      PROVE  OnePool'
  BY <1>a, <1>c DEF OnePool
<1>1. CASE Put
  BY <1>1, <1>b, <1>c DEF Put, poolVars
<1>2. ASSUME NEW c \in Callbacks, SubscribeCallback(c) PROVE OnePool'
  BY <1>2, <1>a, <1>b DEF SubscribeCallback, poolVars, OnePool
<1>3. ASSUME NEW c \in Callbacks, SubscribePool(c) PROVE OnePool'
  <2>1. since' = [since EXCEPT ![c] = published] /\ since \in [Callbacks -> Nat]
        /\ published \in Nat /\ published <= MaxEvents
    BY <1>3, <1>a DEF SubscribePool, DispatchTypes
  <2>2. pool' = [pool EXCEPT ![c] = "open"] /\ DOMAIN pool = Callbacks
        /\ UNCHANGED <<subscribers, leaving>>
    BY <1>3, <1>a DEF SubscribePool, PoolInv
  <2>3. \A d \in Callbacks : Given(d)' = Given(d)
    BY <1>3, <1>b DEF SubscribePool, poolVars
  <2> QED BY <1>a, <2>1, <2>2, <2>3 DEF OnePool
<1>4. ASSUME NEW c \in Callbacks, CleanUpShut(c) PROVE OnePool'
  <2>1. /\ pool' = [pool EXCEPT ![c] = "shut"] /\ DOMAIN pool = Callbacks /\ pool[c] = "open"
        /\ leaving' = leaving \cup {c} /\ UNCHANGED <<subscribers, since>>
    BY <1>4, <1>a DEF CleanUpShut, PoolInv
  <2>2. \A d \in Callbacks : Given(d)' = Given(d)
    BY <1>4, <1>b DEF CleanUpShut, poolVars
  <2> QED BY <1>a, <2>1, <2>2 DEF OnePool
<1>5. ASSUME NEW c \in Callbacks, CleanUpPool(c) PROVE OnePool'
  <2>1. /\ pool' = [pool EXCEPT ![c] = "none"] /\ DOMAIN pool = Callbacks /\ pool[c] = "shut"
        /\ UNCHANGED <<subscribers, since, leaving>>
    BY <1>5, <1>a DEF CleanUpPool, PoolInv
  <2>2. \A d \in Callbacks : Given(d)' = Given(d)
    BY <1>5, <1>b DEF CleanUpPool, poolVars
  <2> QED BY <1>a, <2>1, <2>2 DEF OnePool
<1>6. ASSUME NEW c \in Callbacks, CleanUpCallback(c) PROVE OnePool'
  <2>1. /\ subscribers' = subscribers \ {c} /\ leaving' = leaving \ {c} /\ pool[c] = "none"
        /\ UNCHANGED <<pool, since>>
    BY <1>6 DEF CleanUpCallback
  <2>2. \A d \in Callbacks : Given(d)' = Given(d)
    BY <1>6, <1>b DEF CleanUpCallback, poolVars
  <2> QED BY <1>a, <2>1, <2>2 DEF OnePool
<1>7. CASE CloseStop
  BY <1>7, <1>b, <1>c DEF CloseStop, poolVars
<1>8. CASE CloseJoin
  BY <1>8, <1>b, <1>c DEF CloseJoin, poolVars
<1>9. CASE CloseEnd
  BY <1>9, <1>b, <1>c DEF CloseEnd, poolVars
<1>10. CASE Get
  BY <1>10, <1>b, <1>c DEF Get, poolVars
<1>11. CASE NextKey
  BY <1>11, <1>b, <1>c DEF NextKey, poolVars
<1>12. ASSUME NEW c \in Callbacks, Check(c) PROVE OnePool'
  BY <1>12, <1>b, <1>c DEF Check, poolVars
<1>13. ASSUME NEW c \in Callbacks, Lookup(c) PROVE OnePool'
  BY <1>13, <1>b, <1>c DEF Lookup, poolVars
<1>14. ASSUME NEW c \in Callbacks, Submit(c) PROVE OnePool'
  <2>1. CASE pool[c] = "open"
    <3>1. event \in Nat
      BY <1>14, <1>a, GivenType DEF Submit, ThreadInv
    <3>2. \A d \in Callbacks : since[d] > MaxEvents => Given(d)' = Given(d)
      BY <1>14, <1>a, <2>1, <3>1, GivenSubmits DEF OnePool
    <3> QED BY <1>14, <1>a, <3>2 DEF Submit, OnePool
  <2>2. CASE pool[c] # "open"
    BY <1>14, <1>b, <1>c, <2>2 DEF Submit
  <2> QED BY <2>1, <2>2
<1>15. ASSUME NEW c \in Callbacks, CallbackBegin(c) PROVE OnePool'
  BY <1>15, <1>a, <1>c, GivenBegins DEF CallbackBegin
<1>16. ASSUME NEW c \in Callbacks, CallbackEnd(c) PROVE OnePool'
  BY <1>16, <1>b, <1>c DEF CallbackEnd
<1>17. CASE UNCHANGED vars
  BY <1>17, <1>b, <1>c DEF vars, poolVars
<1> QED
  BY <1>1, <1>2, <1>3, <1>4, <1>5, <1>6, <1>7, <1>8, <1>9, <1>10, <1>11, <1>12,
     <1>13, <1>14, <1>15, <1>16, <1>17
     DEF Next, QueueThread, PoolThread, CleanUp, Close, Unsubscribe, CloseCleanUp

\* What each callback has been given stays a stretch of the stream up to its Reach.
LEMMA GivenNext ==
    ASSUME OrderInv, [Next]_vars, NEW c \in Callbacks
    PROVE  Stretch(c)' /\ Cover(c)'
<1> DEFINE Good == Stretch(c)' /\ Cover(c)'
<1> SUFFICES Good
  OBVIOUS
<1>a. DispatchTypes /\ OnePool /\ PoolInv /\ ThreadInv /\ QueueInOrder /\ Stretch(c) /\ Cover(c)
  BY DEF OrderInv
<1>t. /\ Given(c) \in Seq(Nat) /\ Len(Given(c)) \in Nat /\ Done \in Nat /\ since[c] \in Nat
      /\ Reach(c) \in Int /\ Reach(c) <= Done /\ Done <= published /\ published \in Nat
  BY <1>a, GivenType DEF Reach, DispatchTypes, Done
<1>b. ASSUME UNCHANGED <<work, handled>> PROVE Given(c)' = Given(c)
  BY <1>b DEF Given
<1>c. ASSUME Given(c)' = Given(c), UNCHANGED <<published, queue, since, keys, ids, current>>,
             alive' => alive, pool'[c] = "open" => pool[c] = "open"
      PROVE  Good
  <2>1. Done' = Done /\ ToVisit(c)' = ToVisit(c) /\ since'[c] = since[c]
    BY <1>c DEF Done, ToVisit
  <2> QED BY <1>c, <2>1, FrameGiven
<1> HIDE DEF Good
<1>1. CASE Put
  <2>1. Done' = Done
    BY <1>1, <1>a DEF Put, Done, DispatchTypes
  <2>2. Given(c)' = Given(c) /\ ToVisit(c)' = ToVisit(c)
    BY <1>1, <1>b DEF Put, poolVars, threadVars, ToVisit
  <2> QED BY <1>1, <2>1, <2>2, FrameGiven DEF Put, threadVars, Good
<1>2. ASSUME NEW d \in Callbacks, SubscribeCallback(d) PROVE Good
  BY <1>2, <1>b, <1>c DEF SubscribeCallback, poolVars, threadVars
<1>3. ASSUME NEW d \in Callbacks, SubscribePool(d) PROVE Good
  <2>1. /\ since' = [since EXCEPT ![d] = published] /\ pool' = [pool EXCEPT ![d] = "open"]
        /\ pool[d] = "none" /\ d \in subscribers \ leaving
        /\ UNCHANGED <<published, queue, keys, ids, current, alive>>
    BY <1>3 DEF SubscribePool, threadVars
  <2>2. Given(c)' = Given(c) /\ Done' = Done /\ ToVisit(c)' = ToVisit(c)
    BY <1>3, <1>b, <2>1 DEF SubscribePool, poolVars, Done, ToVisit
  <2>3. CASE c = d
    <3>1. Len(Given(c)) = 0
      BY <1>a, <2>1, <2>3 DEF OnePool
    <3>2. since'[c] = published
      BY <1>a, <2>1, <2>3 DEF DispatchTypes
    <3>3. Reach(c)' = Reach(c)
      BY <2>2 DEF Reach
    <3> QED BY <1>t, <2>2, <3>1, <3>2, <3>3 DEF Good, Stretch, Cover
  <2>4. CASE c # d
    <3>1. since'[c] = since[c] /\ pool'[c] = pool[c]
      BY <1>a, <2>1, <2>4 DEF DispatchTypes, PoolInv
    <3> QED BY <2>1, <2>2, <3>1, FrameGiven DEF Good
  <2> QED BY <2>3, <2>4
<1>4. ASSUME NEW d \in Callbacks, CleanUpShut(d) PROVE Good
  <2>1. pool'[c] = "open" => pool[c] = "open"
    BY <1>4, <1>a DEF CleanUpShut, PoolInv
  <2> QED BY <1>4, <1>b, <1>c, <2>1 DEF CleanUpShut, poolVars, threadVars
<1>5. ASSUME NEW d \in Callbacks, CleanUpPool(d) PROVE Good
  <2>1. pool'[c] = "open" => pool[c] = "open"
    BY <1>5, <1>a DEF CleanUpPool, PoolInv
  <2> QED BY <1>5, <1>b, <1>c, <2>1 DEF CleanUpPool, poolVars, threadVars
<1>6. ASSUME NEW d \in Callbacks, CleanUpCallback(d) PROVE Good
  BY <1>6, <1>b, <1>c DEF CleanUpCallback, poolVars, threadVars
<1>7. CASE CloseStop
  BY <1>7, <1>b, <1>c DEF CloseStop, poolVars, threadVars
<1>8. CASE CloseJoin
  BY <1>8, <1>b, <1>c DEF CloseJoin, poolVars, threadVars
<1>9. CASE CloseEnd
  <2>1. pool'[c] # "open"
    BY <1>9, <1>a DEF CloseEnd, PoolInv
  <2>2. Given(c)' = Given(c)
    BY <1>9, <1>b DEF CloseEnd, poolVars
  <2> QED BY <1>a, <2>1, <2>2 DEF Stretch, Cover, Good
<1>10. CASE Get
  <2>1. /\ alive /\ queue # <<>> /\ queue' = Tail(queue) /\ published' = published
        /\ keys' = known /\ event = 0 /\ UNCHANGED <<ids, current, alive, since, pool>>
    BY <1>10 DEF Get
  <2>2. Done' = Done + 1
    BY <1>a, <2>1 DEF DispatchTypes, Done
  <2>3. Given(c)' = Given(c)
    BY <1>10, <1>b DEF Get, poolVars
  <2>4. pool[c] = "open" => Reach(c)' = Reach(c)
    <3>1. ~ ToVisit(c)
      BY <1>a, <2>1 DEF ThreadInv, ToVisit
    <3>2. pool[c] = "open" => ToVisit(c)'
      BY <1>a, <2>1 DEF ThreadInv, ToVisit, PoolInv
    <3> QED BY <1>t, <2>2, <3>1, <3>2 DEF Reach
  <2> QED BY <1>a, <2>1, <2>3, <2>4 DEF Good, Stretch, Cover
<1>11. CASE NextKey
  <2>1. /\ ids = {} /\ current = {}
        /\ UNCHANGED <<published, queue, subscribers, current, alive, since, pool>>
    BY <1>11 DEF NextKey
  <2>2. Given(c)' = Given(c) /\ Done' = Done
    BY <1>11, <1>b, <2>1 DEF NextKey, poolVars, Done
  <2>3. pool[c] = "open" => ToVisit(c)' = ToVisit(c)
    <3>1. CASE keys = {}
      BY <1>11, <2>1, <3>1 DEF NextKey, ToVisit
    <3>2. CASE keys # {}
      <4>1. Min(keys) \in keys
        BY <1>a, <3>2, LeastKey DEF DispatchTypes
      <4>2. /\ keys' = keys \ {Min(keys)}
            /\ ids' = {x \in subscribers : KeyOf[x] = Min(keys)}
        BY <1>11, <3>2 DEF NextKey
      <4>3. pool[c] = "open" => c \in subscribers
        BY <1>a DEF PoolInv
      <4>4. ToVisit(c) = (KeyOf[c] \in keys)
        BY <2>1 DEF ToVisit
      <4>5. pool[c] = "open" => ToVisit(c)' = (KeyOf[c] \in keys)
        BY <2>1, <4>1, <4>2, <4>3 DEF ToVisit
      <4> QED BY <4>4, <4>5
    <3> QED BY <3>1, <3>2
  <2> QED BY <2>1, <2>2, <2>3, FrameGiven DEF Good
<1>12. ASSUME NEW d \in Callbacks, Check(d) PROVE Good
  <2>1. /\ d \in ids /\ ids' = ids \ {d} /\ current = {} /\ current' = {d} \cap subscribers
        /\ UNCHANGED <<published, queue, subscribers, keys, alive, since, pool>>
    BY <1>12 DEF Check
  <2>2. Given(c)' = Given(c) /\ Done' = Done
    BY <1>12, <1>b, <2>1 DEF Check, poolVars, Done
  <2>3. pool[c] = "open" => ToVisit(c)' = ToVisit(c)
    BY <1>a, <2>1 DEF ToVisit, PoolInv
  <2> QED BY <2>1, <2>2, <2>3, FrameGiven DEF Good
<1>13. ASSUME NEW d \in Callbacks, Lookup(d) PROVE Good
  BY <1>13, <1>b, <1>c DEF Lookup, poolVars
<1>14. ASSUME NEW d \in Callbacks, Submit(d) PROVE Good
  <2>1. /\ alive /\ d \in current /\ current' = {}
        /\ UNCHANGED <<published, queue, subscribers, keys, ids, since, pool>>
    BY <1>14 DEF Submit
  <2>2. event = Done /\ d \notin ids /\ KeyOf[d] \notin keys /\ current = {d} /\ Done' = Done
    BY <1>a, <2>1 DEF ThreadInv, Done
  <2>3. CASE pool[d] # "open"
    <3>1. ~ alive' /\ Given(c)' = Given(c)
      BY <1>14, <1>b, <2>3 DEF Submit
    <3> QED BY <1>a, <3>1 DEF Good, Stretch, Cover
  <2>4. CASE pool[d] = "open" /\ c # d
    <3>1. Given(c)' = Given(c)
      BY <1>14, <1>a, <1>t, <2>2, <2>4, GivenSubmits
    <3>2. ToVisit(c)' = ToVisit(c)
      BY <2>1, <2>2, <2>4 DEF ToVisit
    <3> QED BY <2>1, <2>2, <3>1, <3>2, FrameGiven DEF Good
  <2>5. CASE pool[d] = "open" /\ c = d
    <3>1. Given(c)' = Append(Given(c), event)
      BY <1>14, <1>a, <1>t, <2>2, <2>5, GivenSubmits
    <3>2. Reach(c) = event - 1
      BY <2>1, <2>2, <2>5 DEF Reach, ToVisit
    <3>3. Reach(c)' = event
      BY <2>1, <2>2, <2>5 DEF Reach, ToVisit
    <3>4. /\ Len(Given(c)) = 0 => event - 1 <= since[c]
          /\ Len(Given(c)) # 0 => /\ Given(c)[1] <= since[c] + 1
                                  /\ Given(c)[1] + Len(Given(c)) - 1 = event - 1
      BY <1>a, <2>1, <2>5, <3>2 DEF Cover
    <3>5. /\ \A i \in 1 .. Len(Given(c)') : Given(c)'[i] = Given(c)'[1] + i - 1
          /\ Len(Given(c)') = Len(Given(c)) + 1
          /\ Given(c)'[1] = IF Len(Given(c)) = 0 THEN event ELSE Given(c)[1]
      <4> DEFINE g == Given(c)
      <4>1. g \in Seq(Nat) /\ event \in Nat /\ \A i \in 1 .. Len(g) : g[i] = g[1] + i - 1
        BY <1>a, <1>t, <2>2 DEF Stretch
      <4>2. Len(g) # 0 => g[1] + Len(g) - 1 = event - 1
        BY <3>4
      <4>3. Given(c)' = Append(g, event)
        BY <3>1
      <4> HIDE DEF g
      <4>4. /\ \A i \in 1 .. Len(Append(g, event)) :
                 Append(g, event)[i] = Append(g, event)[1] + i - 1
            /\ Len(Append(g, event)) = Len(g) + 1
            /\ Append(g, event)[1] = IF Len(g) = 0 THEN event ELSE g[1]
        BY <4>1, <4>2, StretchGrows
      <4> QED BY <4>3, <4>4 DEF g
    <3>6. Stretch(c)'
      BY <3>5 DEF Stretch
    <3>7. Len(Given(c)) # 0 => Given(c)[1] \in Nat
      BY <1>t
    <3>8. Given(c)'[1] <= since[c] + 1 /\ Given(c)'[1] + Len(Given(c)') - 1 = event
      <4>1. CASE Len(Given(c)) = 0
        BY <1>t, <2>2, <3>4, <3>5, <4>1
      <4>2. CASE Len(Given(c)) # 0
        <5>1. Given(c)[1] \in Nat /\ event \in Nat /\ Len(Given(c)) \in Nat
          BY <1>t, <2>2, <3>7, <4>2
        <5>2. Given(c)[1] + Len(Given(c)) - 1 = event - 1 /\ Given(c)[1] <= since[c] + 1
          BY <3>4, <4>2
        <5>3. Given(c)[1] + (Len(Given(c)) + 1) - 1 = event
          BY <5>1, <5>2
        <5> QED BY <3>5, <4>2, <5>2, <5>3
      <4> QED BY <4>1, <4>2
    <3>9. Cover(c)'
      BY <1>t, <2>1, <3>3, <3>5, <3>8 DEF Cover
    <3> QED BY <3>6, <3>9 DEF Good
  <2> QED BY <2>3, <2>4, <2>5
<1>15. ASSUME NEW d \in Callbacks, CallbackBegin(d) PROVE Good
  BY <1>15, <1>a, <1>c, GivenBegins DEF CallbackBegin, threadVars
<1>16. ASSUME NEW d \in Callbacks, CallbackEnd(d) PROVE Good
  BY <1>16, <1>b, <1>c DEF CallbackEnd, threadVars
<1>17. CASE UNCHANGED vars
  BY <1>17, <1>b, <1>c DEF vars, poolVars, threadVars
<1> QED
  BY <1>1, <1>2, <1>3, <1>4, <1>5, <1>6, <1>7, <1>8, <1>9, <1>10, <1>11, <1>12,
     <1>13, <1>14, <1>15, <1>16, <1>17
     DEF Next, QueueThread, PoolThread, CleanUp, Close, Unsubscribe, CloseCleanUp

(***************************************************************************)
(* Every callback is given a stretch of the stream without gaps, repeats   *)
(* or swaps, and between two events one that has been subscribed all along *)
(* has been given all that the queue thread has taken: for any number of   *)
(* callbacks, keys and events, while others subscribe, unsubscribe and     *)
(* close.  That is not inductive: what a callback has been given has to be *)
(* related to where the queue thread is in its round, and a callback must  *)
(* not be visited twice in a round nor get a second pool.                  *)
(***************************************************************************)
THEOREM EventsDeliveredInOrder == Spec => []DeliveredInOrder
<1>1. OrderInv /\ [Next]_vars => OrderInv'
  BY PoolInvNext, DispatchTypesNext, ThreadInvNext, OnePoolNext, GivenNext DEF OrderInv
<1>2. ASSUME OrderInv, NEW c \in Callbacks
      PROVE  \A i \in 1 .. Len(Given(c)) - 1 : Given(c)[i + 1] = Given(c)[i] + 1
  <2>1. Given(c) \in Seq(Nat) /\ Stretch(c)
    BY <1>2, GivenType DEF OrderInv
  <2> SUFFICES ASSUME NEW i \in 1 .. Len(Given(c)) - 1 PROVE Given(c)[i + 1] = Given(c)[i] + 1
    OBVIOUS
  <2>2. Len(Given(c)) \in Nat /\ 1 \in 1 .. Len(Given(c))
        /\ i \in 1 .. Len(Given(c)) /\ i + 1 \in 1 .. Len(Given(c))
    BY <2>1
  <2>3. Given(c)[i] = Given(c)[1] + i - 1 /\ Given(c)[i + 1] = Given(c)[1] + (i + 1) - 1
    BY <2>1, <2>2 DEF Stretch
  <2>4. Given(c)[1] \in Nat
    BY <2>1, <2>2
  <2> QED BY <2>3, <2>4
<1>3. ASSUME OrderInv, alive, event = 0, NEW c \in Callbacks, pool[c] = "open",
             NEW n \in since[c] + 1 .. published - Len(queue)
      PROVE  \E i \in 1 .. Len(Given(c)) : Given(c)[i] = n
  <2>1. Given(c) \in Seq(Nat) /\ Len(Given(c)) \in Nat /\ Stretch(c)
        /\ Done \in Nat /\ since[c] \in Nat
    BY <1>3, GivenType DEF OrderInv
  <2>2. Reach(c) = Done /\ Cover(c)
    BY <1>3 DEF OrderInv, ThreadInv, Reach, ToVisit
  <2>3. since[c] + 1 <= n /\ n <= Done /\ n \in Nat
    BY <1>3, <2>1 DEF Done
  <2>4. Len(Given(c)) # 0 /\ Given(c)[1] <= since[c] + 1
        /\ Given(c)[1] + Len(Given(c)) - 1 = Done
    BY <1>3, <2>1, <2>2, <2>3 DEF Cover
  <2>5. Given(c)[1] \in Nat
    BY <2>1, <2>4
  <2> DEFINE i == n - Given(c)[1] + 1
  <2>6. i \in 1 .. Len(Given(c)) /\ Given(c)[1] + i - 1 = n
    <3> DEFINE f == Given(c)[1]
               l == Len(Given(c))
    <3>1. f \in Nat /\ l \in Nat /\ f <= since[c] + 1 /\ f + l - 1 = Done
      BY <2>1, <2>4, <2>5
    <3> HIDE DEF f, l
    <3>2. n - f + 1 \in 1 .. l /\ f + (n - f + 1) - 1 = n
      BY <2>1, <2>3, <3>1
    <3> QED BY <3>2 DEF f, l
  <2> HIDE DEF i
  <2>7. Given(c)[i] = n
    BY <2>1, <2>6 DEF Stretch
  <2> QED BY <2>6, <2>7
<1>4. OrderInv => DeliveredInOrder
  BY <1>2, <1>3 DEF DeliveredInOrder, InOrder, NoneSkipped
<1> QED
  BY <1>1, <1>4, OrderInvInit, PTL DEF Spec

=============================================================================
