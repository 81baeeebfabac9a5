----------------------- MODULE AgentControllerProofs -----------------------
(***************************************************************************)
(* Proofs about AgentController: what the runtime executes is what the     *)
(* user allowed, and the iteration limit.                                  *)
(***************************************************************************)
EXTENDS AgentController, FiniteSetTheorems, TLAPS

(***************************************************************************)
(* The types.                                                              *)
(***************************************************************************)
Kinds == {"message", "change", "say", "finish", "reject", "condense", "state", "run", "recall",
          "observation", "error", "null"}
Verdicts == {"user_confirmed", "user_rejected"}
Args == States \cup {"none", "go", "wait", "not_executed", "malformed", "awaiting", "confirmed",
                     "rejected"}

EventSet  == [kind : Kinds, cause : Nat, call : Nat, arg : Args]
ActionSet == [id : Nat, kind : {"none", "run", "recall"}, call : Nat, arg : Args]
WorldSet  == [state : States, pending : ActionSet, max : Nat, hit : BOOLEAN,
              log : Seq(EventSet), seen : Nat, alarms : Nat]

(***************************************************************************)
(* The invariant, of a world w in which the controller is or is not inside *)
(* a step (th) and has made cl tool calls.  Nothing is said of verdicts    *)
(* and executions once a message has crossed an error status (crossed).    *)
(***************************************************************************)
\* The runtime executes it.
IsGo(e) == e.kind = "run" /\ e.arg \notin {"awaiting", "rejected"}

\* No verdict is on its way to the controller.
NoVerdict(lg, sn) == crossed \/ \A k \in sn + 1 .. Len(lg) : ~ IsVerdict(lg[k])

\* What can be in a stream: actions of calls that were made, answers to what was
\* there before, state changes that the user can ask for.
EventsOK(lg, cl) ==
    \A i \in 1 .. Len(lg) :
        /\ lg[i].kind = "run" => lg[i].call \in 1 .. cl
        /\ lg[i].kind \in Observations => lg[i].cause < i
        /\ lg[i].kind = "change" => lg[i].arg \in {"stopped", "paused"} \cup Verdicts

\* A call goes to execution once.
GoOnce(lg) ==
    crossed \/ \A x, y \in 1 .. Len(lg) : IsGo(lg[x]) /\ IsGo(lg[y]) /\ lg[x].call = lg[y].call => x = y

\* A call about which the user is asked goes to execution after a confirmation
\* that came after the question.
GoAfterConfirm(lg) ==
    \/ crossed
    \/ \A x, a \in 1 .. Len(lg) : IsGo(lg[x]) /\ IsAsk(lg[a]) /\ lg[a].call = lg[x].call =>
           \E i \in a + 1 .. x - 1 : IsConfirm(lg[i])

LogOK(lg, cl) == EventsOK(lg, cl) /\ GoOnce(lg) /\ GoAfterConfirm(lg)

\* A pending action that awaits confirmation has not gone to execution, and its
\* last event is the question.
PendingOK(p, lg, cl) ==
    /\ p.id <= Len(lg)
    /\ p.kind = "none" => p = NoAction
    /\ p.kind = "run" => p.call \in 1 .. cl
    /\ p.kind = "run" /\ p.arg = "awaiting" =>
         \A i \in 1 .. Len(lg) : lg[i].call = p.call => ~ IsGo(lg[i]) /\ (IsAsk(lg[i]) => i <= p.id)

\* From the user's verdict until the controller handles it, no step begins: what
\* the controller has pending is the action that the verdict is about, or it
\* waits for the answer to a recall that comes after the verdict.
VerdictOK(st, p, lg, sn, th) ==
    \/ crossed
    \/ \A k \in sn + 1 .. Len(lg) : IsVerdict(lg[k]) =>
           /\ ~ th
           /\ st \notin Verdicts
           /\ st = "running" => p.kind = "recall" /\ p.id > k
           /\ p.kind = "run" => p.arg = "awaiting" /\ p.id < k
           /\ \A j \in sn + 1 .. Len(lg) : IsVerdict(lg[j]) => j = k
           /\ \A j \in k + 1 .. Len(lg) : ~ IsAsk(lg[j])

WorldOK(w, th, cl) ==
    /\ w \in WorldSet
    /\ w.seen <= Len(w.log)
    /\ LogOK(w.log, cl)
    /\ PendingOK(w.pending, w.log, cl)
    /\ VerdictOK(w.state, w.pending, w.log, w.seen, th)

\* The last state that was announced is st.
Told(st, lg) ==
    \A i \in 1 .. Len(lg) :
        lg[i].kind = "state" /\ (\A j \in i + 1 .. Len(lg) : lg[j].kind # "state") => lg[i].arg = st

\* It is the controller's state, unless a new one is about to be announced.
Announced(st, lg) == status = "no" /\ ending # "asked" => Told(st, lg)

\* The controller waits for a verdict only with a question pending, or with nothing
\* after an error status has interrupted it, and not from inside a step (th).
AwaitOK(st, p, th) ==
    st = "awaiting_user_confirmation" =>
        /\ ~ th
        /\ status # "no" => interrupted
        /\ (p.kind = "run" /\ p.arg = "awaiting") \/ (interrupted /\ p = NoAction)

\* In a step, and before its question.
Busy == thinking \/ ending # "no"
Early == thinking \/ ending \in {"taken", "asking"}

\* While an error status is under way the agent is set running only by a message
\* without a verdict behind it.
StatusOK(st, lg, sn) == status # "no" /\ st = "running" => NoVerdict(lg, sn)

\* The call that the step has taken is pending or forgotten, and not on the stream.
EndingOK(p, lg) ==
    ending # "no" =>
        /\ ~ thinking
        /\ calls \in 1 .. calls
        /\ \A i \in 1 .. Len(lg) : lg[i].kind = "run" => lg[i].call # calls
        /\ status # "no" \/ p = NoAction => interrupted
        /\ p = NoAction \/ p = [id |-> 0, kind |-> "run", call |-> calls,
                                arg |-> IF ending = "taken" THEN "none" ELSE "awaiting"]

Shared ==
    /\ thinking \in BOOLEAN /\ calls \in Nat /\ iter \in Nat
    /\ ending \in {"no", "taken", "asking", "asked"} /\ status \in {"no", "entered", "answered"}
    /\ {interrupted, crossed} \subseteq BOOLEAN
    /\ \A x \in executed : x \in 1 .. Len(log) /\ IsGo(log[x])
    /\ running \in 0 .. Len(log)

ControlInv ==
    /\ Shared
    /\ WorldOK(World, Busy, calls)
    /\ Announced(agentState, log)
    /\ AwaitOK(agentState, pending, Early)
    /\ StatusOK(agentState, log, seen)
    /\ EndingOK(pending, log)

-----------------------------------------------------------------------------
(***************************************************************************)
(* The parts of the invariant when one event is added to the stream.       *)
(***************************************************************************)
\* The events of the longer stream.
LEMMA LogAppends ==
    ASSUME NEW lg \in Seq(EventSet), NEW e \in EventSet
    PROVE  /\ Append(lg, e) \in Seq(EventSet) /\ Len(lg) \in Nat
           /\ Len(Append(lg, e)) = Len(lg) + 1 /\ Append(lg, e)[Len(lg) + 1] = e
           /\ \A i \in 1 .. Len(lg) : Append(lg, e)[i] = lg[i]
           /\ \A i \in 1 .. Len(lg) + 1 : i \in 1 .. Len(lg) \/ i = Len(lg) + 1
           /\ \A i \in 1 .. Len(lg) : lg[i] \in EventSet
  OBVIOUS

\* An event that goes to execution is the first of its call, and confirmed if the
\* user was asked; one that asks is the first of its call.
LEMMA LogGrows ==
    ASSUME NEW lg \in Seq(EventSet), NEW e \in EventSet, NEW cl \in Nat, NEW cl2 \in Nat,
           LogOK(lg, cl), cl <= cl2,
           e.kind = "run" => e.call \in 1 .. cl2,
           e.kind \in Observations => e.cause <= Len(lg),
           e.kind = "change" => e.arg \in {"stopped", "paused"} \cup Verdicts,
           IsGo(e) => \/ crossed
                      \/ \A i \in 1 .. Len(lg) : lg[i].call = e.call =>
                             /\ ~ IsGo(lg[i])
                             /\ IsAsk(lg[i]) => \E j \in i + 1 .. Len(lg) : IsConfirm(lg[j]),
           IsAsk(e) => \A i \in 1 .. Len(lg) : lg[i].call = e.call => ~ IsGo(lg[i])
    PROVE  LogOK(Append(lg, e), cl2)
<1> DEFINE n == Len(lg)
           l2 == Append(lg, e)
<1>1. /\ l2 \in Seq(EventSet) /\ n \in Nat /\ Len(l2) = n + 1 /\ l2[n + 1] = e
      /\ \A i \in 1 .. n : l2[i] = lg[i]
      /\ \A i \in 1 .. n + 1 : i \in 1 .. n \/ i = n + 1
  BY LogAppends
<1>2. EventsOK(lg, cl) /\ GoOnce(lg) /\ GoAfterConfirm(lg)
  BY DEF LogOK
<1> HIDE DEF l2
<1>3. EventsOK(l2, cl2)
  <2> SUFFICES ASSUME NEW i \in 1 .. n + 1
               PROVE  /\ l2[i].kind = "run" => l2[i].call \in 1 .. cl2
                      /\ l2[i].kind \in Observations => l2[i].cause < i
                      /\ l2[i].kind = "change" => l2[i].arg \in {"stopped", "paused"} \cup Verdicts
    BY <1>1 DEF EventsOK
  <2>1. CASE i = n + 1
    <3>1. e.cause \in Nat
      BY DEF EventSet
    <3> QED BY <1>1, <2>1, <3>1
  <2>2. CASE i \in 1 .. n
    BY <1>1, <1>2, <2>2 DEF EventsOK
  <2> QED BY <1>1, <2>1, <2>2
<1>4. GoOnce(l2)
  <2> SUFFICES ASSUME ~ crossed, NEW x \in 1 .. n + 1, NEW y \in 1 .. n + 1,
                      IsGo(l2[x]), IsGo(l2[y]), l2[x].call = l2[y].call
               PROVE  x = y
    BY <1>1 DEF GoOnce
  <2>1. CASE x \in 1 .. n /\ y \in 1 .. n
    BY <1>1, <1>2, <2>1 DEF GoOnce
  <2>2. CASE x = n + 1 /\ y \in 1 .. n
    BY <1>1, <2>2
  <2>3. CASE x \in 1 .. n /\ y = n + 1
    BY <1>1, <2>3
  <2> QED BY <1>1, <2>1, <2>2, <2>3
<1>5. GoAfterConfirm(l2)
  <2> SUFFICES ASSUME ~ crossed, NEW x \in 1 .. n + 1, NEW a \in 1 .. n + 1,
                      IsGo(l2[x]), IsAsk(l2[a]), l2[a].call = l2[x].call
               PROVE  \E i \in a + 1 .. x - 1 : IsConfirm(l2[i])
    BY <1>1 DEF GoAfterConfirm
  <2>1. CASE x \in 1 .. n /\ a \in 1 .. n
    <3>1. PICK i \in a + 1 .. x - 1 : IsConfirm(lg[i])
      BY <1>1, <1>2, <2>1 DEF GoAfterConfirm
    <3>2. i \in 1 .. n
      BY <1>1, <2>1
    <3> QED BY <1>1, <3>1, <3>2
  <2>2. CASE x = n + 1 /\ a \in 1 .. n
    <3>1. PICK j \in a + 1 .. n : IsConfirm(lg[j])
      BY <1>1, <2>2
    <3>2. j \in 1 .. n /\ j \in a + 1 .. x - 1
      BY <1>1, <2>2
    <3> QED BY <1>1, <3>1, <3>2
  <2>3. CASE x \in 1 .. n /\ a = n + 1
    BY <1>1, <2>3
  <2>4. CASE x = n + 1 /\ a = n + 1
    BY <1>1, <2>4 DEF IsGo, IsAsk
  <2> QED BY <1>1, <2>1, <2>2, <2>3, <2>4
<1> QED BY <1>3, <1>4, <1>5 DEF LogOK, l2

\* A pending question stays one when its call is not in the new event.
LEMMA PendingGrows ==
    ASSUME NEW lg \in Seq(EventSet), NEW e \in EventSet, NEW p \in ActionSet, NEW cl \in Nat,
           PendingOK(p, lg, cl),
           p.kind = "run" /\ p.arg = "awaiting" /\ e.call = p.call => ~ IsGo(e) /\ ~ IsAsk(e)
    PROVE  PendingOK(p, Append(lg, e), cl)
<1>1. p.id \in Nat
  BY DEF ActionSet
<1> QED BY <1>1, LogAppends DEF PendingOK

\* An event that is no verdict and asks for none leaves a verdict on its way as it is.
LEMMA VerdictGrows ==
    ASSUME NEW lg \in Seq(EventSet), NEW e \in EventSet, NEW st, NEW p, NEW sn \in Nat, NEW th,
           VerdictOK(st, p, lg, sn, th), ~ IsVerdict(e), NoVerdict(lg, sn) \/ ~ IsAsk(e)
    PROVE  VerdictOK(st, p, Append(lg, e), sn, th)
<1> DEFINE n == Len(lg)
           l2 == Append(lg, e)
<1>1. /\ n \in Nat /\ Len(l2) = n + 1 /\ l2[n + 1] = e
      /\ \A i \in 1 .. n : l2[i] = lg[i]
  BY LogAppends
<1> HIDE DEF l2, n
<1> SUFFICES ASSUME ~ crossed, NEW k \in sn + 1 .. n + 1, IsVerdict(l2[k])
             PROVE  /\ ~ th
                    /\ st \notin Verdicts
                    /\ st = "running" => p.kind = "recall" /\ p.id > k
                    /\ p.kind = "run" => p.arg = "awaiting" /\ p.id < k
                    /\ \A j \in sn + 1 .. n + 1 : IsVerdict(l2[j]) => j = k
                    /\ \A j \in k + 1 .. n + 1 : ~ IsAsk(l2[j])
  BY <1>1 DEF VerdictOK, l2
<1>2. k # n + 1 /\ k \in 1 .. n /\ k \in sn + 1 .. n
  BY <1>1
<1>3. IsVerdict(lg[k]) /\ ~ IsAsk(e)
  BY <1>1, <1>2 DEF NoVerdict, n
<1>4. /\ ~ th
      /\ st \notin Verdicts
      /\ st = "running" => p.kind = "recall" /\ p.id > k
      /\ p.kind = "run" => p.arg = "awaiting" /\ p.id < k
      /\ \A j \in sn + 1 .. n : IsVerdict(lg[j]) => j = k
      /\ \A j \in k + 1 .. n : ~ IsAsk(lg[j])
  BY <1>2, <1>3 DEF VerdictOK, n
<1>5. ASSUME NEW j \in sn + 1 .. n + 1, IsVerdict(l2[j]) PROVE j = k
  BY <1>1, <1>4, <1>5
<1>6. ASSUME NEW j \in k + 1 .. n + 1 PROVE ~ IsAsk(l2[j])
  <2>1. CASE j = n + 1
    BY <1>1, <1>3, <2>1
  <2>2. CASE j # n + 1
    <3>1. j \in k + 1 .. n /\ j \in 1 .. n
      BY <1>1, <1>2, <2>2
    <3> QED BY <1>1, <1>4, <3>1
  <2> QED BY <2>1, <2>2
<1> QED BY <1>4, <1>5, <1>6

\* What was announced last stays so, unless another state is announced.
LEMMA ToldGrows ==
    ASSUME NEW lg \in Seq(EventSet), NEW e \in EventSet, NEW st, NEW new,
           \/ Told(st, lg) /\ new = st /\ e.kind # "state"
           \/ e.kind = "state" /\ e.arg = new
    PROVE  Told(new, Append(lg, e))
<1> DEFINE n == Len(lg)
           l2 == Append(lg, e)
<1>1. /\ n \in Nat /\ Len(l2) = n + 1 /\ l2[n + 1] = e
      /\ \A i \in 1 .. n : l2[i] = lg[i]
  BY LogAppends
<1> HIDE DEF l2, n
<1> SUFFICES ASSUME NEW i \in 1 .. n + 1, l2[i].kind = "state",
                    \A j \in i + 1 .. n + 1 : l2[j].kind # "state"
             PROVE  l2[i].arg = new
  BY <1>1 DEF Told, l2
<1>2. CASE i = n + 1
  BY <1>1, <1>2
<1>3. CASE i # n + 1
  <2>1. i \in 1 .. n /\ n + 1 \in i + 1 .. n + 1
    BY <1>1, <1>3
  <2>2. e.kind # "state"
    BY <1>1, <2>1
  <2>3. \A j \in i + 1 .. n : lg[j].kind # "state"
    BY <1>1, <2>1
  <2> QED BY <1>1, <2>1, <2>2, <2>3 DEF Told, n
<1> QED BY <1>2, <1>3

\* The same of the controller's state.
LEMMA AnnouncedGrows ==
    ASSUME NEW lg \in Seq(EventSet), NEW e \in EventSet, NEW st, NEW new,
           \/ Announced(st, lg) /\ new = st /\ e.kind # "state"
           \/ e.kind = "state" /\ e.arg = new
    PROVE  Announced(new, Append(lg, e))
  BY ToldGrows DEF Announced

\* The stream only grows, and by nothing that the user sends.
Grows(lg, lg2) ==
    /\ Len(lg) <= Len(lg2)
    /\ \A i \in 1 .. Len(lg) : lg2[i] = lg[i]
    /\ \A i \in Len(lg) + 1 .. Len(lg2) : lg2[i].kind \notin {"message", "change"}

\* It may stay as it is.
LEMMA GrowsSame == ASSUME NEW lg \in Seq(EventSet) PROVE Grows(lg, lg)
<1>1. Len(lg) \in Nat
  OBVIOUS
<1> QED BY <1>1 DEF Grows

\* It may get one more event.
LEMMA GrowsAppend ==
    ASSUME NEW lg \in Seq(EventSet), NEW e \in EventSet,
           e.kind \notin {"message", "change"}
    PROVE  Grows(lg, Append(lg, e))
  BY LogAppends DEF Grows

\* It grows step by step.
LEMMA GrowsOn ==
    ASSUME NEW lg \in Seq(EventSet), NEW lg2 \in Seq(EventSet), NEW lg3 \in Seq(EventSet),
           Grows(lg, lg2), Grows(lg2, lg3)
    PROVE  Grows(lg, lg3)
<1>1. Len(lg) \in Nat /\ Len(lg2) \in Nat /\ Len(lg3) \in Nat
  OBVIOUS
<1>2. Len(lg) <= Len(lg3) /\ \A i \in 1 .. Len(lg) : lg3[i] = lg[i]
  BY <1>1 DEF Grows
<1>3. ASSUME NEW i \in Len(lg) + 1 .. Len(lg3) PROVE lg3[i].kind \notin {"message", "change"}
  <2>1. CASE i \in Len(lg2) + 1 .. Len(lg3)
    BY <2>1 DEF Grows
  <2>2. CASE i \notin Len(lg2) + 1 .. Len(lg3)
    <3>1. i \in Len(lg) + 1 .. Len(lg2) /\ i \in 1 .. Len(lg2)
      BY <1>1, <2>2
    <3> QED BY <3>1 DEF Grows
  <2> QED BY <2>1, <2>2
<1> QED BY <1>2, <1>3 DEF Grows

-----------------------------------------------------------------------------
(***************************************************************************)
(* The operators that the handlers are made of.                            *)
(***************************************************************************)
\* An event of the right types.
LEMMA EventType ==
    ASSUME NEW k \in Kinds, NEW cause \in Nat, NEW c \in Nat, NEW a \in Args
    PROVE  /\ Event(k, cause, c, a) \in EventSet
           /\ Event(k, cause, c, a).kind = k /\ Event(k, cause, c, a).cause = cause
           /\ Event(k, cause, c, a).call = c /\ Event(k, cause, c, a).arg = a
  BY DEF Event, EventSet

\* The fields of a world.
LEMMA WorldFields ==
    ASSUME NEW w \in WorldSet
    PROVE  /\ w.state \in States /\ w.pending \in ActionSet /\ w.max \in Nat /\ w.hit \in BOOLEAN
           /\ w.log \in Seq(EventSet) /\ Len(w.log) \in Nat /\ w.seen \in Nat /\ w.alarms \in Nat
<1>1. /\ w.state \in States /\ w.pending \in ActionSet /\ w.max \in Nat /\ w.hit \in BOOLEAN
      /\ w.log \in Seq(EventSet) /\ w.seen \in Nat /\ w.alarms \in Nat
  BY DEF WorldSet
<1> QED BY <1>1

\* The fields of an action.
LEMMA ActionFields ==
    ASSUME NEW p \in ActionSet
    PROVE  p.id \in Nat /\ p.kind \in {"none", "run", "recall"} /\ p.call \in Nat /\ p.arg \in Args
  BY DEF ActionSet

\* There is no pending action.
LEMMA NoActionType == NoAction \in ActionSet /\ NoAction.kind = "none" /\ NoAction.id = 0
  BY DEF NoAction, ActionSet, Args, States

\* Emit changes the stream only.
LEMMA EmitFields ==
    ASSUME NEW w \in WorldSet, NEW e \in EventSet
    PROVE  /\ Emit(w, e) \in WorldSet /\ Emit(w, e).log = Append(w.log, e)
           /\ Emit(w, e).state = w.state /\ Emit(w, e).pending = w.pending
           /\ Emit(w, e).max = w.max /\ Emit(w, e).hit = w.hit
           /\ Emit(w, e).seen = w.seen /\ Emit(w, e).alarms = w.alarms
<1>1. Append(w.log, e) \in Seq(EventSet)
  BY WorldFields
<1> QED BY <1>1 DEF Emit, WorldSet

\* An event that does not concern the runtime and is no verdict keeps the invariant.
LEMMA EmitKeeps ==
    ASSUME NEW w, NEW th, NEW cl \in Nat, WorldOK(w, th, cl), NEW e \in EventSet,
           e.kind # "run", ~ IsVerdict(e),
           e.kind \in Observations => e.cause <= Len(w.log),
           e.kind = "change" => e.arg \in {"stopped", "paused"}
    PROVE  WorldOK(Emit(w, e), th, cl)
<1>1. w \in WorldSet /\ w.seen <= Len(w.log) /\ LogOK(w.log, cl)
      /\ PendingOK(w.pending, w.log, cl)
      /\ VerdictOK(w.state, w.pending, w.log, w.seen, th)
  BY DEF WorldOK
<1>2. w.pending \in ActionSet /\ w.log \in Seq(EventSet) /\ w.seen \in Nat /\ Len(w.log) \in Nat
  BY <1>1, WorldFields
<1>3. ~ IsGo(e) /\ ~ IsAsk(e)
  BY DEF IsGo, IsAsk
<1>4. LogOK(Append(w.log, e), cl)
  BY <1>1, <1>2, <1>3, LogGrows
<1>5. PendingOK(w.pending, Append(w.log, e), cl)
  BY <1>1, <1>2, <1>3, PendingGrows
<1>6. VerdictOK(w.state, w.pending, Append(w.log, e), w.seen, th)
  BY <1>1, <1>2, <1>3, VerdictGrows
<1>7. w.seen <= Len(Append(w.log, e))
  BY <1>1, <1>2, LogAppends
<1> QED BY <1>1, <1>4, <1>5, <1>6, <1>7, EmitFields DEF WorldOK

\* Another state.  A verdict on its way forbids the states of a verdict, and RUNNING
\* unless the controller waits for the answer to a later recall.
LEMMA StateKeeps ==
    ASSUME NEW w, NEW th, NEW cl \in Nat, WorldOK(w, th, cl), NEW new \in States,
           \/ NoVerdict(w.log, w.seen)
           \/ new \notin Verdicts \cup {"running"}
           \/ new = "running" /\ w.pending.kind = "recall"
              /\ \A k \in w.seen + 1 .. Len(w.log) : IsVerdict(w.log[k]) => w.pending.id > k
    PROVE  /\ WorldOK([w EXCEPT !.state = new], th, cl)
           /\ [w EXCEPT !.state = new].state = new
           /\ [w EXCEPT !.state = new].pending = w.pending
           /\ [w EXCEPT !.state = new].log = w.log /\ [w EXCEPT !.state = new].seen = w.seen
           /\ [w EXCEPT !.state = new].max = w.max /\ [w EXCEPT !.state = new].hit = w.hit
<1> DEFINE v == [w EXCEPT !.state = new]
<1>1. w \in WorldSet /\ w.seen <= Len(w.log) /\ LogOK(w.log, cl)
      /\ PendingOK(w.pending, w.log, cl)
      /\ VerdictOK(w.state, w.pending, w.log, w.seen, th)
  BY DEF WorldOK
<1>2. /\ v \in WorldSet /\ v.state = new /\ v.pending = w.pending /\ v.log = w.log
      /\ v.seen = w.seen /\ v.max = w.max /\ v.hit = w.hit
  BY <1>1 DEF WorldSet
<1> HIDE DEF v
<1>3. VerdictOK(new, w.pending, w.log, w.seen, th)
  BY <1>1 DEF VerdictOK, NoVerdict, Verdicts
<1>4. WorldOK(v, th, cl)
  BY <1>1, <1>2, <1>3 DEF WorldOK
<1> QED BY <1>2, <1>4 DEF v

\* The invariant says nothing about the limit and the statuses.
LEMMA SameWorld ==
    ASSUME NEW w, NEW th, NEW cl, WorldOK(w, th, cl), NEW v \in WorldSet, v.state = w.state,
           v.pending = w.pending, v.log = w.log, v.seen = w.seen
    PROVE  WorldOK(v, th, cl)
  BY DEF WorldOK

\* The pending action is forgotten; if the agent runs, there is no verdict on its way.
LEMMA ClearKeeps ==
    ASSUME NEW w, NEW th, NEW cl \in Nat, WorldOK(w, th, cl),
           w.state = "running" => NoVerdict(w.log, w.seen)
    PROVE  LET v == [w EXCEPT !.pending = NoAction]
           IN  /\ WorldOK(v, th, cl) /\ v.state = w.state /\ v.pending = NoAction
               /\ v.log = w.log /\ v.seen = w.seen /\ v.max = w.max /\ v.hit = w.hit
<1> DEFINE v == [w EXCEPT !.pending = NoAction]
<1>1. w \in WorldSet /\ w.seen <= Len(w.log) /\ LogOK(w.log, cl)
      /\ VerdictOK(w.state, w.pending, w.log, w.seen, th) /\ Len(w.log) \in Nat
  BY WorldFields DEF WorldOK
<1>2. /\ v \in WorldSet /\ v.state = w.state /\ v.pending = NoAction /\ v.log = w.log
      /\ v.seen = w.seen /\ v.max = w.max /\ v.hit = w.hit
  BY <1>1, NoActionType DEF WorldSet
<1> HIDE DEF v
<1>3. VerdictOK(w.state, NoAction, w.log, w.seen, th)
  BY <1>1, NoActionType DEF VerdictOK, NoVerdict
<1>4. PendingOK(NoAction, w.log, cl)
  BY <1>1, NoActionType DEF PendingOK
<1>5. WorldOK(v, th, cl)
  BY <1>1, <1>2, <1>3, <1>4 DEF WorldOK
<1> QED BY <1>2, <1>5 DEF v

\* _reset's ErrorObservation.
LEMMA AnswerKeeps ==
    ASSUME NEW w, NEW th, NEW cl \in Nat, WorldOK(w, th, cl)
    PROVE  LET v == AnswerPending(w)
           IN  /\ WorldOK(v, th, cl) /\ v.state = w.state /\ v.pending = w.pending
               /\ Grows(w.log, v.log) /\ v.seen = w.seen /\ v.max = w.max /\ v.hit = w.hit
               /\ \/ v.log = w.log
                  \/ \E e \in EventSet : e.kind = "error" /\ v.log = Append(w.log, e)
<1> DEFINE e == Event("error", w.pending.id, w.pending.call, "not_executed")
<1>1. w \in WorldSet /\ PendingOK(w.pending, w.log, cl)
  BY DEF WorldOK
<1>2. w.pending \in ActionSet /\ w.log \in Seq(EventSet)
  BY <1>1, WorldFields
<1>3. w.pending.id \in Nat /\ w.pending.call \in Nat /\ w.pending.id <= Len(w.log)
  BY <1>1, <1>2, ActionFields DEF PendingOK
<1>4. "error" \in Kinds /\ "not_executed" \in Args
  BY DEF Kinds, Args
<1>5. e \in EventSet /\ e.kind = "error" /\ e.cause = w.pending.id
  BY <1>3, <1>4, EventType
<1> HIDE DEF e
<1>6. WorldOK(Emit(w, e), th, cl) /\ Emit(w, e).state = w.state /\ Emit(w, e).seen = w.seen
      /\ Emit(w, e).max = w.max /\ Emit(w, e).hit = w.hit /\ Emit(w, e).log = Append(w.log, e)
      /\ Emit(w, e).pending = w.pending
  BY <1>1, <1>3, <1>5, EmitKeeps, EmitFields DEF IsVerdict
<1>7. Grows(w.log, Append(w.log, e)) /\ Grows(w.log, w.log)
  BY <1>2, <1>5, GrowsAppend, GrowsSame
<1>8. AnswerPending(w) = w \/ AnswerPending(w) = Emit(w, e)
  BY DEF AnswerPending, e
<1> QED BY <1>5, <1>6, <1>7, <1>8

\* _reset leaves nothing pending.
LEMMA ResetKeeps ==
    ASSUME NEW w, NEW th, NEW cl \in Nat, WorldOK(w, th, cl), w.state # "running"
    PROVE  /\ WorldOK(Reset(w), th, cl) /\ Reset(w).state = w.state
           /\ Reset(w).pending = NoAction /\ Grows(w.log, Reset(w).log)
           /\ Reset(w).seen = w.seen /\ Reset(w).max = w.max /\ Reset(w).hit = w.hit
<1> DEFINE u == AnswerPending(w)
           v == [u EXCEPT !.pending = NoAction]
<1>1. /\ WorldOK(u, th, cl) /\ u.state = w.state /\ Grows(w.log, u.log)
      /\ u.seen = w.seen /\ u.max = w.max /\ u.hit = w.hit
  BY AnswerKeeps
<1>2. Reset(w) = v
  BY DEF Reset, Forget
<1> HIDE DEF u
<1>3. /\ WorldOK(v, th, cl) /\ v.state = u.state /\ v.pending = NoAction
      /\ v.log = u.log /\ v.seen = u.seen /\ v.max = u.max /\ v.hit = u.hit
  BY <1>1, ClearKeeps
<1> QED BY <1>1, <1>2, <1>3

\* The limit grows by one step at most, and nothing else changes.
LEMMA IncreaseKeeps ==
    ASSUME NEW w, NEW th, NEW cl \in Nat, WorldOK(w, th, cl)
    PROVE  LET v == IncreaseLimit(w)
           IN  /\ WorldOK(v, th, cl) /\ v.state = w.state /\ v.pending = w.pending
               /\ v.log = w.log /\ v.seen = w.seen /\ v.max \in {w.max, w.max + Iterations}
<1>1. w \in WorldSet
  BY DEF WorldOK
<1>2. w.max \in Nat /\ w.max + Iterations \in Nat
  BY <1>1, WorldFields, InputsAssumption
<1>3. CASE w.hit /\ ~ HeadlessMode
  <2>1. IncreaseLimit(w) = [w EXCEPT !.max = w.max + Iterations, !.hit = FALSE]
    BY <1>3 DEF IncreaseLimit
  <2> DEFINE v == [w EXCEPT !.max = w.max + Iterations, !.hit = FALSE]
  <2>2. /\ v \in WorldSet /\ v.state = w.state /\ v.pending = w.pending
        /\ v.log = w.log /\ v.seen = w.seen /\ v.max = w.max + Iterations
    BY <1>1, <1>2 DEF WorldSet
  <2> HIDE DEF v
  <2>3. WorldOK(v, th, cl)
    BY <2>2, SameWorld
  <2> QED BY <2>1, <2>2, <2>3 DEF v
<1>4. CASE ~ (w.hit /\ ~ HeadlessMode)
  BY <1>4 DEF IncreaseLimit
<1> QED BY <1>3, <1>4

\* A stream without a verdict on its way says nothing about the controller.
LEMMA NoVerdictGrows ==
    ASSUME NEW lg \in Seq(EventSet), NEW e \in EventSet, NEW sn \in Nat,
           NoVerdict(lg, sn), ~ IsVerdict(e)
    PROVE  NoVerdict(Append(lg, e), sn)
<1> SUFFICES ASSUME ~ crossed, NEW k \in sn + 1 .. Len(lg) + 1 PROVE ~ IsVerdict(Append(lg, e)[k])
  BY LogAppends DEF NoVerdict
<1>1. k \in 1 .. Len(lg) + 1 /\ (k # Len(lg) + 1 => k \in sn + 1 .. Len(lg))
  BY LogAppends
<1> QED BY <1>1, LogAppends DEF NoVerdict

\* Nor do more events say anything that are not the user's.
LEMMA NoVerdictOn ==
    ASSUME NEW lg \in Seq(EventSet), NEW lg2 \in Seq(EventSet), NEW sn \in Nat,
           NoVerdict(lg, sn), Grows(lg, lg2)
    PROVE  NoVerdict(lg2, sn)
<1> SUFFICES ASSUME ~ crossed, NEW k \in sn + 1 .. Len(lg2) PROVE ~ IsVerdict(lg2[k])
  BY DEF NoVerdict
<1>1. Len(lg) \in Nat /\ Len(lg2) \in Nat /\ k \in 1 .. Len(lg2)
  OBVIOUS
<1>2. CASE k \in 1 .. Len(lg)
  BY <1>1, <1>2 DEF NoVerdict, Grows
<1>3. CASE k \notin 1 .. Len(lg)
  BY <1>1, <1>3 DEF Grows, IsVerdict
<1> QED BY <1>2, <1>3

\* Nor does it ask anything of the controller.
LEMMA NoVerdictOK ==
    ASSUME NEW st, NEW p, NEW lg, NEW sn, NEW th, NoVerdict(lg, sn)
    PROVE  VerdictOK(st, p, lg, sn, th)
  BY DEF NoVerdict, VerdictOK

\* The pending action goes on the stream and gets the id of its event.
LEMMA EmitPendingFields ==
    ASSUME NEW w \in WorldSet, w.pending.kind \in {"run", "recall"}
    PROVE  LET e == Event(w.pending.kind, 0, w.pending.call, w.pending.arg)
               v == EmitPending(w)
           IN  /\ e \in EventSet /\ e.kind = w.pending.kind
               /\ e.call = w.pending.call /\ e.arg = w.pending.arg
               /\ v \in WorldSet /\ v.log = Append(w.log, e)
               /\ v.pending.id = Len(w.log) + 1 /\ v.pending.kind = w.pending.kind
               /\ v.pending.call = w.pending.call /\ v.pending.arg = w.pending.arg
               /\ v.state = w.state /\ v.seen = w.seen /\ v.max = w.max /\ v.hit = w.hit
<1> DEFINE e == Event(w.pending.kind, 0, w.pending.call, w.pending.arg)
           u == Emit(w, e)
           p == [w.pending EXCEPT !.id = Len(w.log) + 1]
           v == EmitPending(w)
<1>1. w.pending \in ActionSet /\ Len(w.log) \in Nat
  BY WorldFields
<1>2. w.pending.kind \in Kinds /\ w.pending.call \in Nat /\ w.pending.arg \in Args
  BY <1>1, ActionFields DEF Kinds
<1>3. e \in EventSet /\ e.kind = w.pending.kind /\ e.call = w.pending.call /\ e.arg = w.pending.arg
  BY <1>2, EventType
<1>4. /\ p \in ActionSet /\ p.id = Len(w.log) + 1 /\ p.kind = w.pending.kind
      /\ p.call = w.pending.call /\ p.arg = w.pending.arg
  BY <1>1 DEF ActionSet
<1>5. v = [u EXCEPT !.pending = p]
  BY DEF EmitPending
<1> HIDE DEF e, p, v
<1>6. /\ u \in WorldSet /\ u.log = Append(w.log, e) /\ u.state = w.state /\ u.seen = w.seen
      /\ u.max = w.max /\ u.hit = w.hit
  BY <1>3, EmitFields
<1> HIDE DEF u
<1>7. /\ v \in WorldSet /\ v.log = u.log /\ v.pending = p /\ v.state = u.state
      /\ v.seen = u.seen /\ v.max = u.max /\ v.hit = u.hit
  BY <1>4, <1>5, <1>6 DEF WorldSet
<1>8. /\ e \in EventSet /\ e.kind = w.pending.kind
      /\ e.call = w.pending.call /\ e.arg = w.pending.arg
      /\ v \in WorldSet /\ v.log = Append(w.log, e)
      /\ v.pending.id = Len(w.log) + 1 /\ v.pending.kind = w.pending.kind
      /\ v.pending.call = w.pending.call /\ v.pending.arg = w.pending.arg
      /\ v.state = w.state /\ v.seen = w.seen /\ v.max = w.max /\ v.hit = w.hit
  BY <1>3, <1>4, <1>6, <1>7
<1> QED BY <1>8 DEF e, v

\* It keeps the invariant if the event is one that the stream may get: a recall, or an
\* action with no verdict on its way.
LEMMA EmitPendingKeeps ==
    ASSUME NEW w \in WorldSet, NEW th, NEW cl \in Nat, w.seen <= Len(w.log), LogOK(w.log, cl),
           w.pending.kind \in {"run", "recall"},
           \/ /\ w.pending.kind = "recall"
              /\ \/ NoVerdict(w.log, w.seen)
                 \/ \E p : p.kind \in {"none", "run", "recall"}
                           /\ VerdictOK(w.state, p, w.log, w.seen, th)
           \/ /\ w.pending.kind = "run" /\ w.pending.call \in 1 .. cl
              /\ NoVerdict(w.log, w.seen)
              /\ w.pending.arg = "awaiting" =>
                   \A i \in 1 .. Len(w.log) : w.log[i].call = w.pending.call => ~ IsGo(w.log[i])
              /\ w.pending.arg \notin {"awaiting", "rejected"} =>
                   \/ crossed
                   \/ \A i \in 1 .. Len(w.log) : w.log[i].call = w.pending.call =>
                          /\ ~ IsGo(w.log[i])
                          /\ IsAsk(w.log[i]) => \E j \in i + 1 .. Len(w.log) : IsConfirm(w.log[j])
    PROVE  WorldOK(EmitPending(w), th, cl)
<1> DEFINE e == Event(w.pending.kind, 0, w.pending.call, w.pending.arg)
           v == EmitPending(w)
           n == Len(w.log)
<1>1. /\ e \in EventSet /\ e.kind = w.pending.kind
      /\ e.call = w.pending.call /\ e.arg = w.pending.arg
      /\ v \in WorldSet /\ v.log = Append(w.log, e)
      /\ v.pending.id = n + 1 /\ v.pending.kind = w.pending.kind
      /\ v.pending.call = w.pending.call /\ v.pending.arg = w.pending.arg
      /\ v.state = w.state /\ v.seen = w.seen
  BY EmitPendingFields
<1>2. w.log \in Seq(EventSet) /\ n \in Nat /\ w.seen \in Nat /\ v.pending \in ActionSet
  BY <1>1, WorldFields
<1> HIDE DEF e, v
<1>3. ~ IsVerdict(e)
  BY <1>1 DEF IsVerdict
<1>4. Len(v.log) = n + 1
  BY <1>1, <1>2, LogAppends
<1>5. LogOK(v.log, cl)
  <2>1. IsGo(e) => w.pending.kind = "run" /\ w.pending.arg \notin {"awaiting", "rejected"}
    BY <1>1 DEF IsGo
  <2>2. IsAsk(e) => w.pending.kind = "run" /\ w.pending.arg = "awaiting"
    BY <1>1 DEF IsAsk
  <2>3. e.kind = "run" => e.call \in 1 .. cl
    BY <1>1
  <2>4. e.kind \notin Observations /\ e.kind # "change"
    BY <1>1 DEF Observations
  <2>5. IsGo(e) => \/ crossed
                   \/ \A i \in 1 .. Len(w.log) : w.log[i].call = e.call =>
                          /\ ~ IsGo(w.log[i])
                          /\ IsAsk(w.log[i]) => \E j \in i + 1 .. Len(w.log) : IsConfirm(w.log[j])
    BY <1>1, <2>1
  <2>6. IsAsk(e) => \A i \in 1 .. Len(w.log) : w.log[i].call = e.call => ~ IsGo(w.log[i])
    BY <1>1, <2>2
  <2> QED BY <1>1, <1>2, <2>3, <2>4, <2>5, <2>6, LogGrows, SMTT(30)
<1>6. PendingOK(v.pending, v.log, cl)
  <2>1. v.pending.kind = "run" => v.pending.call \in 1 .. cl
    BY <1>1
  <2>2. ASSUME v.pending.kind = "run", v.pending.arg = "awaiting", NEW i \in 1 .. n + 1,
               v.log[i].call = v.pending.call
        PROVE  ~ IsGo(v.log[i]) /\ i <= v.pending.id
    <3>1. CASE i = n + 1
      <4>1. v.log[i] = e
        BY <1>1, <1>2, <3>1, LogAppends
      <4> QED BY <1>1, <1>2, <2>2, <3>1, <4>1 DEF IsGo
    <3>2. CASE i # n + 1
      <4>1. i \in 1 .. n /\ i <= n + 1
        BY <1>2, <3>2
      <4>2. v.log[i] = w.log[i]
        BY <1>1, <1>2, <4>1, LogAppends
      <4> QED BY <1>1, <2>2, <4>1, <4>2
    <3> QED BY <3>1, <3>2
  <2> QED BY <1>1, <1>2, <1>4, <2>1, <2>2 DEF PendingOK
<1>7. VerdictOK(v.state, v.pending, v.log, v.seen, th)
  <2>1. CASE NoVerdict(w.log, w.seen)
    BY <1>1, <1>2, <1>3, <2>1, NoVerdictGrows, NoVerdictOK
  <2>2. CASE ~ NoVerdict(w.log, w.seen)
    <3>1. PICK p : VerdictOK(w.state, p, w.log, w.seen, th)
      BY <2>2
    <3>2. v.pending.kind = "recall"
      BY <1>1, <2>2
    <3>3. VerdictOK(w.state, v.pending, w.log, w.seen, th)
      BY <1>1, <1>2, <3>1, <3>2 DEF VerdictOK
    <3>4. ~ IsAsk(e)
      BY <1>1, <3>2 DEF IsAsk
    <3>5. VerdictOK(w.state, v.pending, Append(w.log, e), w.seen, th)
      BY <1>1, <1>2, <1>3, <3>3, <3>4, VerdictGrows
    <3> QED BY <1>1, <3>5
  <2> QED BY <2>1, <2>2
<1>8. WorldOK(v, th, cl)
  BY <1>1, <1>2, <1>4, <1>5, <1>6, <1>7 DEF WorldOK
<1> QED BY <1>8 DEF v

\* The user's verdict on the pending action: a confirmation that came after the question.
LEMMA DecideKeeps ==
    ASSUME NEW w, NEW th, NEW cl \in Nat, WorldOK(w, th, cl), NoVerdict(w.log, w.seen),
           NEW verdict \in {"confirmed", "rejected"},
           crossed \/ (w.pending.kind = "run" =>
               /\ w.pending.arg = "awaiting"
               /\ verdict = "confirmed" =>
                    \E i \in w.pending.id + 1 .. Len(w.log) : IsConfirm(w.log[i]))
    PROVE  LET v == Decide(w, verdict)
           IN  /\ WorldOK(v, th, cl) /\ v.state = w.state /\ Grows(w.log, v.log)
               /\ v.seen = w.seen /\ v.max = w.max /\ v.hit = w.hit
<1> DEFINE v == Decide(w, verdict)
           p == [w.pending EXCEPT !.arg = verdict]
           u == [w EXCEPT !.pending = p]
<1>1. w \in WorldSet /\ w.seen <= Len(w.log) /\ LogOK(w.log, cl) /\ PendingOK(w.pending, w.log, cl)
  BY DEF WorldOK
<1>2. w.pending \in ActionSet /\ w.pending.kind \in {"none", "run", "recall"}
      /\ w.pending.id \in Nat /\ Len(w.log) \in Nat /\ w.log \in Seq(EventSet)
  BY <1>1, WorldFields, ActionFields
<1>3. CASE w.pending = NoAction
  BY <1>2, <1>3, GrowsSame DEF Decide
<1>4. CASE w.pending # NoAction
  <2>1. w.pending.kind \in {"run", "recall"}
    BY <1>1, <1>2, <1>4 DEF PendingOK
  <2>2. v = EmitPending(u)
    BY <1>4 DEF Decide
  <2>3. verdict \in Args
    BY DEF Args
  <2>4. /\ p \in ActionSet /\ p.id = w.pending.id /\ p.kind = w.pending.kind
        /\ p.call = w.pending.call /\ p.arg = verdict
    BY <1>2, <2>3 DEF ActionSet
  <2> HIDE DEF p, v
  <2>5. /\ u \in WorldSet /\ u.pending = p /\ u.log = w.log /\ u.seen = w.seen
        /\ u.state = w.state /\ u.max = w.max /\ u.hit = w.hit
    BY <1>1, <2>4 DEF WorldSet
  <2> HIDE DEF u
  <2>6. w.pending.kind = "run" => w.pending.call \in 1 .. cl
    BY <1>1 DEF PendingOK
  <2>7. ASSUME ~ crossed, w.pending.kind = "run", verdict = "confirmed",
               NEW i \in 1 .. Len(w.log), w.log[i].call = w.pending.call
        PROVE  /\ ~ IsGo(w.log[i])
               /\ IsAsk(w.log[i]) => \E j \in i + 1 .. Len(w.log) : IsConfirm(w.log[j])
    <3>1. ~ IsGo(w.log[i]) /\ (IsAsk(w.log[i]) => i <= w.pending.id)
      BY <1>1, <2>7 DEF PendingOK
    <3>2. PICK j \in w.pending.id + 1 .. Len(w.log) : IsConfirm(w.log[j])
      BY <2>7
    <3>3. i <= w.pending.id => j \in i + 1 .. Len(w.log)
      BY <1>2
    <3> QED BY <3>1, <3>2, <3>3
  <2>8. WorldOK(EmitPending(u), th, cl)
    BY <1>1, <2>1, <2>4, <2>5, <2>6, <2>7, EmitPendingKeeps
  <2> DEFINE e == Event(u.pending.kind, 0, u.pending.call, u.pending.arg)
  <2>9. /\ EmitPending(u).state = u.state /\ EmitPending(u).seen = u.seen
        /\ EmitPending(u).max = u.max /\ EmitPending(u).hit = u.hit
        /\ e \in EventSet /\ e.kind \notin {"message", "change"} /\ EmitPending(u).log = Append(u.log, e)
    BY <2>1, <2>4, <2>5, EmitPendingFields
  <2> HIDE DEF e
  <2>10. Grows(w.log, EmitPending(u).log)
    BY <1>2, <2>5, <2>9, GrowsAppend
  <2> QED BY <2>2, <2>5, <2>8, <2>9, <2>10 DEF v
<1> QED BY <1>3, <1>4

(***************************************************************************)
(* set_agent_state_to.  What a verdict may do, and what another state may  *)
(* not do while one is on its way.                                         *)
(***************************************************************************)
MayBecome(w, new) ==
    \/ crossed
    \/ /\ new \in Verdicts => /\ NoVerdict(w.log, w.seen)
                              /\ w.pending.kind = "run" => w.pending.arg = "awaiting"
       /\ new = "user_confirmed" /\ w.pending.kind = "run" =>
            \E i \in w.pending.id + 1 .. Len(w.log) : IsConfirm(w.log[i])
       /\ new = "running" =>
            \/ NoVerdict(w.log, w.seen)
            \/ w.pending.kind = "recall"
               /\ \A k \in w.seen + 1 .. Len(w.log) : IsVerdict(w.log[k]) => w.pending.id > k

\* The state is entered and announced; what else changes is told by the new state.
LEMMA SetKeeps ==
    ASSUME NEW w, NEW th, NEW cl \in Nat, WorldOK(w, th, cl), NEW new \in States, MayBecome(w, new)
    PROVE  LET v == SetAgentStateTo(w, new)
           IN  /\ WorldOK(v, th, cl) /\ v.state = new /\ v.seen = w.seen /\ Grows(w.log, v.log)
               /\ v.max \in {w.max, w.max + Iterations}
               /\ new # "running" \/ w.state # "error" => v.max = w.max
               /\ Announced(w.state, w.log) => Announced(v.state, v.log)
               /\ new = "running" => v.pending = w.pending
<1> DEFINE v == SetAgentStateTo(w, new)
<1>1. w \in WorldSet /\ w.log \in Seq(EventSet)
  BY WorldFields DEF WorldOK
<1>2. CASE new = w.state
  BY <1>1, <1>2, WorldFields, GrowsSame DEF SetAgentStateTo
<1>3. CASE new # w.state
  <2> DEFINE s == [w EXCEPT !.state = new]
             done == CASE new \in {"stopped", "error"} -> Reset(s)
                       [] new = "running" /\ w.state = "error" -> IncreaseLimit(s)
                       [] new = "user_confirmed" -> Decide(s, "confirmed")
                       [] new = "user_rejected" -> Decide(s, "rejected")
                       [] OTHER -> s
             e == Event("state", 0, 0, new)
  <2>2. /\ WorldOK(s, th, cl) /\ s.state = new /\ s.pending = w.pending /\ s.log = w.log
        /\ s.seen = w.seen /\ s.max = w.max /\ s.hit = w.hit
    BY StateKeeps DEF MayBecome, NoVerdict
  <2>3. e \in EventSet /\ e.kind = "state" /\ e.arg = new
    <3>1. "state" \in Kinds /\ new \in Args
      BY DEF Kinds, Args
    <3> QED BY <3>1, EventType
  <2> HIDE DEF s, e
  <2>4. /\ WorldOK(done, th, cl) /\ done.state = new /\ done.seen = w.seen
        /\ Grows(w.log, done.log)
        /\ done.max \in {w.max, w.max + Iterations}
        /\ new # "running" \/ w.state # "error" => done.max = w.max
        /\ new = "running" => done.pending = w.pending
    <3>1. CASE new \in {"stopped", "error"}
      <4>1. done = Reset(s)
        BY <3>1
      <4> QED BY <2>2, <3>1, <4>1, ResetKeeps
    <3>2. CASE new = "running" /\ w.state = "error"
      <4>1. done = IncreaseLimit(s)
        BY <3>2
      <4> QED BY <1>1, <2>2, <3>2, <4>1, IncreaseKeeps, GrowsSame
    <3>3. CASE new = "user_confirmed"
      <4>1. done = Decide(s, "confirmed")
        BY <3>3
      <4>2. /\ NoVerdict(s.log, s.seen)
            /\ crossed \/ (s.pending.kind = "run" =>
                 s.pending.arg = "awaiting"
                 /\ \E i \in s.pending.id + 1 .. Len(s.log) : IsConfirm(s.log[i]))
        BY <2>2, <3>3 DEF MayBecome, Verdicts, NoVerdict
      <4> HIDE DEF done
      <4> QED BY <2>2, <3>3, <4>1, <4>2, DecideKeeps
    <3>4. CASE new = "user_rejected"
      <4>1. done = Decide(s, "rejected")
        BY <3>4
      <4>2. /\ NoVerdict(s.log, s.seen)
            /\ crossed \/ (s.pending.kind = "run" => s.pending.arg = "awaiting")
        BY <2>2, <3>4 DEF MayBecome, Verdicts, NoVerdict
      <4> HIDE DEF done
      <4> QED BY <2>2, <3>4, <4>1, <4>2, DecideKeeps
    <3>5. CASE /\ new \notin {"stopped", "error", "user_confirmed", "user_rejected"}
               /\ ~ (new = "running" /\ w.state = "error")
      <4>1. done = s
        BY <3>5
      <4> QED BY <1>1, <2>2, <4>1, GrowsSame
    <3> QED BY <3>1, <3>2, <3>3, <3>4, <3>5
  <2>1. v = Emit(done, e)
    <3>1. v = Announce(done)
      BY <1>3, Zenon DEF SetAgentStateTo, s
    <3> HIDE DEF done, v
    <3>2. Announce(done) = Emit(done, Event("state", 0, 0, done.state))
      BY DEF Announce
    <3> QED BY <2>4, <3>1, <3>2 DEF e
  <2> HIDE DEF done, v
  <2>5. done \in WorldSet /\ done.log \in Seq(EventSet)
    BY <2>4, WorldFields DEF WorldOK
  <2>6. /\ v \in WorldSet /\ v.log = Append(done.log, e) /\ v.state = new
        /\ v.pending = done.pending /\ v.max = done.max /\ v.seen = w.seen
    BY <2>1, <2>3, <2>4, <2>5, EmitFields
  <2>7. WorldOK(v, th, cl)
    <3>1. e.kind \notin Observations
      BY <2>3 DEF Observations
    <3> QED BY <2>1, <2>3, <2>4, <3>1, EmitKeeps DEF IsVerdict
  <2>8. Announced(v.state, v.log)
    BY <2>3, <2>5, <2>6, AnnouncedGrows
  <2>9. Grows(w.log, v.log)
    <3>1. v.log \in Seq(EventSet)
      BY <2>6, WorldFields
    <3> QED BY <1>1, <2>3, <2>4, <2>5, <2>6, <3>1, GrowsAppend, GrowsOn, ZenonT(30)
  <2> QED BY <2>4, <2>6, <2>7, <2>8, <2>9 DEF v
<1> QED BY <1>2, <1>3

\* _react_to_exception.
LEMMA FailKeeps ==
    ASSUME NEW w, NEW th, NEW cl \in Nat, WorldOK(w, th, cl), Announced(w.state, w.log)
    PROVE  LET v == Fail(w)
           IN  /\ WorldOK(v, th, cl) /\ v.state = "error" /\ v.seen = w.seen /\ v.max = w.max
               /\ Announced(v.state, v.log) /\ Grows(w.log, v.log)
<1> DEFINE u == [w EXCEPT !.alarms = @ + 1]
<1>1. w \in WorldSet
  BY DEF WorldOK
<1>2. w.alarms \in Nat
  BY <1>1, WorldFields
<1>3. /\ u \in WorldSet /\ u.state = w.state /\ u.pending = w.pending /\ u.log = w.log
      /\ u.seen = w.seen /\ u.max = w.max
  BY <1>1, <1>2 DEF WorldSet
<1>4. Fail(w) = SetAgentStateTo(u, "error")
  BY DEF Fail
<1> HIDE DEF u
<1>5. WorldOK(u, th, cl)
  BY <1>3, SameWorld
<1>6. "error" \in States /\ MayBecome(u, "error")
  BY DEF States, MayBecome, Verdicts
<1> QED BY <1>3, <1>4, <1>5, <1>6, SetKeeps

\* _handle_message_action: the recall is pending, and the agent runs.
LEMMA MessageKeeps ==
    ASSUME NEW w, NEW th, NEW cl \in Nat, WorldOK(w, th, cl), Announced(w.state, w.log)
    PROVE  LET v == HandleMessage(w)
           IN  /\ WorldOK(v, th, cl) /\ v.state = "running" /\ v.seen = w.seen
               /\ v.pending.kind = "recall" /\ v.max \in {w.max, w.max + Iterations}
               /\ Announced(v.state, v.log) /\ Grows(w.log, v.log)
<1> DEFINE r == [id |-> 0, kind |-> "recall", call |-> 0, arg |-> "none"]
           t == [w EXCEPT !.pending = r]
           u == EmitPending(t)
<1>1. /\ w \in WorldSet /\ w.seen <= Len(w.log) /\ LogOK(w.log, cl)
      /\ VerdictOK(w.state, w.pending, w.log, w.seen, th)
  BY DEF WorldOK
<1>2. w.pending \in ActionSet /\ w.log \in Seq(EventSet) /\ Len(w.log) \in Nat /\ w.seen \in Nat
  BY <1>1, WorldFields
<1>3. r \in ActionSet /\ r.kind = "recall"
  BY DEF ActionSet, Args
<1>4. HandleMessage(w) = SetAgentStateTo(u, "running")
  BY DEF HandleMessage
<1> HIDE DEF r
<1>5. /\ t \in WorldSet /\ t.pending = r /\ t.state = w.state /\ t.log = w.log
      /\ t.seen = w.seen /\ t.max = w.max
  BY <1>1, <1>3 DEF WorldSet
<1> HIDE DEF t
<1>6. w.pending.kind \in {"none", "run", "recall"}
  BY <1>2, ActionFields
<1>7. WorldOK(u, th, cl)
  BY <1>1, <1>3, <1>5, <1>6, EmitPendingKeeps
<1> DEFINE e == Event(t.pending.kind, 0, t.pending.call, t.pending.arg)
<1>8. /\ e \in EventSet /\ e.kind = "recall" /\ u.log = Append(w.log, e)
      /\ u.pending.id = Len(w.log) + 1 /\ u.pending.kind = "recall"
      /\ u.state = w.state /\ u.seen = w.seen /\ u.max = w.max
  BY <1>3, <1>5, EmitPendingFields, SMTT(30)
<1> HIDE DEF e, u
<1>9. \A k \in u.seen + 1 .. Len(u.log) : IsVerdict(u.log[k]) => u.pending.id > k
  <2> SUFFICES ASSUME NEW k \in w.seen + 1 .. Len(w.log) + 1, IsVerdict(u.log[k])
               PROVE  k < Len(w.log) + 1
    BY <1>2, <1>8, LogAppends
  <2>1. k # Len(w.log) + 1
    BY <1>2, <1>8, LogAppends DEF IsVerdict
  <2> QED BY <1>2, <2>1
<1>10. "running" \in States /\ MayBecome(u, "running")
  BY <1>8, <1>9 DEF States, MayBecome, Verdicts
<1>11. Announced(u.state, u.log)
  BY <1>2, <1>8, AnnouncedGrows
<1> DEFINE v == SetAgentStateTo(u, "running")
<1>12. /\ WorldOK(v, th, cl) /\ v.state = "running" /\ v.seen = u.seen /\ v.pending = u.pending
       /\ v.max \in {u.max, u.max + Iterations} /\ Announced(v.state, v.log)
       /\ Grows(u.log, v.log)
  BY <1>7, <1>10, <1>11, SetKeeps
<1> HIDE DEF v
<1>13. Grows(w.log, v.log)
  <2>1. u.log \in Seq(EventSet) /\ v.log \in Seq(EventSet)
    BY <1>7, <1>12, WorldFields DEF WorldOK
  <2>2. Grows(w.log, u.log)
    BY <1>2, <1>8, GrowsAppend
  <2> QED BY <1>2, <1>12, <2>1, <2>2, GrowsOn
<1> QED BY <1>4, <1>8, <1>12, <1>13 DEF v

\* _handle_observation: only the answer to what is pending counts, and while a verdict is
\* awaited none does.
LEMMA ObservationKeeps ==
    ASSUME NEW w, NEW cl \in Nat, WorldOK(w, FALSE, cl), Announced(w.state, w.log),
           AwaitOK(w.state, w.pending, FALSE), NEW e \in EventSet, e.cause < w.seen
    PROVE  LET v == HandleObservation(w, e)
           IN  /\ WorldOK(v, FALSE, cl) /\ v.seen = w.seen /\ v.max = w.max /\ Grows(w.log, v.log)
               /\ Announced(v.state, v.log) /\ AwaitOK(v.state, v.pending, FALSE)
               /\ v.state = "running" => w.state \in Verdicts \cup {"running"}
<1> DEFINE c == [w EXCEPT !.pending = NoAction]
           v == HandleObservation(w, e)
<1>1. /\ w \in WorldSet /\ w.seen \in Nat /\ Len(w.log) \in Nat /\ e.cause \in Nat
      /\ w.log \in Seq(EventSet)
      /\ VerdictOK(w.state, w.pending, w.log, w.seen, FALSE)
  BY WorldFields DEF WorldOK, EventSet
<1>2. ASSUME w.state \in Verdicts \/ (w.state = "running" /\ w.pending.id = e.cause)
      PROVE  NoVerdict(w.log, w.seen)
  <2> SUFFICES ASSUME ~ crossed, NEW k \in w.seen + 1 .. Len(w.log), IsVerdict(w.log[k])
               PROVE  FALSE
    BY DEF NoVerdict
  <2>1. w.state \notin Verdicts /\ (w.state = "running" => w.pending.id > k)
    BY <1>1 DEF VerdictOK
  <2>2. w.state = "running" /\ e.cause > k
    BY <1>2, <2>1
  <2> QED BY <1>1, <2>2
<1>3. CASE w.pending = NoAction \/ w.pending.id # e.cause \/ w.state = "awaiting_user_confirmation"
  <2>1. v = w
    <3>1. CASE w.pending = NoAction \/ w.pending.id # e.cause
      BY <3>1 DEF HandleObservation
    <3>2. CASE ~ (w.pending = NoAction \/ w.pending.id # e.cause)
      BY <1>3, <3>2 DEF HandleObservation
    <3> QED BY <3>1, <3>2
  <2> QED BY <1>1, <2>1, GrowsSame
<1>4. CASE /\ ~ (w.pending = NoAction \/ w.pending.id # e.cause)
           /\ w.state # "awaiting_user_confirmation"
  <2>1. /\ WorldOK(c, FALSE, cl) /\ c.state = w.state /\ c.pending = NoAction
        /\ c.log = w.log /\ c.seen = w.seen /\ c.max = w.max
    BY <1>2, <1>4, ClearKeeps
  <2> HIDE DEF c
  <2>2. Announced(c.state, c.log)
    BY <2>1
  <2>3. CASE w.state = "user_confirmed"
    <3>1. v = SetAgentStateTo(c, "running")
      BY <1>4, <2>3 DEF HandleObservation, c
    <3>2. "running" \in States /\ MayBecome(c, "running")
      BY <1>2, <2>1, <2>3 DEF States, Verdicts, MayBecome
    <3>3. w.state # "error" /\ w.state \in Verdicts
      BY <2>3 DEF Verdicts
    <3> DEFINE r == SetAgentStateTo(c, "running")
    <3>4. /\ WorldOK(r, FALSE, cl) /\ r.state = "running" /\ r.seen = c.seen /\ r.max = c.max
          /\ Grows(c.log, r.log) /\ Announced(r.state, r.log)
      BY <2>1, <2>2, <3>2, <3>3, SetKeeps
    <3> HIDE DEF r
    <3>5. AwaitOK(r.state, r.pending, FALSE)
      BY <3>4 DEF AwaitOK
    <3> QED BY <2>1, <3>1, <3>3, <3>4, <3>5 DEF r
  <2>4. CASE w.state = "user_rejected"
    <3>1. v = SetAgentStateTo(c, "awaiting_user_input")
      BY <1>4, <2>4 DEF HandleObservation, c
    <3>2. "awaiting_user_input" \in States /\ MayBecome(c, "awaiting_user_input")
      BY DEF States, Verdicts, MayBecome
    <3>3. /\ WorldOK(SetAgentStateTo(c, "awaiting_user_input"), FALSE, cl)
          /\ SetAgentStateTo(c, "awaiting_user_input").state = "awaiting_user_input"
          /\ SetAgentStateTo(c, "awaiting_user_input").seen = c.seen
          /\ SetAgentStateTo(c, "awaiting_user_input").max = c.max
          /\ Grows(c.log, SetAgentStateTo(c, "awaiting_user_input").log)
          /\ Announced(c.state, c.log) =>
               Announced(SetAgentStateTo(c, "awaiting_user_input").state,
                         SetAgentStateTo(c, "awaiting_user_input").log)
      BY <2>1, <2>4, <3>2, SetKeeps
    <3> HIDE DEF v
    <3> QED BY <2>1, <2>2, <3>1, <3>3 DEF AwaitOK, v
  <2>5. CASE w.state \notin Verdicts
    <3>1. v = c
      BY <1>4, <2>5 DEF HandleObservation, Verdicts, c
    <3> QED BY <1>1, <1>4, <2>1, <2>2, <3>1, GrowsSame DEF AwaitOK
  <2> QED BY <2>3, <2>4, <2>5 DEF Verdicts
<1> QED BY <1>3, <1>4

\* The event that on_event is called with, once it is in the history.
LEMMA HandleKeeps ==
    ASSUME NEW w, NEW cl \in Nat, WorldOK(w, FALSE, cl), Announced(w.state, w.log),
           AwaitOK(w.state, w.pending, FALSE), w.seen \in 1 .. Len(w.log),
           IsVerdict(w.log[w.seen]) => MayBecome(w, w.log[w.seen].arg)
    PROVE  LET e == w.log[w.seen]
               v == Handle(w, e)
           IN  /\ WorldOK(v, FALSE, cl) /\ v.seen = w.seen /\ Grows(w.log, v.log)
               /\ v.max \in {w.max, w.max + Iterations} /\ (e.kind # "message" => v.max = w.max)
               /\ Announced(v.state, v.log) /\ AwaitOK(v.state, v.pending, FALSE)
               /\ v.state = "running" => w.state \in Verdicts \cup {"running"} \/ e.kind = "message"
<1> DEFINE e == w.log[w.seen]
           v == Handle(w, e)
           Good == /\ WorldOK(v, FALSE, cl) /\ v.seen = w.seen /\ Grows(w.log, v.log)
                   /\ v.max \in {w.max, w.max + Iterations} /\ (e.kind # "message" => v.max = w.max)
                   /\ Announced(v.state, v.log) /\ AwaitOK(v.state, v.pending, FALSE)
                   /\ v.state = "running" => w.state \in Verdicts \cup {"running"} \/ e.kind = "message"
<1> SUFFICES Good
  OBVIOUS
<1>1. w \in WorldSet /\ w.log \in Seq(EventSet) /\ EventsOK(w.log, cl)
  BY WorldFields DEF WorldOK, LogOK
<1>2. /\ e \in EventSet
      /\ e.kind \in Observations => e.cause < w.seen
      /\ e.kind = "change" => e.arg \in {"stopped", "paused"} \cup Verdicts
  BY <1>1 DEF EventsOK
<1>3. IsVerdict(e) => MayBecome(w, e.arg)
  OBVIOUS
<1> HIDE DEF e
<1>4. ASSUME NEW new \in States, v = SetAgentStateTo(w, new), MayBecome(w, new), new # "running",
             new # "awaiting_user_confirmation"
      PROVE  Good
  <2> HIDE DEF v
  <2> QED BY <1>4, SetKeeps DEF AwaitOK
<1>5. \A new \in {"awaiting_user_input", "finished", "rejected", "stopped", "paused"} :
         new \in States /\ MayBecome(w, new)
  BY DEF States, MayBecome, Verdicts
<1>6. CASE e.kind \in Observations
  <2>1. v = HandleObservation(w, e)
    BY <1>6 DEF Handle
  <2>2. e.kind # "message"
    BY <1>6 DEF Observations
  <2> HIDE DEF v
  <2> QED BY <1>2, <1>6, <2>1, <2>2, ObservationKeeps
<1>7. CASE e.kind \notin Observations
  <2>1. v = HandleAction(w, e)
    BY <1>7 DEF Handle
  <2>2. CASE e.kind = "message"
    <3>1. v = HandleMessage(w)
      BY <2>1, <2>2 DEF HandleAction
    <3> HIDE DEF v
    <3> QED BY <2>2, <3>1, MessageKeeps DEF AwaitOK
  <2>3. CASE e.kind = "say" /\ e.arg = "wait"
    <3>1. v = SetAgentStateTo(w, "awaiting_user_input")
      BY <2>1, <2>3 DEF HandleAction
    <3> QED BY <1>4, <1>5, <3>1
  <2>4. CASE e.kind = "change"
    <3>1. v = SetAgentStateTo(w, e.arg)
      BY <2>1, <2>4 DEF HandleAction
    <3>2. CASE e.arg \in Verdicts
      <4>1. IsVerdict(e) /\ e.arg \in States /\ e.arg # "running"
            /\ e.arg # "awaiting_user_confirmation"
        BY <2>4, <3>2 DEF IsVerdict, Verdicts, States
      <4> QED BY <1>3, <1>4, <3>1, <4>1
    <3>3. CASE e.arg \in {"stopped", "paused"}
      BY <1>4, <1>5, <3>1, <3>3
    <3> QED BY <1>2, <2>4, <3>2, <3>3
  <2>5. CASE e.kind = "finish"
    <3>1. v = SetAgentStateTo(w, "finished")
      BY <2>1, <2>5 DEF HandleAction
    <3> QED BY <1>4, <1>5, <3>1
  <2>6. CASE e.kind = "reject"
    <3>1. v = SetAgentStateTo(w, "rejected")
      BY <2>1, <2>6 DEF HandleAction
    <3> QED BY <1>4, <1>5, <3>1
  <2>7. CASE /\ e.kind \notin {"message", "change", "finish", "reject"}
             /\ ~ (e.kind = "say" /\ e.arg = "wait")
    <3>1. v = w
      BY <2>1, <2>7 DEF HandleAction
    <3> QED BY <1>1, <3>1, GrowsSame
  <2> QED BY <2>2, <2>3, <2>4, <2>5, <2>6, <2>7
<1> QED BY <1>6, <1>7

\* A new call goes on the stream that is not the pending action any more.
LEMMA EmitRunKeeps ==
    ASSUME NEW w, NEW cl \in Nat, WorldOK(w, FALSE, cl), NoVerdict(w.log, w.seen),
           w.pending = NoAction, NEW e \in EventSet, e.kind = "run", e.call \in 1 .. cl,
           \A i \in 1 .. Len(w.log) : w.log[i].kind = "run" => w.log[i].call # e.call
    PROVE  WorldOK(Emit(w, e), FALSE, cl)
<1>1. w \in WorldSet /\ w.seen <= Len(w.log) /\ LogOK(w.log, cl) /\ PendingOK(w.pending, w.log, cl)
  BY DEF WorldOK
<1>2. w.pending \in ActionSet /\ w.log \in Seq(EventSet) /\ w.seen \in Nat /\ Len(w.log) \in Nat
  BY <1>1, WorldFields
<1>3. \A i \in 1 .. Len(w.log) : w.log[i].call = e.call => ~ IsGo(w.log[i]) /\ ~ IsAsk(w.log[i])
  BY DEF IsGo, IsAsk
<1>4. e.kind \notin Observations /\ e.kind # "change" /\ ~ IsVerdict(e)
  BY DEF Observations, IsVerdict
<1>5. LogOK(Append(w.log, e), cl)
  BY <1>1, <1>2, <1>3, <1>4, LogGrows
<1>6. PendingOK(w.pending, Append(w.log, e), cl)
  BY <1>1, <1>2, NoActionType, PendingGrows
<1>7. NoVerdict(Append(w.log, e), w.seen)
  BY <1>2, <1>4, NoVerdictGrows
<1>8. VerdictOK(w.state, w.pending, Append(w.log, e), w.seen, FALSE)
  BY <1>7, NoVerdictOK
<1>9. w.seen <= Len(Append(w.log, e))
  BY <1>1, <1>2, LogAppends
<1> QED BY <1>1, <1>5, <1>6, <1>8, <1>9, EmitFields DEF WorldOK

-----------------------------------------------------------------------------
(***************************************************************************)
(* The steps.                                                              *)
(***************************************************************************)
\* The world of the variables.
LEMMA WorldNow ==
    /\ World.state = agentState /\ World.pending = pending /\ World.max = max /\ World.hit = hit
    /\ World.log = log /\ World.seen = seen /\ World.alarms = alarms
  BY DEF World

\* The world that a handler has made is the next one.
LEMMA WorldNext ==
    ASSUME NEW v \in WorldSet, Become(v), seen' = v.seen
    PROVE  World' = v
<1>1. World' = [state |-> v.state, pending |-> v.pending, max |-> v.max, hit |-> v.hit,
                log |-> v.log, seen |-> v.seen, alarms |-> v.alarms]
  BY DEF World, Become
<1> QED BY <1>1 DEF WorldSet

\* What a handler has to show.
Made(v, th, cl) ==
    /\ WorldOK(v, th, cl)
    /\ Announced(v.state, v.log)
    /\ AwaitOK(v.state, v.pending, th)
    /\ Grows(log, v.log)

\* What the steps of the controller and of the session have in common.
LEMMA NextWorld ==
    ASSUME ControlInv, NEW v, NEW th, NEW cl \in Nat, WorldOK(v, th, cl),
           Len(log) <= Len(v.log), \A i \in 1 .. Len(log) : v.log[i] = log[i],
           Become(v), seen' = v.seen, Busy' = th, calls' = cl, crossed => crossed',
           thinking' \in BOOLEAN, iter' \in Nat, {interrupted', crossed'} \subseteq BOOLEAN,
           ending' \in {"no", "taken", "asking", "asked"},
           status' \in {"no", "entered", "answered"},
           running' \in 0 .. Len(log),
           \A x \in executed' : x \in 1 .. Len(log) /\ IsGo(log[x])
    PROVE  /\ Shared' /\ (WorldOK(World, Busy, calls))' /\ max' = v.max
           /\ agentState' = v.state /\ pending' = v.pending /\ log' = v.log
<1>1. v \in WorldSet
  BY DEF WorldOK
<1>2. World' = v
  BY <1>1, WorldNext
<1>3. agentState' = v.state /\ pending' = v.pending /\ log' = v.log /\ max' = v.max
  BY DEF Become
<1>4. (WorldOK(World, Busy, calls))'
  <2>1. /\ v.seen <= Len(v.log) /\ EventsOK(v.log, cl) /\ GoOnce(v.log) /\ GoAfterConfirm(v.log)
        /\ PendingOK(v.pending, v.log, cl) /\ VerdictOK(v.state, v.pending, v.log, v.seen, th)
    BY DEF WorldOK, LogOK
  <2>2. (GoOnce(World.log))'
    BY <1>2, <2>1 DEF GoOnce
  <2>3. (GoAfterConfirm(World.log))'
    BY <1>2, <2>1 DEF GoAfterConfirm
  <2>4. (VerdictOK(World.state, World.pending, World.log, World.seen, Busy))'
    <3>1. CASE crossed'
      BY <3>1 DEF VerdictOK
    <3>2. CASE ~ crossed'
      BY <1>2, <2>1, <3>2 DEF VerdictOK
    <3> QED BY <3>1, <3>2
  <2> QED BY <1>1, <1>2, <2>1, <2>2, <2>3, <2>4 DEF WorldOK, LogOK
<1>5. World \in WorldSet /\ Len(log) \in Nat /\ Len(log') \in Nat
  <2>1. World \in WorldSet
    BY DEF ControlInv, WorldOK
  <2> QED BY <1>1, <1>3, <2>1, WorldFields, WorldNow
<1>6. \A x \in executed' : x \in 1 .. Len(log') /\ IsGo(log'[x])
  BY <1>3, <1>5
<1>7. running' \in 0 .. Len(log')
  BY <1>3, <1>5
<1>8. Shared'
  BY <1>6, <1>7 DEF Shared
<1> QED BY <1>3, <1>4, <1>8

\* A handler, the end of a step without a call, or the end of the session.
LEMMA ControlStep ==
    ASSUME ControlInv, NEW v, Made(v, thinking', calls), Become(v), seen' = v.seen,
           thinking' \in BOOLEAN, calls' = calls, iter' \in Nat, ending = "no",
           ending' = ending, status' = status, interrupted' = interrupted,
           crossed => crossed', crossed' \in BOOLEAN,
           running' = running, executed' = executed,
           status # "no" /\ v.state = "running" => crossed' \/ NoVerdict(v.log, v.seen)
    PROVE  ControlInv' /\ Grows(log, log') /\ max' = v.max
<1>1. WorldOK(v, thinking', calls) /\ Announced(v.state, v.log)
      /\ AwaitOK(v.state, v.pending, thinking') /\ Grows(log, v.log)
  BY DEF Made
<1>2. /\ calls \in Nat /\ {interrupted', crossed'} \subseteq BOOLEAN
      /\ ending' \in {"no", "taken", "asking", "asked"} /\ status' \in {"no", "entered", "answered"}
  BY DEF ControlInv, Shared
<1>3. Busy' = thinking' /\ Early' = thinking'
  BY DEF Busy, Early
<1>4. /\ Shared' /\ (WorldOK(World, Busy, calls))' /\ Grows(log, log') /\ max' = v.max
      /\ agentState' = v.state /\ pending' = v.pending /\ log' = v.log
  <2>1. /\ running' \in 0 .. Len(log)
        /\ \A x \in executed' : x \in 1 .. Len(log) /\ IsGo(log[x])
    BY DEF ControlInv, Shared
  <2>2. Len(log) <= Len(v.log) /\ \A i \in 1 .. Len(log) : v.log[i] = log[i]
    BY <1>1 DEF Grows
  <2> QED BY <1>1, <1>2, <1>3, <2>1, <2>2, NextWorld
<1>5. (Announced(agentState, log))'
  BY <1>1, <1>4 DEF Announced, Told
<1>6. (AwaitOK(agentState, pending, Early))'
  BY <1>1, <1>3, <1>4 DEF AwaitOK
<1>7. (StatusOK(agentState, log, seen))'
  BY <1>4 DEF StatusOK, NoVerdict
<1>8. (EndingOK(pending, log))'
  BY DEF EndingOK
<1> QED BY <1>4, <1>5, <1>6, <1>7, <1>8 DEF ControlInv

\* The controller has handled more of the stream.
LEMMA SeenKeeps ==
    ASSUME NEW w, NEW th, NEW cl \in Nat, WorldOK(w, th, cl), NEW i \in w.seen .. Len(w.log)
    PROVE  LET v == [w EXCEPT !.seen = i]
           IN  /\ WorldOK(v, th, cl) /\ v.state = w.state /\ v.pending = w.pending
               /\ v.log = w.log /\ v.seen = i /\ v.max = w.max
<1> DEFINE v == [w EXCEPT !.seen = i]
<1>1. w \in WorldSet /\ w.seen <= Len(w.log) /\ LogOK(w.log, cl)
      /\ PendingOK(w.pending, w.log, cl)
      /\ VerdictOK(w.state, w.pending, w.log, w.seen, th)
  BY DEF WorldOK
<1>2. w.seen \in Nat /\ Len(w.log) \in Nat
  BY <1>1, WorldFields
<1>3. i \in Nat /\ i <= Len(w.log) /\ w.seen <= i
  BY <1>2
<1>4. /\ v \in WorldSet /\ v.state = w.state /\ v.pending = w.pending /\ v.log = w.log
      /\ v.seen = i /\ v.max = w.max
  BY <1>1, <1>3 DEF WorldSet
<1> HIDE DEF v
<1>5. VerdictOK(w.state, w.pending, w.log, i, th)
  BY <1>1, <1>2, <1>3 DEF VerdictOK
<1>6. WorldOK(v, th, cl)
  BY <1>1, <1>3, <1>4, <1>5 DEF WorldOK
<1> QED BY <1>4, <1>6 DEF v

\* An agent that may step has no verdict on its way.
LEMMA MayStepNoVerdict ==
    ASSUME NEW w, NEW th, NEW cl, WorldOK(w, th, cl), MayStep(w)
    PROVE  NoVerdict(w.log, w.seen)
<1>1. VerdictOK(w.state, w.pending, w.log, w.seen, th) /\ w.state = "running"
      /\ w.pending.kind = "none"
  BY NoActionType DEF WorldOK, MayStep
<1> QED BY <1>1 DEF VerdictOK, NoVerdict

\* The flag of the limit is not part of the invariant.
LEMMA HitKeeps ==
    ASSUME NEW w, NEW th, NEW cl, WorldOK(w, th, cl), NEW b \in BOOLEAN
    PROVE  LET v == [w EXCEPT !.hit = b]
           IN  /\ WorldOK(v, th, cl) /\ v.state = w.state /\ v.pending = w.pending
               /\ v.log = w.log /\ v.seen = w.seen /\ v.max = w.max
<1> DEFINE v == [w EXCEPT !.hit = b]
<1>1. w \in WorldSet
  BY DEF WorldOK
<1>2. /\ v \in WorldSet /\ v.state = w.state /\ v.pending = w.pending /\ v.log = w.log
      /\ v.seen = w.seen /\ v.max = w.max
  BY <1>1 DEF WorldSet
<1> HIDE DEF v
<1>3. WorldOK(v, th, cl)
  BY <1>2, SameWorld
<1> QED BY <1>2, <1>3 DEF v

\* A failure that a handler w of the stream runs into.
LEMMA FailMakes ==
    ASSUME NEW w, NEW th, NEW cl \in Nat, WorldOK(w, th, cl), Announced(w.state, w.log),
           log \in Seq(EventSet), Grows(log, w.log)
    PROVE  Made(Fail(w), th, cl) /\ Fail(w).seen = w.seen /\ Fail(w).max = w.max
<1> DEFINE v == Fail(w)
<1>1. /\ WorldOK(v, th, cl) /\ v.state = "error" /\ v.seen = w.seen /\ v.max = w.max
      /\ Announced(v.state, v.log) /\ Grows(w.log, v.log)
  BY FailKeeps
<1> HIDE DEF v
<1>2. w.log \in Seq(EventSet) /\ v.log \in Seq(EventSet)
  BY <1>1, WorldFields DEF WorldOK
<1>3. Grows(log, v.log)
  BY <1>1, <1>2, GrowsOn
<1>4. AwaitOK(v.state, v.pending, th)
  BY <1>1 DEF AwaitOK
<1>5. Made(v, th, cl)
  BY <1>1, <1>3, <1>4 DEF Made
<1> QED BY <1>1, <1>5 DEF v

\* _step up to the model's call: the step fails, or it is counted, within the limit.
LEMMA StepBeginMakes ==
    ASSUME NEW w, calls \in Nat, iter \in Nat, ~ thinking, Made(w, FALSE, calls), MayStep(w),
           log \in Seq(EventSet), StepBegin(w), thinking \in BOOLEAN
    PROVE  /\ \E v : /\ Become(v) /\ Made(v, thinking', calls)
                     /\ v.seen = w.seen /\ v.max = w.max
           /\ thinking' \in BOOLEAN
           /\ iter' = iter \/ (iter' = iter + 1 /\ ~ (iter >= w.max))
<1>1. WorldOK(w, FALSE, calls) /\ Announced(w.state, w.log) /\ Grows(log, w.log)
  BY DEF Made
<1>2. ASSUME NEW b \in BOOLEAN
      PROVE  LET u == [w EXCEPT !.hit = b]
             IN  /\ WorldOK(u, FALSE, calls) /\ u.state = w.state /\ u.pending = w.pending
                 /\ u.log = w.log /\ u.seen = w.seen /\ u.max = w.max
  BY <1>1, HitKeeps
<1>3. ASSUME NEW b \in BOOLEAN
      PROVE  LET v == Fail([w EXCEPT !.hit = b])
             IN  Made(v, FALSE, calls) /\ v.seen = w.seen /\ v.max = w.max
  <2> DEFINE u == [w EXCEPT !.hit = b]
  <2>1. /\ WorldOK(u, FALSE, calls) /\ u.state = w.state /\ u.pending = w.pending
        /\ u.log = w.log /\ u.seen = w.seen /\ u.max = w.max
    BY <1>2
  <2> HIDE DEF u
  <2>2. Made(Fail(u), FALSE, calls) /\ Fail(u).seen = w.seen /\ Fail(u).max = w.max
    BY <1>1, <2>1, FailMakes
  <2> QED BY <2>2 DEF u
<1>4. CASE "stuck" \in Outcomes /\ Become(Fail(w)) /\ UNCHANGED <<iter, thinking, stepped>>
  <2>1. Made(Fail(w), FALSE, calls) /\ Fail(w).seen = w.seen /\ Fail(w).max = w.max
    BY <1>1, FailMakes
  <2>2. thinking' = FALSE /\ iter' = iter /\ Become(Fail(w))
    BY <1>4
  <2> DEFINE v == Fail(w)
  <2> HIDE DEF v
  <2>3. Become(v) /\ Made(v, thinking', calls) /\ v.seen = w.seen /\ v.max = w.max
    BY <2>1, <2>2 DEF v
  <2> QED BY <2>2, <2>3
<1>5. CASE ReachedLimit(w) /\ Become(Fail([w EXCEPT !.hit = TRUE]))
           /\ UNCHANGED <<iter, thinking, stepped>>
  <2> DEFINE v == Fail([w EXCEPT !.hit = TRUE])
  <2>1. Made(v, FALSE, calls) /\ v.seen = w.seen /\ v.max = w.max
    BY <1>3
  <2>2. thinking' = FALSE /\ iter' = iter /\ Become(v)
    BY <1>5
  <2> HIDE DEF v
  <2> QED BY <2>1, <2>2
<1>6. CASE ~ ReachedLimit(w) /\ "budget" \in Outcomes /\ iter' = iter + 1
           /\ Become(Fail([w EXCEPT !.hit = FALSE])) /\ UNCHANGED <<thinking, stepped>>
  <2> DEFINE v == Fail([w EXCEPT !.hit = FALSE])
  <2>1. Made(v, FALSE, calls) /\ v.seen = w.seen /\ v.max = w.max
    BY <1>3
  <2>2. thinking' = FALSE /\ Become(v)
    BY <1>6
  <2> HIDE DEF v
  <2> QED BY <1>6, <2>1, <2>2 DEF ReachedLimit
<1>7. CASE ~ ReachedLimit(w) /\ iter' = iter + 1 /\ Become([w EXCEPT !.hit = FALSE])
           /\ thinking' = TRUE /\ stepped' = w.seen
  <2> DEFINE v == [w EXCEPT !.hit = FALSE]
  <2>1. /\ WorldOK(v, FALSE, calls) /\ v.state = w.state /\ v.pending = w.pending
        /\ v.log = w.log /\ v.seen = w.seen /\ v.max = w.max
    BY <1>2
  <2>2. Become(v)
    BY <1>7
  <2> HIDE DEF v
  <2>3. NoVerdict(v.log, v.seen)
    BY <1>1, <2>1, MayStepNoVerdict
  <2>4. WorldOK(v, TRUE, calls)
    BY <2>1, <2>3, NoVerdictOK DEF WorldOK
  <2>5. AwaitOK(v.state, v.pending, TRUE)
    BY <2>1 DEF AwaitOK, MayStep
  <2>6. Made(v, TRUE, calls)
    BY <1>1, <2>1, <2>4, <2>5 DEF Made
  <2> QED BY <1>7, <2>1, <2>2, <2>6 DEF ReachedLimit
<1> QED BY <1>4, <1>5, <1>6, <1>7 DEF StepBegin

\* on_event: the handler, and the head of the step.
LEMMA OnEventKeeps ==
    ASSUME ControlInv, NEW i \in 1 .. Len(log), OnEvent(i)
    PROVE  /\ ControlInv' /\ Grows(log, log') /\ seen' = i /\ seen < i
           /\ max' \in {max, max + Iterations} /\ (log[i].kind # "message" => max' = max)
           /\ iter' = iter \/ (iter' = iter + 1 /\ ~ (iter >= max'))
<1> DEFINE w == [World EXCEPT !.seen = i]
           v == Handle(w, log[i])
<1>1. /\ thinking = FALSE /\ ending = "no" /\ calls \in Nat /\ iter \in Nat
      /\ WorldOK(World, FALSE, calls) /\ StatusOK(agentState, log, seen)
      /\ Announced(agentState, log) /\ AwaitOK(agentState, pending, FALSE)
      /\ VerdictOK(agentState, pending, log, seen, FALSE) /\ EventsOK(log, calls)
  <2>1. thinking = FALSE /\ ending = "no"
    BY DEF ControlInv, Shared, OnEvent
  <2>2. Busy = FALSE /\ Early = FALSE
    BY <2>1 DEF Busy, Early
  <2> QED BY <2>1, <2>2, WorldNow DEF ControlInv, Shared, WorldOK, LogOK
<1>2. log \in Seq(EventSet) /\ Len(log) \in Nat /\ seen \in Nat /\ max \in Nat
      /\ pending \in ActionSet
  BY <1>1, WorldNow, WorldFields DEF WorldOK
<1>3. i \in seen + 1 .. Len(log) /\ i \in seen .. Len(log) /\ seen < i
  BY <1>2 DEF OnEvent, NextOf
<1>4. /\ WorldOK(w, FALSE, calls) /\ w.state = agentState /\ w.pending = pending
      /\ w.log = log /\ w.seen = i /\ w.max = max
  BY <1>1, <1>3, WorldNow, SeenKeeps, ZenonT(30)
<1>5. /\ seen' = i /\ calls' = calls /\ running' = running /\ executed' = executed
      /\ ending' = ending /\ status' = status /\ interrupted' = interrupted
      /\ crossed' = (crossed \/ MessageCrosses(i))
      /\ IF ShouldStep(v, log[i]) /\ MayStep(v)
           THEN StepBegin(v)
           ELSE Become(v) /\ iter' = iter /\ thinking' = thinking
  BY DEF OnEvent, rtVars
<1> HIDE DEF w
<1>6. ASSUME IsVerdict(log[i]), ~ crossed
      PROVE  MayBecome(w, log[i].arg)
  <2>1. \A j \in seen + 1 .. Len(log) : IsVerdict(log[j]) => j = i
    BY <1>1, <1>3, <1>6 DEF VerdictOK
  <2>2. pending.kind = "run" => pending.arg = "awaiting" /\ pending.id < i
    BY <1>1, <1>3, <1>6 DEF VerdictOK
  <2>3. NoVerdict(log, i)
    BY <1>2, <1>3, <2>1 DEF NoVerdict
  <2>4. log[i].arg \in Verdicts
    BY <1>6 DEF IsVerdict, Verdicts
  <2>5. log[i].arg = "user_confirmed" => IsConfirm(log[i])
    BY <1>6 DEF IsVerdict, IsConfirm
  <2>6. pending.kind = "run" => i \in pending.id + 1 .. Len(log)
    BY <1>2, <2>2, ActionFields
  <2> QED BY <1>4, <2>2, <2>3, <2>4, <2>5, <2>6 DEF MayBecome, Verdicts
<1>7. /\ WorldOK(v, FALSE, calls) /\ v.seen = i /\ Grows(log, v.log)
      /\ v.max \in {max, max + Iterations} /\ (log[i].kind # "message" => v.max = max)
      /\ Announced(v.state, v.log) /\ AwaitOK(v.state, v.pending, FALSE)
      /\ v.state = "running" =>
           agentState \in Verdicts \cup {"running"} \/ log[i].kind = "message"
  <2>1. IsVerdict(log[i]) => MayBecome(w, log[i].arg)
    BY <1>6 DEF MayBecome
  <2> QED BY <1>1, <1>4, <2>1, HandleKeeps
<1> HIDE DEF v
<1>8. Made(v, FALSE, calls)
  BY <1>7 DEF Made
<1>9. \E u : /\ Become(u) /\ Made(u, thinking', calls) /\ u.seen = i /\ u.max = v.max
             /\ thinking' \in BOOLEAN
             /\ iter' = iter \/ (iter' = iter + 1 /\ ~ (iter >= v.max))
             /\ u = v \/ MayStep(v)
  <2>1. CASE StepBegin(v) /\ MayStep(v)
    BY <1>1, <1>2, <1>7, <1>8, <2>1, StepBeginMakes
  <2>2. CASE Become(v) /\ iter' = iter /\ thinking' = thinking
    BY <1>1, <1>7, <1>8, <2>2
  <2> QED BY <1>5, <2>1, <2>2
<1>10. PICK u : /\ Become(u) /\ Made(u, thinking', calls) /\ u.seen = i /\ u.max = v.max
                /\ thinking' \in BOOLEAN
                /\ iter' = iter \/ (iter' = iter + 1 /\ ~ (iter >= v.max))
                /\ u = v \/ MayStep(v)
  BY <1>9
<1>11. iter' \in Nat
  BY <1>1, <1>10
<1>12. ASSUME status # "no", u.state = "running", ~ crossed'
       PROVE  NoVerdict(u.log, u.seen)
  <2>1. ~ crossed /\ ~ MessageCrosses(i)
    BY <1>5, <1>12
  <2>2. u.log \in Seq(EventSet) /\ Len(u.log) \in Nat /\ Grows(log, u.log) /\ i \in Nat
    BY <1>2, <1>10, WorldFields DEF Made, WorldOK
  <2>3. NoVerdict(log, i)
    <3>1. CASE MayStep(v)
      <4>1. NoVerdict(v.log, i)
        BY <1>7, <3>1, MayStepNoVerdict
      <4>2. v.log \in Seq(EventSet) /\ Len(v.log) \in Nat
        BY <1>7, WorldFields DEF WorldOK
      <4> QED BY <1>2, <1>7, <2>1, <4>1, <4>2 DEF NoVerdict, Grows
    <3>2. CASE u = v /\ log[i].kind = "message"
      BY <1>2, <1>12, <2>1, <3>2 DEF MessageCrosses, NoVerdict
    <3>3. CASE u = v /\ agentState = "running"
      BY <1>1, <1>2, <1>3, <1>12, <2>1, <3>3 DEF StatusOK, NoVerdict
    <3>4. CASE u = v /\ agentState \in Verdicts
      BY <1>1, <1>2, <1>3, <2>1, <3>4 DEF VerdictOK, NoVerdict
    <3> QED BY <1>7, <1>10, <1>12, <3>1, <3>2, <3>3, <3>4
  <2> QED BY <1>2, <1>10, <2>2, <2>3, NoVerdictOn
<1>13. interrupted \in BOOLEAN /\ crossed \in BOOLEAN /\ crossed' \in BOOLEAN
  BY <1>5 DEF ControlInv, Shared
<1>14. ControlInv' /\ Grows(log, log') /\ max' = u.max
  BY <1>1, <1>5, <1>10, <1>11, <1>12, <1>13, ControlStep
<1> QED BY <1>3, <1>5, <1>7, <1>10, <1>14

\* The end of a step without a call.
LEMMA StepEndKeeps ==
    ASSUME ControlInv, NEW outcome \in Outcomes \ {"safe", "risky", "stuck", "budget"},
           StepEnd(outcome)
    PROVE  ControlInv' /\ Grows(log, log') /\ seen' = seen /\ max' = max /\ iter' = iter
<1> DEFINE w == World
<1>1. /\ thinking = TRUE /\ ending = "no" /\ calls \in Nat /\ iter \in Nat
      /\ WorldOK(w, TRUE, calls)
      /\ Announced(w.state, w.log) /\ AwaitOK(w.state, w.pending, TRUE)
      /\ w.log = log /\ w.seen = seen /\ w.max = max
  <2>1. thinking = TRUE
    BY DEF ControlInv, Shared, StepEnd
  <2>2. Busy = TRUE /\ Early = TRUE /\ ending = "no"
    BY <2>1 DEF Busy, Early, ControlInv, EndingOK
  <2> QED BY <2>1, <2>2, WorldNow DEF ControlInv, Shared
<1>2. /\ seen' = seen /\ iter' = iter /\ thinking' = FALSE /\ running' = running
      /\ executed' = executed /\ calls' = calls /\ ending' = ending /\ status' = status
      /\ interrupted' = interrupted /\ crossed' = crossed
  BY DEF StepEnd, rtVars
<1>3. outcome \in {"say", "ask", "finish", "reject", "malformed", "context",
                   "raise", "rate_limit"}
  BY InputsAssumption DEF AllOutcomes
<1>4. /\ outcome = "say" => Become(Emit(w, Event("say", 0, 0, "go")))
      /\ outcome = "ask" => Become(Emit(w, Event("say", 0, 0, "wait")))
      /\ outcome = "finish" => Become(Emit(w, Event("finish", 0, 0, "none")))
      /\ outcome = "reject" => Become(Emit(w, Event("reject", 0, 0, "none")))
      /\ outcome = "malformed" => Become(Emit(w, Event("error", 0, 0, "malformed")))
      /\ outcome = "context" => Become(Emit(w, Event("condense", 0, 0, "none")))
      /\ outcome = "rate_limit" => Become(SetAgentStateTo(w, "rate_limited"))
      /\ outcome = "raise" => Become(Fail(w))
  BY <1>3 DEF StepEnd
<1> HIDE DEF w
<1>5. /\ w \in WorldSet /\ w.log \in Seq(EventSet) /\ Len(w.log) \in Nat /\ w.pending \in ActionSet
      /\ VerdictOK(w.state, w.pending, w.log, w.seen, TRUE)
      /\ w.state # "awaiting_user_confirmation"
  BY <1>1, WorldFields DEF WorldOK, AwaitOK
<1>6. NoVerdict(w.log, w.seen)
  BY <1>5 DEF VerdictOK, NoVerdict
<1>7. WorldOK(w, FALSE, calls)
  BY <1>1, <1>6, NoVerdictOK DEF WorldOK
<1>8. ASSUME NEW e \in EventSet, e.kind \in {"say", "finish", "reject", "error", "condense"},
             e.cause = 0
      PROVE  Made(Emit(w, e), FALSE, calls) /\ Emit(w, e).seen = seen /\ Emit(w, e).max = max
  <2> DEFINE v == Emit(w, e)
  <2>1. v \in WorldSet /\ v.log = Append(w.log, e) /\ v.state = w.state /\ v.pending = w.pending
        /\ v.seen = seen /\ v.max = max
    BY <1>1, <1>5, EmitFields
  <2>2. WorldOK(v, FALSE, calls)
    <3>1. e.kind # "run" /\ ~ IsVerdict(e) /\ e.kind # "change" /\ e.cause <= Len(w.log)
      BY <1>5, <1>8 DEF IsVerdict
    <3> QED BY <1>1, <1>6, <1>7, <3>1, EmitKeeps
  <2> HIDE DEF v
  <2>3. Announced(v.state, v.log)
    BY <1>1, <1>5, <1>8, <2>1, AnnouncedGrows
  <2>4. AwaitOK(v.state, v.pending, FALSE)
    BY <1>5, <2>1 DEF AwaitOK
  <2>5. Grows(log, v.log)
    BY <1>1, <1>5, <1>8, <2>1, GrowsAppend
  <2> QED BY <2>1, <2>2, <2>3, <2>4, <2>5 DEF Made, v
<1>9. \E v : Become(v) /\ Made(v, FALSE, calls) /\ v.seen = seen /\ v.max = max
  <2>1. CASE outcome \in {"say", "ask", "finish", "reject", "malformed", "context"}
    <3>1. {"say", "finish", "reject", "error", "condense"} \subseteq Kinds
          /\ {"go", "wait", "none", "malformed"} \subseteq Args
      BY DEF Kinds, Args
    <3>2. \E e : /\ e \in EventSet /\ e.kind \in {"say", "finish", "reject", "error", "condense"}
                 /\ e.cause = 0 /\ Become(Emit(w, e))
      <4>1. ASSUME NEW k \in {"say", "finish", "reject", "error", "condense"},
                   NEW a \in {"go", "wait", "none", "malformed"}
            PROVE  Event(k, 0, 0, a) \in EventSet /\ Event(k, 0, 0, a).kind = k
                   /\ Event(k, 0, 0, a).cause = 0
        BY <3>1, EventType
      <4>2. \E k \in {"say", "finish", "reject", "error", "condense"},
               a \in {"go", "wait", "none", "malformed"} : Become(Emit(w, Event(k, 0, 0, a)))
        BY <1>4, <2>1
      <4> QED BY <4>1, <4>2
    <3>3. PICK e : /\ e \in EventSet /\ e.kind \in {"say", "finish", "reject", "error", "condense"}
                   /\ e.cause = 0 /\ Become(Emit(w, e))
      BY <3>2
    <3>4. Made(Emit(w, e), FALSE, calls) /\ Emit(w, e).seen = seen /\ Emit(w, e).max = max
      BY <1>8, <3>3
    <3> QED BY <3>3, <3>4
  <2>2. CASE outcome = "rate_limit"
    <3> DEFINE v == SetAgentStateTo(w, "rate_limited")
    <3>1. "rate_limited" \in States /\ MayBecome(w, "rate_limited")
      BY DEF States, MayBecome, Verdicts
    <3>2. /\ WorldOK(v, FALSE, calls) /\ v.state = "rate_limited" /\ v.seen = w.seen
          /\ Grows(w.log, v.log) /\ v.max = w.max
          /\ Announced(v.state, v.log)
      BY <1>1, <1>7, <3>1, SetKeeps
    <3>3. Become(v)
      BY <1>4, <2>2
    <3> HIDE DEF v
    <3>4. Made(v, FALSE, calls)
      BY <1>1, <3>2, <3>3 DEF Made, AwaitOK
    <3> QED BY <1>1, <3>2, <3>3, <3>4
  <2>3. CASE outcome = "raise"
    <3> DEFINE v == Fail(w)
    <3>1. Made(v, FALSE, calls) /\ v.seen = w.seen /\ v.max = w.max
      BY <1>1, <1>5, <1>7, FailMakes, GrowsSame
    <3>2. Become(v)
      BY <1>4, <2>3
    <3> HIDE DEF v
    <3> QED BY <1>1, <3>1, <3>2
  <2> QED BY <1>3, <2>1, <2>2, <2>3
<1>10. PICK v : Become(v) /\ Made(v, FALSE, calls) /\ v.seen = seen /\ v.max = max
  BY <1>9
<1>11. NoVerdict(v.log, v.seen)
  <2>1. v.log \in Seq(EventSet) /\ Grows(log, v.log)
    BY <1>10, WorldFields DEF Made, WorldOK
  <2> QED BY <1>1, <1>5, <1>6, <1>10, <2>1, NoVerdictOn, WorldFields
<1>12. interrupted \in BOOLEAN /\ crossed' \in BOOLEAN /\ thinking' = FALSE
  BY <1>2 DEF ControlInv, Shared
<1>13. ControlInv' /\ Grows(log, log') /\ max' = v.max
  BY <1>1, <1>2, <1>10, <1>11, <1>12, ControlStep
<1> QED BY <1>2, <1>10, <1>13

\* What the invariant says of the variables.
LEMMA ControlFacts ==
    ASSUME ControlInv
    PROVE  /\ World \in WorldSet /\ WorldOK(World, Busy, calls)
           /\ agentState \in States /\ pending \in ActionSet /\ max \in Nat /\ hit \in BOOLEAN
           /\ log \in Seq(EventSet) /\ Len(log) \in Nat /\ seen \in Nat /\ seen <= Len(log)
           /\ alarms \in Nat /\ calls \in Nat /\ iter \in Nat /\ running \in 0 .. Len(log)
           /\ \A x \in executed : x \in 1 .. Len(log) /\ IsGo(log[x])
           /\ LogOK(log, calls) /\ PendingOK(pending, log, calls)
           /\ VerdictOK(agentState, pending, log, seen, Busy)
<1>1. WorldOK(World, Busy, calls) /\ Shared
  BY DEF ControlInv
<1>2. /\ World \in WorldSet /\ seen <= Len(log) /\ LogOK(log, calls)
      /\ PendingOK(pending, log, calls) /\ VerdictOK(agentState, pending, log, seen, Busy)
  BY <1>1, WorldNow DEF WorldOK
<1>3. /\ agentState \in States /\ pending \in ActionSet /\ max \in Nat /\ hit \in BOOLEAN
      /\ log \in Seq(EventSet) /\ Len(log) \in Nat /\ seen \in Nat /\ alarms \in Nat
  BY <1>2, WorldNow, WorldFields
<1> QED BY <1>1, <1>2, <1>3 DEF Shared

\* agent.step has returned a call, which is new to the stream.
LEMMA TakeKeeps ==
    ASSUME ControlInv, NEW outcome \in Outcomes \cap {"safe", "risky"}, TakeAction(outcome)
    PROVE  ControlInv' /\ Grows(log, log') /\ seen' = seen /\ max' = max /\ iter' = iter
<1> DEFINE a == [id |-> 0, kind |-> "run", call |-> calls + 1,
                 arg |-> IF outcome = "risky" /\ ConfirmationMode THEN "awaiting" ELSE "none"]
           v == [World EXCEPT !.pending = a]
           cl == calls + 1
<1>1. /\ thinking = TRUE /\ Busy = TRUE /\ Early = TRUE /\ ending = "no"
  BY DEF TakeAction, Busy, Early, ControlInv, Shared, EndingOK
<1>2. /\ World \in WorldSet /\ log \in Seq(EventSet) /\ Len(log) \in Nat /\ seen \in Nat
      /\ seen <= Len(log) /\ calls \in Nat /\ LogOK(log, calls) /\ NoVerdict(log, seen)
      /\ running \in 0 .. Len(log) /\ \A x \in executed : x \in 1 .. Len(log) /\ IsGo(log[x])
      /\ agentState # "awaiting_user_confirmation" /\ cl \in Nat /\ iter \in Nat
  BY <1>1, ControlFacts DEF VerdictOK, NoVerdict, ControlInv, AwaitOK
<1>3. /\ thinking' = FALSE /\ calls' = cl /\ pending' = a /\ agentState' = agentState
      /\ ending' = IF outcome = "risky" /\ ConfirmationMode THEN "asking" ELSE "taken"
      /\ interrupted' = (status # "no") /\ status' = status /\ log' = log /\ seen' = seen
      /\ max' = max /\ iter' = iter /\ hit' = hit /\ alarms' = alarms /\ crossed' = crossed
      /\ running' = running /\ executed' = executed
  BY DEF TakeAction, rtVars
<1>4. a \in ActionSet /\ a.id = 0 /\ a.kind = "run" /\ a.call = cl
      /\ a.arg = IF ending' = "taken" THEN "none" ELSE "awaiting"
  BY <1>2, <1>3 DEF ActionSet, Args
<1>5. \A i \in 1 .. Len(log) : log[i].kind = "run" => log[i].call # cl
  BY <1>2 DEF LogOK, EventsOK
<1>6. a = [id |-> 0, kind |-> "run", call |-> calls', arg |-> IF ending' = "taken" THEN "none" ELSE "awaiting"]
  BY <1>3
<1> HIDE DEF a
<1>7. /\ v \in WorldSet /\ v.state = agentState /\ v.pending = a /\ v.log = log /\ v.seen = seen
      /\ v.max = max /\ v.hit = hit /\ v.alarms = alarms
  BY <1>2, <1>4, WorldNow DEF WorldSet
<1> HIDE DEF v
<1>8. LogOK(log, cl)
  BY <1>2 DEF LogOK, EventsOK
<1>9. PendingOK(a, log, cl)
  BY <1>2, <1>4, <1>5 DEF PendingOK, IsGo, IsAsk
<1>10. WorldOK(v, Busy, cl)
  BY <1>2, <1>7, <1>8, <1>9, NoVerdictOK DEF WorldOK
<1>11. Become(v) /\ Busy' = Busy
  BY <1>1, <1>3, <1>7 DEF Become, Busy
<1> HIDE DEF cl
<1>12. /\ {interrupted', crossed'} \subseteq BOOLEAN /\ status' \in {"no", "entered", "answered"}
       /\ ending' \in {"no", "taken", "asking", "asked"}
  BY <1>3 DEF ControlInv, Shared
<1>13. Shared' /\ (WorldOK(World, Busy, calls))'
  <2>1. /\ Len(log) <= Len(v.log) /\ \A i \in 1 .. Len(log) : v.log[i] = log[i]
        /\ cl \in Nat /\ WorldOK(v, Busy, cl) /\ Become(v) /\ Busy' = Busy
    BY <1>2, <1>7, <1>10, <1>11
  <2>2. /\ seen' = v.seen /\ calls' = cl /\ (crossed => crossed')
        /\ iter' \in Nat /\ thinking' \in BOOLEAN
    BY <1>2, <1>3, <1>7
  <2>3. /\ running' \in 0 .. Len(log) /\ \A x \in executed' : x \in 1 .. Len(log) /\ IsGo(log[x])
    BY <1>2, <1>3
  <2> QED BY <1>12, <2>1, <2>2, <2>3, NextWorld
<1>14. (Announced(agentState, log))'
  BY <1>1, <1>3 DEF ControlInv, Announced, Told
<1>15. (AwaitOK(agentState, pending, Early))'
  BY <1>2, <1>3 DEF AwaitOK
<1>16. (StatusOK(agentState, log, seen))'
  BY <1>2, <1>3 DEF StatusOK, NoVerdict
<1>17. (EndingOK(pending, log))'
  <2>1. calls' \in 1 .. calls' /\ \A i \in 1 .. Len(log') : log'[i].kind = "run" => log'[i].call # calls'
    BY <1>2, <1>3, <1>5 DEF cl
  <2>2. pending' # NoAction
    BY <1>3, <1>4, NoActionType
  <2> QED BY <1>3, <1>6, <2>1, <2>2 DEF EndingOK
<1> QED BY <1>2, <1>3, <1>13, <1>14, <1>15, <1>16, <1>17, GrowsSame DEF ControlInv

\* The state that waits for the verdict comes before the question.
LEMMA AskKeeps ==
    ASSUME ControlInv, AskConfirmation
    PROVE  ControlInv' /\ Grows(log, log') /\ seen' = seen /\ max' = max /\ iter' = iter
<1> DEFINE new == "awaiting_user_confirmation"
           v == [World EXCEPT !.state = new]
<1>1. /\ ending = "asking" /\ ending' = "asked" /\ Busy = TRUE /\ thinking = FALSE
      /\ status # "no" \/ pending = NoAction => interrupted
      /\ pending = NoAction \/ (pending.kind = "run" /\ pending.arg = "awaiting")
  BY DEF AskConfirmation, Busy, ControlInv, EndingOK, Shared
<1>2. /\ World \in WorldSet /\ WorldOK(World, Busy, calls) /\ log \in Seq(EventSet)
      /\ Len(log) \in Nat /\ calls \in Nat /\ NoVerdict(log, seen) /\ iter \in Nat
      /\ running \in 0 .. Len(log) /\ \A x \in executed : x \in 1 .. Len(log) /\ IsGo(log[x])
  BY <1>1, ControlFacts DEF VerdictOK, NoVerdict
<1>3. /\ thinking' = FALSE /\ calls' = calls /\ pending' = pending /\ agentState' = new
      /\ interrupted' = interrupted /\ status' = status /\ log' = log /\ seen' = seen
      /\ max' = max /\ iter' = iter /\ hit' = hit /\ alarms' = alarms /\ crossed' = crossed
      /\ running' = running /\ executed' = executed
  BY <1>1 DEF AskConfirmation, rtVars
<1>4. new \in States
  BY DEF States
<1>5. /\ WorldOK(v, Busy, calls) /\ v.state = new /\ v.pending = pending /\ v.log = log
      /\ v.seen = seen /\ v.max = max /\ v.hit = hit
  BY <1>2, <1>4, WorldNow, StateKeeps
<1>6. v.alarms = alarms
  BY <1>2, WorldNow DEF WorldSet
<1> HIDE DEF v
<1>7. Become(v) /\ Busy' = Busy /\ Early' = FALSE
  BY <1>1, <1>3, <1>5, <1>6 DEF Become, Busy, Early
<1>8. /\ {interrupted', crossed'} \subseteq BOOLEAN /\ status' \in {"no", "entered", "answered"}
  BY <1>3 DEF ControlInv, Shared
<1>9. Shared' /\ (WorldOK(World, Busy, calls))'
  <2>1. /\ Len(log) <= Len(v.log) /\ \A i \in 1 .. Len(log) : v.log[i] = log[i]
        /\ calls \in Nat /\ WorldOK(v, Busy, calls) /\ Become(v) /\ Busy' = Busy
    BY <1>2, <1>5, <1>7
  <2>2. /\ seen' = v.seen /\ calls' = calls /\ (crossed => crossed')
        /\ iter' \in Nat /\ thinking' \in BOOLEAN
    BY <1>2, <1>3, <1>5
  <2>3. /\ ending' \in {"no", "taken", "asking", "asked"} /\ {interrupted', crossed'} \subseteq BOOLEAN
        /\ status' \in {"no", "entered", "answered"}
    BY <1>1, <1>8
  <2>4. /\ running' \in 0 .. Len(log) /\ \A x \in executed' : x \in 1 .. Len(log) /\ IsGo(log[x])
    BY <1>2, <1>3
  <2> QED BY <2>1, <2>2, <2>3, <2>4, NextWorld
<1>10. (Announced(agentState, log))'
  BY <1>1 DEF Announced
<1>11. (AwaitOK(agentState, pending, Early))'
  BY <1>1, <1>3, <1>7 DEF AwaitOK
<1>12. (StatusOK(agentState, log, seen))'
  BY <1>3 DEF StatusOK
<1>13. (EndingOK(pending, log))'
  BY <1>1, <1>3 DEF ControlInv, EndingOK
<1> QED BY <1>2, <1>3, <1>9, <1>10, <1>11, <1>12, <1>13, GrowsSame DEF ControlInv

\* The call gets on the stream, for the first time.
LEMMA PutKeeps ==
    ASSUME ControlInv, PutAction
    PROVE  ControlInv' /\ Grows(log, log') /\ seen' = seen /\ max' = max /\ iter' = iter
<1> DEFINE action == Event("run", 0, calls, IF ending = "asked" THEN "awaiting" ELSE "none")
           w == IF ending = "asked" THEN Announce(World) ELSE World
           v == IF pending = NoAction THEN Emit(w, action) ELSE EmitPending(w)
           st == Event("state", 0, 0, agentState)
<1>1. /\ ending \in {"taken", "asked"} /\ ending' = "no" /\ Busy = TRUE /\ thinking = FALSE
      /\ calls \in 1 .. calls
      /\ \A i \in 1 .. Len(log) : log[i].kind = "run" => log[i].call # calls
      /\ status # "no" \/ pending = NoAction => interrupted
      /\ pending = NoAction \/ pending = [id |-> 0, kind |-> "run", call |-> calls,
                                          arg |-> IF ending = "taken" THEN "none" ELSE "awaiting"]
  BY DEF PutAction, Busy, ControlInv, EndingOK, Shared
<1>2. /\ World \in WorldSet /\ WorldOK(World, TRUE, calls) /\ log \in Seq(EventSet)
      /\ Len(log) \in Nat /\ calls \in Nat /\ NoVerdict(log, seen) /\ agentState \in States
      /\ running \in 0 .. Len(log) /\ \A x \in executed : x \in 1 .. Len(log) /\ IsGo(log[x])
      /\ seen \in Nat /\ iter \in Nat
  BY <1>1, ControlFacts DEF VerdictOK, NoVerdict
<1>3. /\ Become(v) /\ thinking' = FALSE /\ calls' = calls /\ seen' = seen /\ iter' = iter
      /\ interrupted' = interrupted /\ status' = status /\ crossed' = crossed
      /\ running' = running /\ executed' = executed
  BY <1>1 DEF PutAction, rtVars
<1>4. WorldOK(World, FALSE, calls)
  BY <1>2, WorldNow, NoVerdictOK DEF WorldOK
<1>5. st \in EventSet /\ st.kind = "state" /\ st.arg = agentState
  <2>1. "state" \in Kinds /\ agentState \in Args
    BY <1>2 DEF Kinds, Args
  <2> QED BY <2>1, EventType
<1>6. action \in EventSet /\ action.kind = "run" /\ action.call = calls
  <2>1. "run" \in Kinds /\ {"awaiting", "none"} \subseteq Args
    BY DEF Kinds, Args
  <2> QED BY <1>2, <2>1, EventType
<1>7. w = IF ending = "asked" THEN Emit(World, st) ELSE World
  BY WorldNow DEF Announce
<1> HIDE DEF st, action, w
<1>8. /\ WorldOK(w, FALSE, calls) /\ w.state = agentState /\ w.pending = pending
      /\ w.seen = seen /\ w.max = max /\ w \in WorldSet /\ w.log \in Seq(EventSet)
      /\ Grows(log, w.log) /\ NoVerdict(w.log, seen)
      /\ \A i \in 1 .. Len(w.log) : w.log[i].kind = "run" => w.log[i].call # calls
      /\ status = "no" => Told(agentState, w.log)
  <2>1. CASE ending = "asked"
    <3>1. w = Emit(World, st) /\ ~ IsVerdict(st) /\ st.kind \notin Observations
      BY <1>5, <1>7, <2>1 DEF IsVerdict, Observations
    <3>2. WorldOK(w, FALSE, calls)
      BY <1>2, <1>4, <1>5, <3>1, EmitKeeps
    <3>3. /\ w \in WorldSet /\ w.log = Append(log, st) /\ w.state = agentState
          /\ w.pending = pending /\ w.seen = seen /\ w.max = max
      BY <1>2, <1>5, <3>1, WorldNow, EmitFields
    <3>4. Grows(log, w.log) /\ NoVerdict(w.log, seen) /\ w.log \in Seq(EventSet)
      BY <1>2, <1>5, <3>1, <3>3, GrowsAppend, NoVerdictGrows, LogAppends
    <3>5. \A i \in 1 .. Len(w.log) : w.log[i].kind = "run" => w.log[i].call # calls
      BY <1>1, <1>2, <1>5, <3>3, LogAppends
    <3>6. Told(agentState, w.log)
      BY <1>2, <1>5, <3>3, ToldGrows
    <3> QED BY <3>2, <3>3, <3>4, <3>5, <3>6
  <2>2. CASE ending # "asked"
    <3>1. w = World
      BY <1>7, <2>2
    <3>2. status = "no" => Told(agentState, log)
      BY <2>2 DEF ControlInv, Announced
    <3> QED BY <1>1, <1>2, <1>4, <3>1, <3>2, WorldNow, GrowsSame
  <2> QED BY <2>1, <2>2
<1>9. \E e \in EventSet : e.kind = "run" /\ v.log = Append(w.log, e)
      /\ WorldOK(v, FALSE, calls) /\ v.state = agentState /\ v.seen = seen /\ v.max = max
      /\ (v.pending = pending \/ (ending = "asked" => v.pending.kind = "run" /\ v.pending.arg = "awaiting"))
  <2>1. CASE pending = NoAction
    <3>1. v = Emit(w, action)
      BY <2>1
    <3> HIDE DEF v
    <3>2. WorldOK(v, FALSE, calls)
      BY <1>1, <1>2, <1>6, <1>8, <2>1, <3>1, EmitRunKeeps
    <3> QED BY <1>6, <1>8, <3>1, <3>2, EmitFields
  <2>2. CASE pending # NoAction
    <3> DEFINE e == Event(w.pending.kind, 0, w.pending.call, w.pending.arg)
    <3>1. v = EmitPending(w)
      BY <2>2
    <3> HIDE DEF v
    <3>2. /\ w.pending.kind = "run" /\ w.pending.call = calls
          /\ w.pending.arg = IF ending = "taken" THEN "none" ELSE "awaiting"
      BY <1>1, <1>8, <2>2
    <3>3. /\ e \in EventSet /\ e.kind = "run" /\ v.log = Append(w.log, e)
          /\ v.pending.kind = "run" /\ v.pending.arg = w.pending.arg
          /\ v.state = w.state /\ v.seen = w.seen /\ v.max = w.max
      BY <1>8, <3>1, <3>2, EmitPendingFields
    <3> HIDE DEF e
    <3>4. \A i \in 1 .. Len(w.log) : w.log[i].call = w.pending.call =>
             ~ IsGo(w.log[i]) /\ ~ IsAsk(w.log[i])
      BY <1>8, <3>2 DEF IsGo, IsAsk
    <3>5. w.seen <= Len(w.log) /\ LogOK(w.log, calls)
      BY <1>8 DEF WorldOK
    <3>6. WorldOK(EmitPending(w), FALSE, calls)
      BY <1>1, <1>2, <1>8, <3>2, <3>4, <3>5, EmitPendingKeeps
    <3> QED BY <1>1, <1>8, <3>1, <3>2, <3>3, <3>6
  <2> QED BY <2>1, <2>2
<1> HIDE DEF v
<1>10. PICK e \in EventSet : e.kind = "run" /\ v.log = Append(w.log, e)
         /\ WorldOK(v, FALSE, calls) /\ v.state = agentState /\ v.seen = seen /\ v.max = max
         /\ (v.pending = pending \/ (ending = "asked" => v.pending.kind = "run" /\ v.pending.arg = "awaiting"))
  BY <1>9
<1>11. v.log \in Seq(EventSet) /\ Grows(log, v.log) /\ NoVerdict(v.log, seen)
       /\ (status = "no" => Told(agentState, v.log))
  <2>1. v.log \in Seq(EventSet) /\ Grows(w.log, v.log)
    BY <1>8, <1>10, LogAppends, GrowsAppend
  <2>2. Grows(log, v.log)
    BY <1>2, <1>8, <2>1, GrowsOn
  <2>3. NoVerdict(v.log, seen)
    BY <1>2, <2>1, <2>2, NoVerdictOn
  <2>4. status = "no" => Told(agentState, v.log)
    BY <1>8, <1>10, ToldGrows
  <2> QED BY <2>1, <2>2, <2>3, <2>4
<1>12. Busy' = FALSE /\ Early' = FALSE
  BY <1>1, <1>3 DEF Busy, Early
<1>13. /\ {interrupted', crossed'} \subseteq BOOLEAN /\ status' \in {"no", "entered", "answered"}
  BY <1>3 DEF ControlInv, Shared
<1>14. /\ Shared' /\ (WorldOK(World, Busy, calls))' /\ max' = max
       /\ agentState' = agentState /\ pending' = v.pending /\ log' = v.log
  <2>1. Len(log) <= Len(v.log) /\ \A i \in 1 .. Len(log) : v.log[i] = log[i]
    BY <1>11 DEF Grows
  <2> QED BY <1>1, <1>2, <1>3, <1>10, <1>12, <1>13, <2>1, NextWorld
<1>15. (Announced(agentState, log))'
  BY <1>3, <1>11, <1>14 DEF Announced, Told
<1>16. (AwaitOK(agentState, pending, Early))'
  <2>1. AwaitOK(agentState, pending, Early)
    BY DEF ControlInv
  <2> QED BY <1>1, <1>3, <1>10, <1>12, <1>14, <2>1 DEF AwaitOK, Early
<1>17. (StatusOK(agentState, log, seen))'
  BY <1>3, <1>11, <1>14 DEF StatusOK, NoVerdict
<1>18. (EndingOK(pending, log))'
  BY <1>1 DEF EndingOK
<1> QED BY <1>3, <1>11, <1>14, <1>15, <1>16, <1>17, <1>18 DEF ControlInv

\* An event of the runtime, of the memory or of the user, if it is no verdict.
LEMMA EmitStep ==
    ASSUME ControlInv, NEW e \in EventSet, e.kind \notin {"run", "state"}, ~ IsVerdict(e),
           e.kind \in Observations => e.cause <= Len(log),
           e.kind = "change" => e.arg \in {"stopped", "paused"},
           log' = Append(log, e), UNCHANGED <<ctlVars, alarms, executed, status>>,
           running' \in 0 .. Len(log)
    PROVE  ControlInv'
<1> DEFINE v == Emit(World, e)
<1>1. /\ World \in WorldSet /\ WorldOK(World, Busy, calls) /\ log \in Seq(EventSet)
      /\ Len(log) \in Nat /\ calls \in Nat /\ seen \in Nat
      /\ \A x \in executed : x \in 1 .. Len(log) /\ IsGo(log[x])
  BY ControlFacts
<1>2. /\ v \in WorldSet /\ v.log = Append(log, e) /\ v.state = agentState /\ v.pending = pending
      /\ v.max = max /\ v.hit = hit /\ v.seen = seen /\ v.alarms = alarms
  BY <1>1, WorldNow, EmitFields
<1>3. WorldOK(v, Busy, calls)
  BY <1>1, WorldNow, EmitKeeps
<1> HIDE DEF v
<1>4. /\ agentState' = agentState /\ pending' = pending /\ seen' = seen /\ thinking' = thinking
      /\ ending' = ending /\ status' = status /\ interrupted' = interrupted
      /\ crossed' = crossed /\ calls' = calls /\ iter' = iter /\ executed' = executed
      /\ max' = max /\ hit' = hit /\ alarms' = alarms
  BY DEF ctlVars
<1>5. Become(v) /\ Busy' = Busy /\ Early' = Early
  BY <1>2, <1>4 DEF Become, Busy, Early
<1>6. /\ thinking' \in BOOLEAN /\ iter' \in Nat /\ {interrupted', crossed'} \subseteq BOOLEAN
      /\ ending' \in {"no", "taken", "asking", "asked"} /\ status' \in {"no", "entered", "answered"}
  BY <1>4 DEF ControlInv, Shared
<1>7. Len(log) <= Len(v.log) /\ \A i \in 1 .. Len(log) : v.log[i] = log[i]
  BY <1>1, <1>2, LogAppends
<1>8. Shared' /\ (WorldOK(World, Busy, calls))'
  BY <1>1, <1>2, <1>3, <1>4, <1>5, <1>6, <1>7, NextWorld
<1>9. (Announced(agentState, log))'
  <2>1. Announced(agentState, Append(log, e))
    BY <1>1, AnnouncedGrows DEF ControlInv
  <2> QED BY <1>4, <2>1 DEF Announced, Told
<1>10. (AwaitOK(agentState, pending, Early))'
  BY <1>4, <1>5 DEF ControlInv, AwaitOK
<1>11. (StatusOK(agentState, log, seen))'
  <2>1. StatusOK(agentState, Append(log, e), seen)
    BY <1>1, NoVerdictGrows DEF ControlInv, StatusOK
  <2> QED BY <1>4, <2>1 DEF StatusOK, NoVerdict
<1>12. (EndingOK(pending, log))'
  <2>1. EndingOK(pending, Append(log, e))
    BY <1>1, LogAppends DEF ControlInv, EndingOK
  <2> QED BY <1>4, <2>1 DEF EndingOK
<1> QED BY <1>8, <1>9, <1>10, <1>11, <1>12 DEF ControlInv

\* A step that leaves the stream and the controller alone.
LEMMA QuietStep ==
    ASSUME ControlInv, log' = log, UNCHANGED <<ctlVars, status>>, alarms' \in Nat,
           running' \in 0 .. Len(log), \A x \in executed' : x \in 1 .. Len(log) /\ IsGo(log[x])
    PROVE  ControlInv'
<1> DEFINE v == [World EXCEPT !.alarms = alarms']
<1>1. /\ World \in WorldSet /\ WorldOK(World, Busy, calls) /\ Len(log) \in Nat /\ calls \in Nat
  BY ControlFacts
<1>2. /\ v \in WorldSet /\ v.log = log /\ v.state = agentState /\ v.pending = pending
      /\ v.max = max /\ v.hit = hit /\ v.seen = seen /\ v.alarms = alarms'
  BY <1>1, WorldNow DEF WorldSet
<1> HIDE DEF v
<1>3. WorldOK(v, Busy, calls)
  BY <1>1, <1>2, WorldNow, SameWorld
<1>4. /\ agentState' = agentState /\ pending' = pending /\ seen' = seen /\ thinking' = thinking
      /\ ending' = ending /\ status' = status /\ interrupted' = interrupted
      /\ crossed' = crossed /\ calls' = calls /\ iter' = iter /\ max' = max /\ hit' = hit
  BY DEF ctlVars
<1>5. Become(v) /\ Busy' = Busy /\ Early' = Early
  BY <1>2, <1>4 DEF Become, Busy, Early
<1>6. /\ thinking' \in BOOLEAN /\ iter' \in Nat /\ {interrupted', crossed'} \subseteq BOOLEAN
      /\ ending' \in {"no", "taken", "asking", "asked"} /\ status' \in {"no", "entered", "answered"}
  BY <1>4 DEF ControlInv, Shared
<1>7. Shared' /\ (WorldOK(World, Busy, calls))'
  BY <1>1, <1>2, <1>3, <1>4, <1>5, <1>6, NextWorld
<1>8. (Announced(agentState, log))'
  BY <1>4 DEF ControlInv, Announced, Told
<1>9. (AwaitOK(agentState, pending, Early))'
  BY <1>4, <1>5 DEF ControlInv, AwaitOK
<1>10. (StatusOK(agentState, log, seen))'
  BY <1>4 DEF ControlInv, StatusOK, NoVerdict
<1>11. (EndingOK(pending, log))'
  BY <1>4 DEF ControlInv, EndingOK
<1> QED BY <1>7, <1>8, <1>9, <1>10, <1>11 DEF ControlInv

\* The runtime executes what may go to execution, and answers what was there.
LEMMA RuntimeKeeps ==
    ASSUME ControlInv, Runtime
    PROVE  ControlInv' /\ Grows(log, log') /\ seen' = seen /\ max' = max /\ iter' = iter
<1>1. log \in Seq(EventSet)
  BY ControlFacts
<1>2. /\ log \in Seq(EventSet) /\ Len(log) \in Nat /\ alarms \in Nat /\ running \in 0 .. Len(log)
      /\ \A x \in executed : x \in 1 .. Len(log) /\ IsGo(log[x])
      /\ \A i \in 1 .. Len(log) : log[i] \in EventSet
  BY <1>1, ControlFacts
<1>3. ASSUME NEW i \in 1 .. Len(log), NEW a \in {"none", "rejected"}
      PROVE  LET e == Event("observation", i, log[i].call, a)
             IN  /\ e \in EventSet /\ e.kind = "observation" /\ e.cause <= Len(log)
                 /\ Grows(log, Append(log, e))
  <2> DEFINE e == Event("observation", i, log[i].call, a)
  <2>1. "observation" \in Kinds /\ a \in Args /\ log[i].call \in Nat /\ i \in Nat
    BY <1>2 DEF Kinds, Args, EventSet
  <2>2. e \in EventSet /\ e.kind = "observation" /\ e.cause = i
    BY <2>1, EventType
  <2> HIDE DEF e
  <2>3. Grows(log, Append(log, e))
    BY <1>2, <2>2, GrowsAppend
  <2> QED BY <1>2, <2>2, <2>3 DEF e
<1>4. ASSUME NEW i \in 1 .. Len(log), RuntimeTake(i)
      PROVE  ControlInv' /\ Grows(log, log')
  <2>1. UNCHANGED <<ctlVars, alarms, status>> /\ log[i].kind = "run" /\ running = 0
    BY <1>4 DEF RuntimeTake, NextOf
  <2>2. CASE log[i].arg = "awaiting" /\ UNCHANGED <<log, running, executed>>
    BY <1>2, <2>1, <2>2, QuietStep, GrowsSame
  <2>3. CASE /\ log' = Append(log, Event("observation", i, log[i].call, "rejected"))
             /\ UNCHANGED <<running, executed>>
    <3> DEFINE e == Event("observation", i, log[i].call, "rejected")
    <3>1. /\ e \in EventSet /\ e.kind = "observation" /\ e.cause <= Len(log)
          /\ Grows(log, Append(log, e)) /\ log' = Append(log, e)
      BY <1>3, <2>3
    <3> HIDE DEF e
    <3>2. ~ IsVerdict(e) /\ running' \in 0 .. Len(log)
      BY <1>2, <2>3, <3>1 DEF IsVerdict
    <3> QED BY <2>1, <2>3, <3>1, <3>2, EmitStep
  <2>4. CASE /\ log[i].arg \notin {"awaiting", "rejected"} /\ running' = i
             /\ executed' = executed \cup {i} /\ UNCHANGED log
    <3>1. IsGo(log[i])
      BY <2>1, <2>4 DEF IsGo
    <3>2. \A x \in executed' : x \in 1 .. Len(log) /\ IsGo(log[x])
      BY <1>2, <2>4, <3>1
    <3>3. running' \in 0 .. Len(log)
      BY <1>2, <2>4
    <3> QED BY <1>2, <2>1, <2>4, <3>2, <3>3, QuietStep, GrowsSame
  <2> QED BY <1>4, <2>2, <2>3, <2>4 DEF RuntimeTake
<1>5. ASSUME RuntimeObserve
      PROVE  ControlInv' /\ Grows(log, log')
  <2>1. running \in 1 .. Len(log) /\ UNCHANGED <<ctlVars, alarms, executed, status>> /\ running' = 0
    BY <1>2, <1>5 DEF RuntimeObserve
  <2> DEFINE e == Event("observation", running, log[running].call, "none")
  <2>2. /\ e \in EventSet /\ e.kind = "observation" /\ e.cause <= Len(log)
        /\ Grows(log, Append(log, e)) /\ log' = Append(log, e)
    BY <1>3, <1>5, <2>1 DEF RuntimeObserve
  <2> HIDE DEF e
  <2>3. ~ IsVerdict(e) /\ running' \in 0 .. Len(log)
    BY <1>2, <2>1, <2>2 DEF IsVerdict
  <2> QED BY <2>1, <2>2, <2>3, EmitStep
<1>6. ASSUME RuntimeFail
      PROVE  ControlInv' /\ Grows(log, log')
  <2>1. /\ log' = log /\ UNCHANGED <<ctlVars, status>> /\ alarms' \in Nat
        /\ running' \in 0 .. Len(log) /\ executed' = executed
    BY <1>2, <1>6 DEF RuntimeFail
  <2> QED BY <1>2, <2>1, QuietStep, GrowsSame
<1>7. seen' = seen /\ max' = max /\ iter' = iter
  BY DEF Runtime, RuntimeTake, RuntimeObserve, RuntimeFail, ctlVars
<1> QED BY <1>4, <1>5, <1>6, <1>7 DEF Runtime

\* The memory answers what was there.
LEMMA MemoryKeeps ==
    ASSUME ControlInv, Memory
    PROVE  ControlInv' /\ Grows(log, log') /\ seen' = seen /\ max' = max /\ iter' = iter
<1>2. /\ log \in Seq(EventSet) /\ Len(log) \in Nat /\ alarms \in Nat /\ running \in 0 .. Len(log)
      /\ \A x \in executed : x \in 1 .. Len(log) /\ IsGo(log[x])
  BY ControlFacts
<1>3. ASSUME NEW i \in 1 .. Len(log), NEW kind \in {"observation", "null"}, MemoryAnswer(i, kind)
      PROVE  ControlInv' /\ Grows(log, log')
  <2> DEFINE e == Event(kind, i, 0, "none")
  <2>1. kind \in Kinds /\ "none" \in Args /\ i \in Nat
    BY <1>2 DEF Kinds, Args
  <2>2. e \in EventSet /\ e.kind = kind /\ e.cause = i
    BY <2>1, EventType
  <2>3. /\ log' = Append(log, e) /\ UNCHANGED <<ctlVars, alarms, executed, status>>
        /\ running' = running
    BY <1>3 DEF MemoryAnswer, rtVars
  <2> HIDE DEF e
  <2>4. e.kind \notin {"run", "state"} /\ ~ IsVerdict(e) /\ e.cause <= Len(log)
        /\ e.kind # "message" /\ e.kind # "change" /\ running' \in 0 .. Len(log)
    BY <1>2, <2>2, <2>3 DEF IsVerdict
  <2> QED BY <1>2, <2>2, <2>3, <2>4, EmitStep, GrowsAppend
<1>4. ASSUME \/ \E i \in 1 .. Len(log) : MemoryFail(i)
             \/ MemoryStatus
      PROVE  ControlInv' /\ Grows(log, log')
  <2>1. /\ log' = log /\ UNCHANGED <<ctlVars, status>> /\ alarms' \in Nat
        /\ running' \in 0 .. Len(log) /\ executed' = executed
    BY <1>2, <1>4 DEF MemoryFail, MemoryStatus, rtVars
  <2> QED BY <1>2, <2>1, QuietStep, GrowsSame
<1>5. seen' = seen /\ max' = max /\ iter' = iter
  BY DEF Memory, MemoryAnswer, MemoryFail, MemoryStatus, ctlVars
<1> QED BY <1>3, <1>4, <1>5 DEF Memory

\* The parts of an error status, between which the others go on.
LEMMA StatusKeeps ==
    ASSUME ControlInv, StatusError
    PROVE  ControlInv' /\ Grows(log, log') /\ seen' = seen /\ max' = max /\ iter' = iter
<1>1. /\ World \in WorldSet /\ WorldOK(World, Busy, calls) /\ log \in Seq(EventSet)
      /\ Len(log) \in Nat /\ calls \in Nat /\ alarms \in Nat /\ seen \in Nat /\ iter \in Nat
      /\ agentState \in States
      /\ running \in 0 .. Len(log) /\ \A x \in executed : x \in 1 .. Len(log) /\ IsGo(log[x])
  BY ControlFacts
<1>2. /\ thinking' = thinking /\ calls' = calls /\ iter' = iter /\ seen' = seen /\ ending' = ending
      /\ crossed' = crossed /\ running' = running /\ executed' = executed
  BY DEF StatusError, StatusBegin, StatusAnswer, StatusEnd, rtVars
<1>3. /\ thinking' \in BOOLEAN /\ iter' \in Nat /\ ending' \in {"no", "taken", "asking", "asked"}
      /\ crossed' \in BOOLEAN /\ status \in {"no", "entered", "answered"} /\ interrupted \in BOOLEAN
  BY <1>2 DEF ControlInv, Shared
<1>4. Busy' = Busy /\ Early' = Early
  BY <1>2 DEF Busy, Early
<1>5. CASE StatusBegin /\ agentState = "error"
  <2>1. /\ log' = log /\ UNCHANGED <<ctlVars, status>> /\ alarms' \in Nat /\ max' = max
    BY <1>1, <1>5 DEF StatusBegin, ctlVars
  <2>2. ControlInv'
    BY <1>1, <1>2, <2>1, QuietStep
  <2> QED BY <1>1, <1>2, <2>1, <2>2, GrowsSame
<1>6. CASE StatusBegin /\ agentState # "error"
  <2> DEFINE u == [World EXCEPT !.alarms = alarms - 1]
             v == [u EXCEPT !.state = "error"]
  <2>1. /\ agentState' = "error" /\ status' = "entered" /\ alarms' = alarms - 1 /\ alarms - 1 \in Nat
        /\ interrupted' = (interrupted \/ ending # "no") /\ log' = log /\ pending' = pending
        /\ max' = max /\ hit' = hit
    BY <1>1, <1>6 DEF StatusBegin
  <2>2. /\ u \in WorldSet /\ u.state = agentState /\ u.pending = pending /\ u.log = log
        /\ u.seen = seen /\ u.max = max /\ u.hit = hit /\ u.alarms = alarms - 1
    BY <1>1, <2>1, WorldNow DEF WorldSet
  <2> HIDE DEF u
  <2>3. WorldOK(u, Busy, calls)
    BY <1>1, <2>2, WorldNow, SameWorld
  <2>4. "error" \in States /\ "error" \notin Verdicts \cup {"running"}
    BY DEF States, Verdicts
  <2>5. /\ WorldOK(v, Busy, calls) /\ v.state = "error" /\ v.pending = pending /\ v.log = log
        /\ v.seen = seen /\ v.max = max /\ v.hit = hit
    BY <1>1, <2>2, <2>3, <2>4, StateKeeps
  <2>6. v.alarms = alarms - 1
    BY <2>2 DEF WorldSet
  <2> HIDE DEF v
  <2>7. Become(v)
    BY <2>1, <2>5, <2>6 DEF Become
  <2>8. {interrupted', crossed'} \subseteq BOOLEAN /\ status' \in {"no", "entered", "answered"}
    BY <1>3, <2>1
  <2>9. Shared' /\ (WorldOK(World, Busy, calls))'
    BY <1>1, <1>2, <1>3, <1>4, <2>5, <2>7, <2>8, NextWorld
  <2>10. (Announced(agentState, log))'
    BY <2>1 DEF Announced
  <2>11. (AwaitOK(agentState, pending, Early))'
    BY <2>1 DEF AwaitOK
  <2>12. (StatusOK(agentState, log, seen))'
    BY <2>1 DEF StatusOK
  <2>13. (EndingOK(pending, log))'
    BY <1>2, <2>1 DEF ControlInv, EndingOK
  <2> QED BY <1>1, <1>2, <2>1, <2>9, <2>10, <2>11, <2>12, <2>13, GrowsSame DEF ControlInv
<1>7. CASE StatusAnswer
  <2> DEFINE v == AnswerPending(World)
  <2>1. status = "entered" /\ status' = "answered" /\ interrupted' = interrupted /\ Become(v)
    BY <1>7 DEF StatusAnswer
  <2>2. /\ WorldOK(v, Busy, calls) /\ v.state = agentState /\ v.pending = pending
        /\ Grows(log, v.log) /\ v.seen = seen /\ v.max = max
        /\ \/ v.log = log
           \/ \E e \in EventSet : e.kind = "error" /\ v.log = Append(log, e)
    BY <1>1, WorldNow, AnswerKeeps
  <2> HIDE DEF v
  <2>3. v.log \in Seq(EventSet)
    BY <2>2, WorldFields DEF WorldOK
  <2>4. {interrupted', crossed'} \subseteq BOOLEAN /\ status' \in {"no", "entered", "answered"}
    BY <1>3, <2>1
  <2>5. Len(log) <= Len(v.log) /\ \A i \in 1 .. Len(log) : v.log[i] = log[i]
    BY <2>2 DEF Grows
  <2>6. /\ Shared' /\ (WorldOK(World, Busy, calls))' /\ max' = max
        /\ agentState' = agentState /\ pending' = pending /\ log' = v.log
    BY <1>1, <1>2, <1>3, <1>4, <2>1, <2>2, <2>4, <2>5, NextWorld
  <2>7. (Announced(agentState, log))'
    BY <2>1 DEF Announced
  <2>8. (AwaitOK(agentState, pending, Early))'
    BY <1>4, <2>1, <2>6 DEF ControlInv, AwaitOK
  <2>9. (StatusOK(agentState, log, seen))'
    <3>1. ASSUME agentState = "running" PROVE NoVerdict(v.log, seen)
      BY <1>1, <2>1, <2>2, <2>3, <3>1, NoVerdictOn DEF ControlInv, StatusOK
    <3> QED BY <1>2, <2>6, <3>1 DEF StatusOK, NoVerdict
  <2>10. (EndingOK(pending, log))'
    <3>1. \A i \in 1 .. Len(v.log) : v.log[i].kind = "run" => i \in 1 .. Len(log) /\ v.log[i] = log[i]
      BY <1>1, <2>2, LogAppends
    <3>2. EndingOK(pending, v.log)
      BY <3>1 DEF ControlInv, EndingOK
    <3> QED BY <1>2, <2>1, <2>6, <3>2 DEF EndingOK
  <2> QED BY <1>2, <2>2, <2>6, <2>7, <2>8, <2>9, <2>10 DEF ControlInv
<1>8. CASE StatusEnd
  <2> DEFINE u == [World EXCEPT !.pending = NoAction]
             e == Event("state", 0, 0, agentState)
             v == Emit(u, e)
  <2>1. status = "answered" /\ status' = "no" /\ interrupted' = interrupted
    BY <1>8 DEF StatusEnd
  <2>2. /\ WorldOK(u, Busy, calls) /\ u.state = agentState /\ u.pending = NoAction
        /\ u.log = log /\ u.seen = seen /\ u.max = max /\ u.hit = hit
    <3>1. agentState = "running" => NoVerdict(log, seen)
      BY <2>1 DEF ControlInv, StatusOK
    <3> QED BY <1>1, <3>1, WorldNow, ClearKeeps
  <2>3. Become(v)
    BY <1>8, <2>2 DEF StatusEnd, Announce, Forget
  <2>4. e \in EventSet /\ e.kind = "state" /\ e.arg = agentState
    <3>1. "state" \in Kinds /\ agentState \in Args
      BY <1>1 DEF Kinds, Args
    <3> QED BY <3>1, EventType
  <2> HIDE DEF u, e
  <2>5. /\ v.log = Append(log, e) /\ v.state = agentState /\ v.pending = NoAction
        /\ v.seen = seen /\ v.max = max
    BY <2>2, <2>4, EmitFields DEF WorldOK
  <2>6. WorldOK(v, Busy, calls)
    <3>1. e.kind \notin Observations /\ ~ IsVerdict(e)
      BY <2>4 DEF Observations, IsVerdict
    <3> QED BY <1>1, <2>2, <2>4, <3>1, EmitKeeps
  <2> HIDE DEF v
  <2>7. {interrupted', crossed'} \subseteq BOOLEAN /\ status' \in {"no", "entered", "answered"}
    BY <1>3, <2>1
  <2>8. Len(log) <= Len(v.log) /\ \A i \in 1 .. Len(log) : v.log[i] = log[i]
    BY <1>1, <2>4, <2>5, LogAppends
  <2>9. /\ Shared' /\ (WorldOK(World, Busy, calls))' /\ max' = max
        /\ agentState' = agentState /\ pending' = NoAction /\ log' = Append(log, e)
    BY <1>1, <1>2, <1>3, <1>4, <2>3, <2>5, <2>6, <2>7, <2>8, NextWorld
  <2>10. (Announced(agentState, log))'
    <3>1. Told(agentState, Append(log, e))
      BY <1>1, <2>4, ToldGrows
    <3> QED BY <2>9, <3>1 DEF Announced, Told
  <2>11. (AwaitOK(agentState, pending, Early))'
    BY <1>4, <2>1, <2>9 DEF ControlInv, AwaitOK
  <2>12. (StatusOK(agentState, log, seen))'
    BY <2>1 DEF StatusOK
  <2>13. (EndingOK(pending, log))'
    <3>1. EndingOK(pending, Append(log, e))
      BY <1>1, <2>4, LogAppends DEF ControlInv, EndingOK
    <3> QED BY <1>2, <2>1, <2>9, <3>1 DEF EndingOK
  <2>14. Grows(log, Append(log, e))
    BY <1>1, <2>4, GrowsAppend
  <2> QED BY <1>2, <2>9, <2>10, <2>11, <2>12, <2>13, <2>14 DEF ControlInv
<1> QED BY <1>5, <1>6, <1>7, <1>8 DEF StatusError

\* The end of the session, when nobody is at work.
LEMMA CloseKeeps ==
    ASSUME ControlInv, SessionClose
    PROVE  ControlInv' /\ Grows(log, log') /\ seen' = seen /\ max' = max /\ iter' = iter
<1> DEFINE v == SetAgentStateTo(World, "stopped")
<1>1. /\ thinking = FALSE /\ thinking' = FALSE /\ calls' = calls /\ iter' = iter /\ seen' = seen
      /\ ending = "no" /\ ending' = ending /\ status = "no" /\ status' = status
      /\ interrupted' = interrupted /\ crossed' = crossed
      /\ running' = running /\ executed' = executed /\ Become(v)
  BY DEF ControlInv, Shared, SessionClose, rtVars
<1>2. Busy = FALSE
  BY <1>1 DEF Busy
<1>3. /\ WorldOK(World, FALSE, calls) /\ calls \in Nat /\ iter \in Nat /\ crossed \in BOOLEAN
      /\ Announced(agentState, log)
  BY <1>2 DEF ControlInv, Shared
<1>4. "stopped" \in States /\ MayBecome(World, "stopped")
  BY DEF States, MayBecome, Verdicts
<1>5. /\ WorldOK(v, FALSE, calls) /\ v.state = "stopped" /\ v.seen = seen /\ Grows(log, v.log)
      /\ v.max = max /\ Announced(v.state, v.log)
  BY <1>3, <1>4, WorldNow, SetKeeps
<1> HIDE DEF v
<1>6. Made(v, thinking', calls)
  BY <1>1, <1>5 DEF Made, AwaitOK
<1>7. ControlInv' /\ Grows(log, log') /\ max' = v.max
  BY <1>1, <1>3, <1>5, <1>6, ControlStep
<1> QED BY <1>1, <1>5, <1>7

\* While the buttons are shown the controller awaits a verdict, none is on its way, and it is
\* about the pending action.
LEMMA ButtonsAwait ==
    ASSUME ControlInv, ButtonsShown, status = "no", ending # "asked"
    PROVE  /\ ~ Busy /\ ending = "no" /\ agentState = "awaiting_user_confirmation"
           /\ (pending.kind = "run" /\ pending.arg = "awaiting") \/ pending = NoAction
           /\ NoVerdict(log, seen)
<1>1. /\ VerdictOK(agentState, pending, log, seen, Busy) /\ Len(log) \in Nat /\ seen \in Nat
      /\ Told(agentState, log) /\ AwaitOK(agentState, pending, Early)
  BY ControlFacts DEF ControlInv, Announced
<1>2. agentState = "awaiting_user_confirmation"
  <2>1. PICK i \in 1 .. Len(log) :
          /\ log[i].kind = "state" /\ log[i].arg = "awaiting_user_confirmation"
          /\ \A j \in i + 1 .. Len(log) : log[j].kind # "state"
    BY DEF ButtonsShown, LastAnnounced
  <2> QED BY <1>1, <2>1 DEF Told
<1>3. ~ Busy /\ ending = "no"
  BY <1>1, <1>2 DEF AwaitOK, Early, Busy, ControlInv, Shared
<1>4. PICK a \in 1 .. Len(log) :
        IsAsk(log[a]) /\ \A j \in a + 1 .. Len(log) : ~ IsAsk(log[j]) /\ ~ IsVerdict(log[j])
  BY DEF ButtonsShown
<1>5. ASSUME ~ crossed, NEW k \in seen + 1 .. Len(log), IsVerdict(log[k]) PROVE FALSE
  <2>1. a \notin k + 1 .. Len(log)
    BY <1>1, <1>4, <1>5 DEF VerdictOK
  <2>2. k # a
    BY <1>4, <1>5 DEF IsVerdict, IsAsk
  <2>3. k \in a + 1 .. Len(log)
    BY <1>1, <2>1, <2>2
  <2> QED BY <1>4, <1>5, <2>3
<1> QED BY <1>1, <1>2, <1>3, <1>5 DEF AwaitOK, NoVerdict

\* A verdict that the user sends is about the pending action, if there is one.
LEMMA VerdictSent ==
    ASSUME ControlInv, ButtonsShown, status = "no", ending # "asked",
           NEW e \in EventSet, IsVerdict(e), log' = Append(log, e),
           UNCHANGED <<ctlVars, rtVars, alarms, status>>
    PROVE  ControlInv'
<1> DEFINE v == Emit(World, e)
           l2 == Append(log, e)
<1>1. /\ WorldOK(World, Busy, calls) /\ World \in WorldSet /\ calls \in Nat /\ iter \in Nat
      /\ log \in Seq(EventSet) /\ Len(log) \in Nat /\ seen \in Nat /\ pending \in ActionSet
      /\ seen <= Len(log) /\ LogOK(log, calls) /\ PendingOK(pending, log, calls)
      /\ running \in 0 .. Len(log) /\ \A x \in executed : x \in 1 .. Len(log) /\ IsGo(log[x])
  BY ControlFacts
<1>2. /\ ~ Busy /\ ending = "no" /\ agentState = "awaiting_user_confirmation"
      /\ (pending.kind = "run" /\ pending.arg = "awaiting") \/ pending = NoAction
      /\ NoVerdict(log, seen)
  BY ButtonsAwait
<1>3. /\ agentState' = agentState /\ pending' = pending /\ seen' = seen /\ thinking' = thinking
      /\ ending' = ending /\ status' = status /\ interrupted' = interrupted
      /\ crossed' = crossed /\ calls' = calls /\ iter' = iter /\ executed' = executed
      /\ max' = max /\ hit' = hit /\ alarms' = alarms /\ running' = running
  BY DEF ctlVars, rtVars
<1>4. e.kind = "change" /\ e.arg \in Verdicts /\ ~ IsGo(e) /\ ~ IsAsk(e)
  BY DEF IsVerdict, Verdicts, IsGo, IsAsk
<1>5. v \in WorldSet /\ v.log = l2 /\ v.state = agentState /\ v.pending = pending
      /\ v.max = max /\ v.hit = hit /\ v.seen = seen /\ v.alarms = alarms
  BY <1>1, WorldNow, EmitFields
<1>6. /\ l2 \in Seq(EventSet) /\ Len(l2) = Len(log) + 1 /\ l2[Len(log) + 1] = e
      /\ \A i \in 1 .. Len(log) : l2[i] = log[i]
  BY <1>1, LogAppends
<1> HIDE DEF v
<1>7. LogOK(l2, calls)
  BY <1>1, <1>4, LogGrows DEF Observations
<1>8. PendingOK(pending, l2, calls)
  BY <1>1, <1>4, PendingGrows
<1>9. Told(agentState, l2)
  BY <1>1, <1>4, ToldGrows DEF ControlInv, Announced
<1>10. log' = l2
  OBVIOUS
<1> HIDE DEF l2
<1>11. VerdictOK(agentState, pending, l2, seen, Busy)
  <2>1. CASE crossed
    BY <2>1 DEF VerdictOK
  <2>2. CASE ~ crossed
    <3>1. \A k \in seen + 1 .. Len(l2) : IsVerdict(l2[k]) => k = Len(log) + 1
      BY <1>1, <1>2, <1>6, <2>2 DEF NoVerdict
    <3>2. pending.id \in Nat /\ pending.id < Len(log) + 1
      BY <1>1, ActionFields DEF PendingOK
    <3> SUFFICES ASSUME NEW k \in seen + 1 .. Len(l2), IsVerdict(l2[k])
                 PROVE  /\ ~ Busy
                        /\ agentState \notin Verdicts
                        /\ agentState = "running" => pending.kind = "recall" /\ pending.id > k
                        /\ pending.kind = "run" => pending.arg = "awaiting" /\ pending.id < k
                        /\ \A j \in seen + 1 .. Len(l2) : IsVerdict(l2[j]) => j = k
                        /\ \A j \in k + 1 .. Len(l2) : ~ IsAsk(l2[j])
      BY DEF VerdictOK
    <3>3. k = Len(log) + 1 /\ k + 1 .. Len(l2) = {}
      BY <1>1, <1>6, <3>1
    <3> QED BY <1>2, <3>1, <3>2, <3>3, NoActionType DEF Verdicts
  <2> QED BY <2>1, <2>2
<1>12. WorldOK(v, Busy, calls)
  BY <1>1, <1>5, <1>6, <1>7, <1>8, <1>11 DEF WorldOK
<1>13. Become(v) /\ Busy' = Busy /\ Early' = Early
  BY <1>3, <1>5, <1>10 DEF Become, Busy, Early
<1>14. /\ thinking' \in BOOLEAN /\ iter' \in Nat /\ {interrupted', crossed'} \subseteq BOOLEAN
       /\ ending' \in {"no", "taken", "asking", "asked"} /\ status' \in {"no", "entered", "answered"}
  BY <1>3 DEF ControlInv, Shared
<1>15. Shared' /\ (WorldOK(World, Busy, calls))'
  <2>1. Len(log) <= Len(v.log) /\ \A i \in 1 .. Len(log) : v.log[i] = log[i]
    BY <1>1, <1>5, <1>6
  <2> QED BY <1>1, <1>3, <1>5, <1>12, <1>13, <1>14, <2>1, NextWorld
<1>16. (Announced(agentState, log))'
  BY <1>3, <1>9, <1>10 DEF Announced, Told
<1>17. (AwaitOK(agentState, pending, Early))'
  BY <1>3, <1>13 DEF ControlInv, AwaitOK
<1>18. (StatusOK(agentState, log, seen))'
  BY <1>3 DEF StatusOK
<1>19. (EndingOK(pending, log))'
  BY <1>2, <1>3 DEF EndingOK
<1> QED BY <1>15, <1>16, <1>17, <1>18, <1>19 DEF ControlInv

\* What the user sends.
LEMMA UserKeeps ==
    ASSUME ControlInv, NEW input \in Inputs \ {"close"}, UserInput(input)
    PROVE  /\ ControlInv' /\ seen' = seen /\ max' = max /\ iter' = iter /\ inputs' = inputs + 1
           /\ \E e \in EventSet : log' = Append(log, e)
<1>2. log \in Seq(EventSet) /\ Len(log) \in Nat /\ running \in 0 .. Len(log)
  BY ControlFacts
<1>3. input \in {"message", "stop", "pause", "confirm", "decline"}
  BY InputsAssumption DEF AllInputs
<1>4. /\ log' = Append(log, UserEvent(input)) /\ UNCHANGED <<ctlVars, rtVars, alarms, status>>
      /\ input \in {"confirm", "decline"} => ButtonsShown /\ ending # "asked"
      /\ inputs' = inputs + 1 /\ status = "no"
  BY DEF UserInput
<1>5. seen' = seen /\ max' = max /\ iter' = iter
  BY <1>4 DEF ctlVars
<1>6. ASSUME NEW a \in States \cup {"none"}, NEW k \in {"message", "change"}
      PROVE  LET e == Event(k, 0, 0, a) IN e \in EventSet /\ e.kind = k /\ e.cause = 0 /\ e.arg = a
  <2>1. k \in Kinds /\ a \in Args
    BY DEF Kinds, Args
  <2> QED BY <2>1, EventType
<1>7. {"none", "stopped", "paused", "user_confirmed", "user_rejected"}
         \subseteq States \cup {"none"}
  BY DEF States
<1> DEFINE e == UserEvent(input)
<1>8. /\ e \in EventSet /\ e.cause = 0
      /\ \/ e.kind = "message" /\ input = "message"
         \/ e.kind = "change" /\ e.arg \in {"stopped", "paused"} /\ input \in {"stop", "pause"}
         \/ e.kind = "change" /\ e.arg \in {"user_confirmed", "user_rejected"}
            /\ input \in {"confirm", "decline"}
  <2>1. CASE input = "message"
    BY <1>6, <1>7, <2>1 DEF UserEvent
  <2>2. CASE input = "stop"
    BY <1>6, <1>7, <2>2 DEF UserEvent
  <2>3. CASE input = "pause"
    BY <1>6, <1>7, <2>3 DEF UserEvent
  <2>4. CASE input = "confirm"
    BY <1>6, <1>7, <2>4 DEF UserEvent
  <2>5. CASE input = "decline"
    BY <1>6, <1>7, <2>5 DEF UserEvent
  <2> QED BY <1>3, <2>1, <2>2, <2>3, <2>4, <2>5
<1> HIDE DEF e
<1>9. ControlInv'
  <2>1. CASE IsVerdict(e)
    <3>1. ButtonsShown /\ ending # "asked"
      BY <1>4, <1>8, <2>1 DEF IsVerdict
    <3> QED BY <1>4, <1>8, <2>1, <3>1, VerdictSent DEF e
  <2>2. CASE ~ IsVerdict(e)
    <3>1. e.kind \notin {"run", "state"} /\ e.kind \notin Observations
          /\ (e.kind = "change" => e.arg \in {"stopped", "paused"})
      BY <1>8, <2>2 DEF IsVerdict, Observations
    <3>2. UNCHANGED <<ctlVars, alarms, executed, status>> /\ running' \in 0 .. Len(log)
      BY <1>2, <1>4 DEF rtVars
    <3> QED BY <1>4, <1>8, <2>2, <3>1, <3>2, EmitStep DEF e
  <2> QED BY <2>1, <2>2
<1> QED BY <1>4, <1>5, <1>8, <1>9 DEF e

-----------------------------------------------------------------------------
(***************************************************************************)
(* The invariant, and what follows from it.                                *)
(***************************************************************************)
\* It holds when the session starts.
LEMMA ControlStarts == Init => ControlInv
<1> SUFFICES ASSUME Init PROVE ControlInv
  OBVIOUS
<1>1. World \in WorldSet
  <2>1. /\ agentState \in States /\ pending \in ActionSet /\ max \in Nat /\ hit \in BOOLEAN
        /\ seen \in Nat /\ alarms \in Nat
    BY NoActionType, InputsAssumption DEF Init, States
  <2>2. log \in Seq(EventSet)
    BY DEF Init
  <2> QED BY <2>1, <2>2 DEF World, WorldSet
<1>2. World.log = <<>> /\ World.seen = 0 /\ World.pending = NoAction /\ Len(<<>>) = 0
  BY DEF Init, World
<1>3. LogOK(<<>>, 0) /\ Told(agentState, <<>>)
  BY DEF LogOK, EventsOK, GoOnce, GoAfterConfirm, Told
<1>4. PendingOK(NoAction, <<>>, 0)
  BY NoActionType DEF PendingOK
<1>5. NoVerdict(<<>>, 0)
  BY DEF NoVerdict
<1>6. WorldOK(World, FALSE, 0)
  <2>1. VerdictOK(World.state, World.pending, World.log, World.seen, FALSE)
    BY <1>2, <1>5, NoVerdictOK
  <2>2. World.seen <= Len(World.log)
    BY <1>2
  <2> QED BY <1>1, <1>2, <1>3, <1>4, <2>1, <2>2 DEF WorldOK
<1>7. /\ thinking = FALSE /\ calls = 0 /\ iter = 0 /\ log = <<>> /\ executed = {} /\ running = 0
      /\ ending = "no" /\ status = "no" /\ interrupted = FALSE /\ crossed = FALSE
      /\ agentState = "awaiting_user_input"
  BY DEF Init
<1>8. running \in 0 .. Len(log)
  BY <1>2, <1>7
<1>9. Shared
  BY <1>7, <1>8 DEF Shared
<1>10. WorldOK(World, Busy, calls)
  <2>1. Busy = FALSE
    BY <1>7 DEF Busy
  <2> QED BY <1>6, <1>7, <2>1
<1>11. Announced(agentState, log) /\ AwaitOK(agentState, pending, Early)
  BY <1>3, <1>7 DEF Announced, AwaitOK
<1>12. StatusOK(agentState, log, seen) /\ EndingOK(pending, log)
  BY <1>7 DEF StatusOK, EndingOK
<1> QED BY <1>9, <1>10, <1>11, <1>12 DEF ControlInv

\* Every step keeps it; the limit and the count of steps change with the controller's steps.
LEMMA ControlKept ==
    ASSUME ControlInv, [Next]_vars
    PROVE  ControlInv'
<1>1. CASE \E i \in 1 .. Len(log) : OnEvent(i)
  BY <1>1, OnEventKeeps
<1>2. CASE \/ \E outcome \in Outcomes \ {"safe", "risky", "stuck", "budget"} : StepEnd(outcome)
           \/ \E outcome \in Outcomes \cap {"safe", "risky"} : TakeAction(outcome)
           \/ AskConfirmation
           \/ PutAction
  BY <1>2, StepEndKeeps, TakeKeeps, AskKeeps, PutKeeps
<1>3. CASE Runtime
  BY <1>3, RuntimeKeeps
<1>4. CASE Memory
  BY <1>4, MemoryKeeps
<1>5. CASE StatusError \/ SessionClose
  BY <1>5, StatusKeeps, CloseKeeps
<1>6. CASE \E input \in Inputs \ {"close"} : UserInput(input)
  BY <1>6, UserKeeps
<1>7. CASE UNCHANGED vars
  <2>1. /\ alarms' \in Nat /\ log' = log /\ UNCHANGED <<ctlVars, status>>
        /\ running' \in 0 .. Len(log) /\ \A x \in executed' : x \in 1 .. Len(log) /\ IsGo(log[x])
    BY <1>7, ControlFacts DEF vars, rtVars
  <2> QED BY <2>1, QuietStep
<1> QED BY <1>1, <1>2, <1>3, <1>4, <1>5, <1>6, <1>7 DEF Next, Controller

\* In every reachable state.
LEMMA ControlAlways == Spec => []ControlInv
  BY ControlStarts, ControlKept, PTL DEF Spec

\* For all inputs, outcomes and failures, and however the threads of the controller, the
\* runtime, the memory and the session interleave, a risky call is executed only after the
\* user has confirmed this very call, and no call is executed twice; unless _reset of an error
\* status has forgotten the recall of a message that has a verdict behind it.
THEOREM RunsAsAllowed == Spec => []ExecutedAsAllowed
<1>1. ControlInv => ExecutedAsAllowed
  <2> SUFFICES ASSUME ControlInv, ~ crossed PROVE ConfirmedFirst /\ ExecutedOnce
    BY DEF ExecutedAsAllowed
  <2>1. /\ GoOnce(log) /\ GoAfterConfirm(log)
        /\ \A x \in executed : x \in 1 .. Len(log) /\ IsGo(log[x])
    BY ControlFacts DEF LogOK
  <2>2. ConfirmedFirst
    BY <2>1 DEF ConfirmedFirst, GoAfterConfirm, Asked, IsAsk
  <2>3. ExecutedOnce
    BY <2>1 DEF ExecutedOnce, GoOnce
  <2> QED BY <2>2, <2>3
<1> QED BY <1>1, ControlAlways, PTL

\* Whenever the controller awaits the user's verdict, there is a pending action that awaits
\* it, and the runtime has not executed it; or an error status has begun before the end of the
\* step that asks, and has left nothing pending.
THEOREM AwaitsWithAction == Spec => []AwaitingHasAction
<1>1. ControlInv => AwaitingHasAction
  <2> SUFFICES ASSUME ControlInv, agentState = "awaiting_user_confirmation",
                      ~ (interrupted /\ pending = NoAction)
               PROVE  /\ pending.kind = "run" /\ pending.arg = "awaiting"
                      /\ \A x \in executed : log[x].call # pending.call
    BY DEF AwaitingHasAction
  <2>1. pending.kind = "run" /\ pending.arg = "awaiting"
    BY DEF ControlInv, AwaitOK
  <2>2. PendingOK(pending, log, calls)
        /\ \A x \in executed : x \in 1 .. Len(log) /\ IsGo(log[x])
    BY ControlFacts
  <2> QED BY <2>1, <2>2 DEF PendingOK
<1> QED BY <1>1, ControlAlways, PTL

-----------------------------------------------------------------------------
(***************************************************************************)
(* The limit.  It grows when a message of the user is handled, once for    *)
(* each, and only the user sends messages.                                 *)
(***************************************************************************)
\* The messages among the first n events.
Said(lg, n) == {i \in 1 .. n : lg[i].kind = "message"}

LimitInv ==
    /\ inputs \in Nat
    /\ iter <= max
    /\ max <= Iterations * (1 + Cardinality(Said(log, seen)))
    /\ Cardinality(Said(log, Len(log))) <= inputs

\* They can be counted.
LEMMA SaidFinite ==
    ASSUME NEW lg, NEW n \in Nat
    PROVE  IsFiniteSet(Said(lg, n)) /\ Cardinality(Said(lg, n)) \in Nat
<1>1. Said(lg, n) \subseteq 1 .. n
  BY DEF Said
<1>2. IsFiniteSet(1 .. n)
  BY FS_Interval
<1> QED BY <1>1, <1>2, FS_Subset, FS_CardinalityType

\* More events, more messages.
LEMMA SaidMore ==
    ASSUME NEW lg, NEW n \in Nat, NEW m \in Nat, n <= m
    PROVE  Cardinality(Said(lg, n)) <= Cardinality(Said(lg, m))
<1>1. Said(lg, n) \subseteq Said(lg, m)
  BY DEF Said
<1> QED BY <1>1, SaidFinite, FS_Subset

\* One more message.
LEMMA SaidOneMore ==
    ASSUME NEW lg, NEW n \in Nat, NEW m \in Nat, n < m, lg[m].kind = "message"
    PROVE  Cardinality(Said(lg, n)) + 1 <= Cardinality(Said(lg, m))
<1>1. Said(lg, n) \cup {m} \subseteq Said(lg, m) /\ m \notin Said(lg, n)
  BY DEF Said
<1>2. Cardinality(Said(lg, n) \cup {m}) = Cardinality(Said(lg, n)) + 1
  BY <1>1, SaidFinite, FS_AddElement
<1>3. Cardinality(Said(lg, n) \cup {m}) <= Cardinality(Said(lg, m))
  BY <1>1, SaidFinite, FS_Subset
<1> QED BY <1>2, <1>3

\* What the others put on the stream is no message.
LEMMA SaidKept ==
    ASSUME NEW lg \in Seq(EventSet), NEW lg2 \in Seq(EventSet), Grows(lg, lg2),
           NEW n \in 0 .. Len(lg)
    PROVE  Said(lg2, n) = Said(lg, n) /\ Said(lg2, Len(lg2)) = Said(lg, Len(lg))
<1>1. Len(lg) \in Nat /\ Len(lg2) \in Nat
  OBVIOUS
<1>2. Said(lg2, n) = Said(lg, n)
  BY <1>1 DEF Said, Grows
<1>3. \A i \in 1 .. Len(lg2) : lg2[i].kind = "message" => i \in 1 .. Len(lg)
  BY <1>1 DEF Grows
<1>4. Said(lg2, Len(lg2)) = Said(lg, Len(lg))
  BY <1>1, <1>3 DEF Said, Grows
<1> QED BY <1>2, <1>4

\* The bound for one more message, and for more inputs than messages.
LEMMA BoundSum ==
    ASSUME NEW d \in Nat, NEW c \in Nat
    PROVE  d * (1 + c) + d = d * (1 + (c + 1)) /\ d * (1 + c) \in Nat
  OBVIOUS

\* The bound grows with the number of messages.
LEMMA BoundGrows ==
    ASSUME NEW d \in Nat, NEW c \in Nat, NEW c2 \in Nat, c <= c2
    PROVE  d * (1 + c) <= d * (1 + c2)
<1>1. PICK k \in Nat : c2 = c + k
  <2>1. c2 - c \in Nat /\ c2 = c + (c2 - c)
    OBVIOUS
  <2> QED BY <2>1
<1>2. d * (1 + (c + k)) = d * (1 + c) + d * k /\ d * k \in Nat /\ d * (1 + c) \in Nat
  OBVIOUS
<1> QED BY <1>1, <1>2

\* Every step keeps the bound.
LEMMA LimitKept ==
    ASSUME ControlInv, ControlInv', LimitInv, [Next]_vars
    PROVE  LimitInv'
<1> DEFINE Good == LimitInv'
           c == Cardinality(Said(log, seen))
<1> SUFFICES Good
  OBVIOUS
<1>1. World \in WorldSet /\ World' \in WorldSet /\ seen <= Len(log) /\ iter \in Nat
      /\ Iterations \in Nat
  BY ControlFacts, InputsAssumption DEF ControlInv, WorldOK
<1>2. /\ log \in Seq(EventSet) /\ Len(log) \in Nat /\ seen \in Nat /\ max \in Nat
      /\ seen \in 0 .. Len(log)
  BY <1>1, WorldNow, WorldFields
<1>3. log' \in Seq(EventSet) /\ Len(log') \in Nat /\ max' \in Nat
  <2>1. World'.log = log' /\ World'.max = max'
    BY DEF World
  <2> QED BY <1>1, <2>1, WorldFields
<1>4. c \in Nat
  BY <1>2, SaidFinite
<1>5. /\ inputs \in Nat /\ iter <= max /\ max <= Iterations * (1 + c)
      /\ Cardinality(Said(log, Len(log))) <= inputs
  BY DEF LimitInv
<1>6. ASSUME Grows(log, log'), seen' = seen, max' = max, iter' = iter, inputs' = inputs
      PROVE  Good
  <2>1. Said(log', seen') = Said(log, seen) /\ Said(log', Len(log')) = Said(log, Len(log))
    BY <1>2, <1>3, <1>6, SaidKept
  <2> QED BY <1>5, <1>6, <2>1 DEF LimitInv
<1>7. CASE \E i \in 1 .. Len(log) : OnEvent(i)
  <2>1. PICK i \in 1 .. Len(log) : OnEvent(i)
    BY <1>7
  <2>2. /\ Grows(log, log') /\ seen' = i /\ seen < i
        /\ max' \in {max, max + Iterations} /\ (log[i].kind # "message" => max' = max)
        /\ iter' = iter \/ (iter' = iter + 1 /\ ~ (iter >= max'))
    BY <2>1, OnEventKeeps
  <2>3. inputs' = inputs /\ i \in 0 .. Len(log) /\ i \in Nat
    BY <1>2, <2>1 DEF OnEvent
  <2>4. Said(log', i) = Said(log, i) /\ Said(log', Len(log')) = Said(log, Len(log))
    BY <1>2, <1>3, <2>2, <2>3, SaidKept
  <2> DEFINE d == Cardinality(Said(log, i))
  <2>5. d \in Nat /\ c <= d
    BY <1>2, <2>2, <2>3, SaidFinite, SaidMore
  <2>6. log[i].kind = "message" => c + 1 <= d
    BY <1>2, <2>2, <2>3, SaidOneMore
  <2> HIDE DEF c, d
  <2>7. max' <= Iterations * (1 + d)
    <3>1. CASE max' = max
      <4>1. Iterations * (1 + c) <= Iterations * (1 + d)
            /\ Iterations * (1 + c) \in Nat /\ Iterations * (1 + d) \in Nat
        BY <1>1, <1>4, <2>5, BoundGrows, BoundSum
      <4> QED BY <1>2, <1>5, <3>1, <4>1
    <3>2. CASE max' # max
      <4>1. c + 1 <= d /\ max' = max + Iterations
        BY <2>2, <2>6, <3>2
      <4>2. Iterations * (1 + c) + Iterations = Iterations * (1 + (c + 1))
            /\ Iterations * (1 + c) \in Nat /\ Iterations * (1 + d) \in Nat
            /\ Iterations * (1 + (c + 1)) \in Nat
        BY <1>1, <1>4, <2>5, BoundSum
      <4>3. Iterations * (1 + (c + 1)) <= Iterations * (1 + d)
        BY <1>1, <1>4, <2>5, <4>1, BoundGrows
      <4> QED BY <1>1, <1>2, <1>5, <4>1, <4>2, <4>3
    <3> QED BY <3>1, <3>2
  <2>8. iter' <= max'
    BY <1>1, <1>2, <1>3, <1>5, <2>2
  <2>9. max' <= Iterations * (1 + Cardinality(Said(log', seen')))
    BY <2>2, <2>4, <2>7 DEF d
  <2> QED BY <1>5, <2>3, <2>4, <2>8, <2>9 DEF LimitInv
<1>8. CASE \/ \E outcome \in Outcomes \ {"safe", "risky", "stuck", "budget"} : StepEnd(outcome)
           \/ \E outcome \in Outcomes \cap {"safe", "risky"} : TakeAction(outcome)
           \/ AskConfirmation
           \/ PutAction
  <2>1. inputs' = inputs
    BY <1>8 DEF StepEnd, TakeAction, AskConfirmation, PutAction
  <2> HIDE DEF Good, c
  <2> QED BY <1>6, <1>8, <2>1, StepEndKeeps, TakeKeeps, AskKeeps, PutKeeps
<1>9. CASE Runtime
  <2>1. inputs' = inputs
    BY <1>9 DEF Runtime, RuntimeTake, RuntimeObserve, RuntimeFail
  <2> HIDE DEF Good, c
  <2> QED BY <1>6, <1>9, <2>1, RuntimeKeeps
<1>10. CASE Memory
  <2>1. inputs' = inputs
    BY <1>10 DEF Memory, MemoryAnswer, MemoryFail, MemoryStatus
  <2> HIDE DEF Good, c
  <2> QED BY <1>6, <1>10, <2>1, MemoryKeeps
<1>11. CASE StatusError \/ SessionClose
  <2>1. inputs' = inputs
    BY <1>11 DEF StatusError, StatusBegin, StatusAnswer, StatusEnd, SessionClose
  <2> HIDE DEF Good, c
  <2> QED BY <1>6, <1>11, <2>1, StatusKeeps, CloseKeeps
<1>12. CASE \E input \in Inputs \ {"close"} : UserInput(input)
  <2>1. seen' = seen /\ max' = max /\ iter' = iter /\ inputs' = inputs + 1
    BY <1>12, UserKeeps
  <2>2. PICK e \in EventSet : log' = Append(log, e)
    BY <1>12, UserKeeps
  <2>3. Len(log') = Len(log) + 1 /\ \A i \in 1 .. Len(log) : log'[i] = log[i]
    BY <1>2, <2>2, LogAppends
  <2>4. Said(log', seen') = Said(log, seen)
    BY <1>2, <2>1, <2>3 DEF Said
  <2>5. Cardinality(Said(log', Len(log'))) <= Cardinality(Said(log, Len(log))) + 1
    <3>1. Said(log', Len(log')) \subseteq Said(log, Len(log)) \cup {Len(log) + 1}
      BY <1>2, <2>3 DEF Said
    <3>2. IsFiniteSet(Said(log, Len(log))) /\ Len(log) + 1 \notin Said(log, Len(log))
      BY <1>2, SaidFinite DEF Said
    <3>3. /\ IsFiniteSet(Said(log, Len(log)) \cup {Len(log) + 1})
          /\ Cardinality(Said(log, Len(log)) \cup {Len(log) + 1}) =
                Cardinality(Said(log, Len(log))) + 1
      BY <3>2, FS_AddElement
    <3> QED BY <3>1, <3>3, FS_Subset
  <2>6. /\ Cardinality(Said(log, Len(log))) \in Nat
        /\ Cardinality(Said(log', Len(log'))) \in Nat
    BY <1>2, <1>3, SaidFinite
  <2>7. Cardinality(Said(log', Len(log'))) <= inputs' /\ inputs' \in Nat
    BY <1>5, <2>1, <2>5, <2>6
  <2> QED BY <1>5, <2>1, <2>4, <2>7 DEF LimitInv
<1>13. CASE UNCHANGED vars
  BY <1>5, <1>13 DEF vars, ctlVars, LimitInv
<1> QED BY <1>7, <1>8, <1>9, <1>10, <1>11, <1>12, <1>13 DEF Next, Controller

\* The model is called at most max times, and max grows by one step at most for each input of
\* the user, whatever fails and whoever stops the agent in between.
THEOREM StepsWithinLimit == Spec => []WithinLimit
<1>1. Init => LimitInv
  <2> SUFFICES ASSUME Init PROVE LimitInv
    OBVIOUS
  <2>1. seen = 0 /\ Len(log) = 0 /\ inputs = 0 /\ iter = 0 /\ max = Iterations
        /\ Iterations \in Nat
    BY InputsAssumption DEF Init
  <2>2. Said(log, 0) = {} /\ Cardinality({}) = 0
    BY FS_EmptySet DEF Said
  <2>3. Cardinality(Said(log, seen)) = 0 /\ Cardinality(Said(log, Len(log))) = 0
    BY <2>1, <2>2
  <2>4. max <= Iterations * (1 + 0)
    BY <2>1
  <2> QED BY <2>1, <2>3, <2>4 DEF LimitInv
<1>2. ControlInv /\ LimitInv => WithinLimit
  <2> SUFFICES ASSUME ControlInv, LimitInv PROVE WithinLimit
    OBVIOUS
  <2> DEFINE c == Cardinality(Said(log, seen))
  <2>1. World \in WorldSet /\ seen <= Len(log) /\ Iterations \in Nat
    BY ControlFacts, InputsAssumption
  <2>2. Len(log) \in Nat /\ seen \in Nat /\ max \in Nat
    BY <2>1, WorldNow, WorldFields
  <2>3. /\ c \in Nat /\ c <= Cardinality(Said(log, Len(log)))
        /\ Cardinality(Said(log, Len(log))) \in Nat
    BY <2>1, <2>2, SaidFinite, SaidMore
  <2>4. /\ inputs \in Nat /\ iter <= max /\ max <= Iterations * (1 + c)
        /\ Cardinality(Said(log, Len(log))) <= inputs
    BY DEF LimitInv
  <2> HIDE DEF c
  <2>5. c <= inputs
    BY <2>3, <2>4
  <2>6. Iterations * (1 + c) <= Iterations * (1 + inputs)
        /\ Iterations * (1 + c) \in Nat /\ Iterations * (1 + inputs) \in Nat
    BY <2>1, <2>3, <2>4, <2>5, BoundGrows, BoundSum
  <2>7. max <= Iterations * (1 + inputs)
    BY <2>2, <2>4, <2>6
  <2> QED BY <2>4, <2>7 DEF WithinLimit
<1> QED BY <1>1, <1>2, ControlAlways, LimitKept, PTL DEF Spec

=============================================================================
