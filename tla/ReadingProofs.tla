--------------------------- MODULE ReadingProofs ---------------------------
(***************************************************************************)
(* Proofs about the components that read back what others have written, as *)
(* MCComponents instantiates them: the pane of the bash session, the       *)
(* history that the recovery from a loop truncates, and the search over    *)
(* HTTP, which asks for one page of events after the other.  What          *)
(* CondensersProofs shows holds for the condensers there, too.             *)
(***************************************************************************)
EXTENDS MCComponents, FiniteSetTheorems, SequenceTheorems, WellFoundedInduction, TLAPS

-----------------------------------------------------------------------------
(***************************************************************************)
(* BashSession.  A process does not end between a look at the pane and the *)
(* typing that follows it (Races = {}).  With the race, NotTypedIntoRunning *)
(* is false.                                                               *)
(***************************************************************************)
PaneItem == [k : {"ps1", "echo", "line"}, n : Nat]
BashCall == [pc : {"idle", "captured", "polling"}, kind : {"none", "command", "empty", "input"},
             n : Nat, initial : Seq(PaneItem)]
TypedLine == [n : Nat \ {0}, kind : {"command", "input"}]

BashTypeOK ==
    /\ pane \in Seq(PaneItem)
    /\ proc \in Nat
    /\ typed \in Seq(TypedLine)
    /\ call \in BashCall
    /\ bCalls \in Nat
    /\ printed \in Nat
    /\ call.pc # "idle" => call.n # 0 /\ call.kind # "none"

\* The last item of the pane is a prompt as long as nothing runs.
PromptIffFree == Len(pane) # 0 /\ (pane[Len(pane)].k = "ps1" <=> proc = 0)

\* One line is typed at a time, and read before the call goes on; a command is
\* typed when nothing runs.
TypedWhenFree ==
    /\ Len(typed) <= 1
    /\ Len(typed) # 0 => /\ call.pc = "polling"
                         /\ typed[1].n = call.n /\ typed[1].kind = call.kind
                         /\ call.kind = "command" => proc = 0

\* Before a call has seen its command end, the pane has no more prompts than when
\* the call began.
NoNewPrompt ==
    call.pc = "captured" \/ (call.pc = "polling" /\ (proc # 0 \/ Len(typed) # 0))
      => Bash!PromptCount(pane) <= Bash!PromptCount(call.initial)

\* Between calls, something runs only after a timeout; what a call finds free
\* stays free until it types.
FreeUnlessTimedOut ==
    /\ call.pc # "polling" /\ status \notin Bash!TimedOut => proc = 0
    /\ call.pc = "captured" /\ Bash!EndsWithPrompt(call.initial) => proc = 0

\* The command of a call is the one that runs, and the one whose prompt comes.
OwnPrompt ==
    call.pc = "polling" /\ call.kind = "command" /\ Len(typed) = 0 =>
        IF proc = 0 THEN pane[Len(pane)].n = call.n ELSE proc = call.n

BashInv ==
    /\ BashTypeOK /\ PromptIffFree /\ TypedWhenFree /\ NoNewPrompt /\ FreeUnlessTimedOut
    /\ OwnPrompt /\ OwnExitCode

\* What the argument needs to know about the constants.
LEMMA BashConstants == HistoryLimit \in Nat \ {0}
  BY ComponentsAssumption

\* The instance counts as everybody does.
LEMMA BashCardinality == \A S : Bash!Cardinality(S) = Cardinality(S)
  BY DEF Bash!Cardinality, Cardinality

\* The prompts of a pane are finitely many.
LEMMA PromptsFinite ==
    ASSUME NEW p \in Seq(PaneItem)
    PROVE  /\ IsFiniteSet(Bash!Prompts(p))
           /\ Bash!PromptCount(p) = Cardinality(Bash!Prompts(p)) /\ Bash!PromptCount(p) \in Nat
<1>1. IsFiniteSet(1 .. Len(p))
  BY FS_Interval
<1>2. Bash!Prompts(p) \subseteq 1 .. Len(p)
  BY DEF Bash!Prompts
<1>3. IsFiniteSet(Bash!Prompts(p))
  BY <1>1, <1>2, FS_Subset
<1> QED BY <1>3, FS_CardinalityType, BashCardinality DEF Bash!PromptCount

\* An item that is no prompt adds none, whether or not the first item is lost.
LEMMA ShowsItem ==
    ASSUME pane \in Seq(PaneItem), NEW item \in PaneItem, Bash!Show(item)
    PROVE  /\ pane' \in Seq(PaneItem) /\ Len(pane') # 0 /\ pane'[Len(pane')] = item
           /\ item.k # "ps1" => Bash!PromptCount(pane') <= Bash!PromptCount(pane)
<1> DEFINE shown == Append(pane, item)
<1>1. /\ shown \in Seq(PaneItem) /\ Len(shown) = Len(pane) + 1 /\ Len(pane) \in Nat
      /\ shown[Len(shown)] = item
      /\ \A i \in 1 .. Len(pane) : shown[i] = pane[i]
  OBVIOUS
<1>2. pane' = IF Len(shown) > HistoryLimit THEN Tail(shown) ELSE shown
  BY DEF Bash!Show
<1>3. \A i \in 1 .. Len(shown) : i \in 1 .. Len(pane) \/ i = Len(shown)
  BY <1>1
<1> HIDE DEF shown
<1>4. item.k # "ps1" => Bash!Prompts(shown) \subseteq Bash!Prompts(pane)
  BY <1>1, <1>3 DEF Bash!Prompts, Bash!IsPrompt
<1>5. CASE Len(shown) > HistoryLimit
  <2> DEFINE tail == Tail(shown)
  <2>1. Len(shown) > 1
    BY <1>1, <1>5, BashConstants
  <2>2. /\ tail \in Seq(PaneItem) /\ Len(tail) = Len(shown) - 1
        /\ \A i \in 1 .. Len(tail) : tail[i] = shown[i + 1]
    BY <1>1, <2>1
  <2> HIDE DEF tail
  <2>3. Len(tail) # 0 /\ tail[Len(tail)] = item
    BY <1>1, <2>1, <2>2
  <2>4. pane' = tail
    BY <1>2, <1>5 DEF tail
  <2>5. \A i \in Bash!Prompts(tail) : i + 1 \in Bash!Prompts(shown)
    BY <1>1, <2>2, SMTT(30) DEF Bash!Prompts, Bash!IsPrompt
  <2> DEFINE f == [i \in Bash!Prompts(tail) |-> i + 1]
  <2>6. f \in Injection(Bash!Prompts(tail), Bash!Prompts(shown))
    <3>1. Bash!Prompts(tail) \subseteq Nat
      BY <2>2 DEF Bash!Prompts
    <3> QED BY <2>5, <3>1 DEF Injection, IsInjective
  <2>7. Cardinality(Bash!Prompts(tail)) <= Cardinality(Bash!Prompts(shown))
    BY <2>6, <1>1, <2>2, PromptsFinite, FS_Injection
  <2>8. item.k # "ps1" => Cardinality(Bash!Prompts(shown)) <= Cardinality(Bash!Prompts(pane))
    BY <1>4, PromptsFinite, FS_Subset
  <2>9. item.k # "ps1" => Bash!PromptCount(tail) <= Bash!PromptCount(pane)
    BY <2>7, <2>8, <1>1, <2>2, PromptsFinite
  <2> QED BY <2>2, <2>3, <2>4, <2>9
<1>6. CASE ~ (Len(shown) > HistoryLimit)
  <2>1. pane' = shown
    BY <1>2, <1>6
  <2>2. item.k # "ps1" => Cardinality(Bash!Prompts(shown)) <= Cardinality(Bash!Prompts(pane))
    BY <1>4, PromptsFinite, FS_Subset
  <2>3. item.k # "ps1" => Bash!PromptCount(shown) <= Bash!PromptCount(pane)
    BY <2>2, <1>1, PromptsFinite
  <2> QED BY <1>1, <2>1, <2>3
<1> QED BY <1>5, <1>6

\* A pane that ends with a prompt ends with its last prompt.
LEMMA LastIsPrompt ==
    ASSUME NEW p \in Seq(PaneItem), Len(p) # 0, p[Len(p)].k = "ps1"
    PROVE  Bash!LastPrompt(p) = p[Len(p)]
<1> DEFINE n == Len(p)
           P == Bash!Prompts(p)
<1>1. n \in P /\ n \in Nat /\ \A i \in P : i \in Nat /\ i <= n
  BY DEF Bash!Prompts, Bash!IsPrompt
<1> HIDE DEF n, P
<1>2. Bash!Max(P) = n
  <2>1. \A y \in P : n >= y
    BY <1>1
  <2>2. \A x \in P : (\A y \in P : x >= y) => x = n
    BY <1>1
  <2>3. Bash!Max(P) \in P /\ \A y \in P : Bash!Max(P) >= y
    BY <1>1, <2>1, Zenon DEF Bash!Max
  <2> QED BY <2>2, <2>3, Zenon
<1> QED BY <1>2 DEF Bash!LastPrompt, n, P

\* A command that is found complete has ended: the screen is cleared.
LEMMA CompletedWhenFree ==
    ASSUME BashTypeOK, PromptIffFree, NoNewPrompt, Bash!HandleCompleted
    PROVE  proc = 0 /\ pane' = <<pane[Len(pane)]>> /\ pane[Len(pane)] \in PaneItem
<1>1. /\ call.pc = "polling" /\ typed = <<>> /\ Bash!Complete /\ Bash!ReadyForNext
  BY DEF Bash!HandleCompleted, Bash!Echoed
<1>2. /\ pane \in Seq(PaneItem) /\ Len(pane) # 0 /\ call.initial \in Seq(PaneItem)
      /\ pane[Len(pane)].k = "ps1" <=> proc = 0
  BY DEF BashTypeOK, BashCall, PromptIffFree
<1>3. proc = 0
  <2>1. CASE Bash!EndsWithPrompt(pane)
    BY <1>2, <2>1 DEF Bash!EndsWithPrompt, Bash!IsPrompt, Bash!Last
  <2>2. CASE Bash!PromptCount(pane) > Bash!PromptCount(call.initial)
    <3>1. Bash!PromptCount(pane) \in Nat /\ Bash!PromptCount(call.initial) \in Nat
      BY <1>2, PromptsFinite
    <3> QED BY <1>1, <2>2, <3>1 DEF NoNewPrompt
  <2> QED BY <1>1, <2>1, <2>2 DEF Bash!Complete
<1>4. Bash!LastPrompt(pane) = pane[Len(pane)]
  BY <1>2, <1>3, LastIsPrompt
<1>5. pane' = <<pane[Len(pane)]>>
  BY <1>1, <1>3, <1>4 DEF Bash!ReadyForNext
<1> QED BY <1>2, <1>3, <1>5

\* initialize leaves a prompt.
LEMMA BashInvInit == ASSUME Bash!Init PROVE BashInv
<1>1. pane \in Seq(PaneItem) /\ Len(pane) = 1 /\ pane[1].k = "ps1"
  <2>1. Bash!Prompt(0) \in PaneItem /\ Bash!Prompt(0).k = "ps1"
    BY DEF Bash!Prompt, PaneItem
  <2> QED BY <2>1 DEF Bash!Init
<1>2. call \in BashCall /\ call.pc = "idle"
  <2>1. <<>> \in Seq(PaneItem)
    OBVIOUS
  <2> QED BY <2>1 DEF Bash!Init, Bash!Idle, BashCall
<1>3. typed \in Seq(TypedLine) /\ Len(typed) = 0
  BY DEF Bash!Init
<1>4. BashTypeOK
  BY <1>1, <1>2, <1>3 DEF Bash!Init, BashTypeOK
<1>5. PromptIffFree /\ TypedWhenFree /\ NoNewPrompt /\ FreeUnlessTimedOut /\ OwnPrompt
  BY <1>1, <1>2, <1>3
     DEF Bash!Init, PromptIffFree, TypedWhenFree, NoNewPrompt, FreeUnlessTimedOut, OwnPrompt
<1>6. OwnExitCode
  BY DEF Bash!Init, Bash!NoObs, OwnExitCode, Bash!OwnExitCode
<1> QED BY <1>4, <1>5, <1>6 DEF BashInv

\* A length that is at most one is zero or one.
LEMMA AtMostOne == \A n \in Nat : n <= 1 => n \in {0, 1}
  OBVIOUS

\* Every step of the terminal and of execute preserves the invariant.
LEMMA BashInvNext == ASSUME BashInv, [Bash!Next]_Bash!vars PROVE BashInv'
<1> DEFINE Good == BashInv'
<1> SUFFICES Good
  OBVIOUS
<1> USE DEF BashInv
<1>a. /\ pane \in Seq(PaneItem) /\ Len(pane) \in Nat /\ Len(pane) # 0 /\ proc \in Nat
      /\ typed \in Seq(TypedLine) /\ Len(typed) \in {0, 1} /\ call \in BashCall
      /\ bCalls \in Nat /\ printed \in Nat
      /\ call.pc # "idle" => call.n # 0 /\ call.kind # "none"
      /\ pane[Len(pane)].k = "ps1" <=> proc = 0
  <2>1. /\ pane \in Seq(PaneItem) /\ proc \in Nat
        /\ typed \in Seq(TypedLine) /\ call \in BashCall /\ bCalls \in Nat /\ printed \in Nat
        /\ call.pc # "idle" => call.n # 0 /\ call.kind # "none"
    BY DEF BashTypeOK
  <2>2. Len(pane) \in Nat /\ Len(typed) \in Nat
    BY <2>1
  <2>3. Len(pane) # 0 /\ (pane[Len(pane)].k = "ps1" <=> proc = 0)
    BY DEF PromptIffFree
  <2>4. Len(typed) <= 1
    BY Zenon DEF TypedWhenFree
  <2>5. Len(typed) \in {0, 1}
    <3> HIDE DEF BashInv
    <3> QED BY <2>2, <2>4, AtMostOne
  <2> QED BY <2>1, <2>2, <2>3, <2>5
<1>b. /\ call.pc \in {"idle", "captured", "polling"} /\ call.n \in Nat
      /\ call.kind \in {"none", "command", "empty", "input"} /\ call.initial \in Seq(PaneItem)
  BY <1>a DEF BashCall
<1>c. typed = <<>> <=> Len(typed) = 0
  BY <1>a
<1>d. Bash!PromptCount(pane) \in Nat /\ Bash!PromptCount(call.initial) \in Nat
  BY <1>a, <1>b, PromptsFinite
<1>e. Bash!Idle \in BashCall /\ Bash!Idle.pc = "idle"
  <2>1. <<>> \in Seq(PaneItem)
    OBVIOUS
  <2> QED BY <2>1 DEF Bash!Idle, BashCall
<1>1. CASE Bash!Output
  <2> DEFINE item == Bash!Line(printed + 1)
  <2>1. /\ proc # 0 /\ printed' = printed + 1 /\ Bash!Show(item)
        /\ UNCHANGED <<proc, typed, status, call, bCalls, obs>>
    BY <1>1 DEF Bash!Output
  <2>2. item \in PaneItem /\ item.k # "ps1"
    BY <1>a DEF Bash!Line, PaneItem
  <2> HIDE DEF item
  <2>3. /\ pane' \in Seq(PaneItem) /\ Len(pane') # 0 /\ pane'[Len(pane')] = item
        /\ Bash!PromptCount(pane') <= Bash!PromptCount(pane)
    BY <1>a, <2>1, <2>2, ShowsItem
  <2>4. BashTypeOK' /\ PromptIffFree'
    BY <1>a, <2>1, <2>2, <2>3 DEF BashTypeOK, PromptIffFree
  <2>5. TypedWhenFree' /\ FreeUnlessTimedOut' /\ OwnPrompt' /\ OwnExitCode'
    BY <2>1 DEF TypedWhenFree, FreeUnlessTimedOut, OwnPrompt, OwnExitCode, Bash!OwnExitCode
  <2>6. NoNewPrompt'
    <3>1. Bash!PromptCount(pane') \in Nat
      BY <2>3, PromptsFinite
    <3> QED BY <1>d, <2>1, <2>3, <3>1 DEF NoNewPrompt
  <2> QED BY <2>4, <2>5, <2>6
<1>2. CASE Bash!Finish
  <2> DEFINE item == Bash!Prompt(proc)
  <2>1. /\ proc # 0 /\ proc' = 0 /\ Bash!Show(item) /\ call.pc # "captured" /\ typed = <<>>
        /\ UNCHANGED <<typed, status, call, bCalls, printed, obs>>
    BY <1>2 DEF Bash!Finish, Bash!Quiet
  <2>2. item \in PaneItem /\ item.k = "ps1" /\ item.n = proc
    BY <1>a DEF Bash!Prompt, PaneItem
  <2> HIDE DEF item
  <2>3. pane' \in Seq(PaneItem) /\ Len(pane') # 0 /\ pane'[Len(pane')] = item
    BY <1>a, <2>1, <2>2, ShowsItem
  <2>4. BashTypeOK' /\ PromptIffFree'
    BY <1>a, <2>1, <2>2, <2>3 DEF BashTypeOK, PromptIffFree
  <2>5. TypedWhenFree' /\ FreeUnlessTimedOut' /\ NoNewPrompt' /\ OwnExitCode'
    BY <1>c, <2>1 DEF TypedWhenFree, FreeUnlessTimedOut, NoNewPrompt, OwnExitCode, Bash!OwnExitCode
  <2>6. OwnPrompt'
    BY <1>c, <2>1, <2>2, <2>3 DEF OwnPrompt
  <2> QED BY <2>4, <2>5, <2>6
<1>3. CASE Bash!Read
  <2> DEFINE n == Head(typed).n
             item == Bash!Echo(n)
  <2>1. /\ typed # <<>> /\ typed' = Tail(typed) /\ Bash!Show(item)
        /\ proc' = IF proc = 0 THEN n ELSE proc
        /\ UNCHANGED <<status, call, bCalls, printed, obs>>
    BY <1>3 DEF Bash!Read
  <2>2. Len(typed) = 1 /\ Head(typed) = typed[1] /\ typed[1] \in TypedLine
        /\ typed' \in Seq(TypedLine) /\ Len(typed') = 0
    BY <1>a, <1>c, <2>1
  <2>3. n \in Nat \ {0}
    BY <2>2 DEF TypedLine
  <2>4. n = call.n /\ call.pc = "polling" /\ (call.kind = "command" => proc = 0)
    BY <2>2 DEF TypedWhenFree
  <2>5. item \in PaneItem /\ item.k # "ps1"
    BY <2>3 DEF Bash!Echo, PaneItem
  <2> HIDE DEF item, n
  <2>6. /\ pane' \in Seq(PaneItem) /\ Len(pane') # 0 /\ pane'[Len(pane')] = item
        /\ Bash!PromptCount(pane') <= Bash!PromptCount(pane)
    BY <1>a, <2>1, <2>5, ShowsItem
  <2>7. proc' \in Nat /\ proc' # 0
    BY <1>a, <2>1, <2>3
  <2>8. BashTypeOK' /\ PromptIffFree'
    BY <1>a, <2>1, <2>2, <2>5, <2>6, <2>7 DEF BashTypeOK, PromptIffFree
  <2>9. TypedWhenFree' /\ FreeUnlessTimedOut' /\ OwnExitCode'
    BY <2>1, <2>2, <2>4 DEF TypedWhenFree, FreeUnlessTimedOut, OwnExitCode, Bash!OwnExitCode
  <2>10. OwnPrompt'
    BY <2>1, <2>4, <2>7 DEF OwnPrompt
  <2>11. NoNewPrompt'
    <3>1. Bash!PromptCount(pane') \in Nat
      BY <2>6, PromptsFinite
    <3>2. Bash!PromptCount(pane) <= Bash!PromptCount(call.initial)
      BY <2>2, <2>4 DEF NoNewPrompt
    <3> QED BY <1>d, <2>1, <2>6, <3>1, <3>2 DEF NoNewPrompt
  <2> QED BY <2>8, <2>9, <2>10, <2>11
<1>4. ASSUME NEW k \in {"command", "empty", "input"}, Bash!Capture(k) PROVE Good
  <2>1. /\ call.pc = "idle" /\ bCalls' = bCalls + 1
        /\ call' = [pc |-> "captured", kind |-> k, n |-> bCalls + 1, initial |-> pane]
        /\ UNCHANGED <<pane, proc, typed, printed, status, obs>>
    BY <1>4 DEF Bash!Capture, Bash!terminal
  <2>2. /\ call' \in BashCall /\ call'.pc = "captured" /\ call'.kind = k
        /\ call'.n = bCalls + 1 /\ call'.initial = pane
    BY <1>a, <2>1 DEF BashCall
  <2>3. Len(typed) = 0
    BY <1>a, <2>1 DEF TypedWhenFree
  <2>4. BashTypeOK' /\ PromptIffFree'
    BY <1>a, <2>1, <2>2 DEF BashTypeOK, PromptIffFree
  <2>5. TypedWhenFree' /\ OwnPrompt' /\ OwnExitCode'
    BY <2>1, <2>2, <2>3 DEF TypedWhenFree, OwnPrompt, OwnExitCode, Bash!OwnExitCode
  <2>6. FreeUnlessTimedOut'
    BY <1>a, <2>1, <2>2
       DEF FreeUnlessTimedOut, Bash!EndsWithPrompt, Bash!IsPrompt, Bash!Last
  <2>7. NoNewPrompt'
    BY <1>d, <2>1, <2>2 DEF NoNewPrompt
  <2> QED BY <2>4, <2>5, <2>6, <2>7
<1>5. CASE Bash!Refuse
  <2>1. /\ call.pc = "captured" /\ call' = Bash!Idle
        /\ UNCHANGED <<pane, proc, typed, printed, status, bCalls, obs>>
    BY <1>5 DEF Bash!Refuse, Bash!terminal
  <2>2. Len(typed) = 0
    BY <1>a, <2>1 DEF TypedWhenFree
  <2>3. BashTypeOK' /\ PromptIffFree'
    BY <1>a, <1>e, <2>1 DEF BashTypeOK, PromptIffFree
  <2> QED
    BY <1>e, <2>1, <2>2, <2>3 DEF TypedWhenFree, FreeUnlessTimedOut, OwnPrompt, NoNewPrompt,
       OwnExitCode, Bash!OwnExitCode
<1>6. CASE Bash!Send
  <2> DEFINE line == [n |-> call.n, kind |-> call.kind]
  <2>1. /\ call.pc = "captured" /\ ~ Bash!MustWait /\ call' = [call EXCEPT !.pc = "polling"]
        /\ typed' = IF call.kind = "empty" THEN typed ELSE Append(typed, line)
        /\ UNCHANGED <<pane, proc, printed, status, bCalls, obs>>
    BY <1>6 DEF Bash!Send
  <2>2. /\ call' \in BashCall /\ call'.pc = "polling" /\ call'.kind = call.kind
        /\ call'.n = call.n /\ call'.initial = call.initial
    BY <1>a, <2>1 DEF BashCall
  <2>3. Len(typed) = 0
    BY <1>a, <2>1 DEF TypedWhenFree
  <2>4. call.kind = "command" => proc = 0
    BY <2>1 DEF FreeUnlessTimedOut, Bash!MustWait
  <2>5. /\ call.kind = "empty" => typed' = typed
        /\ call.kind # "empty" =>
             /\ typed' \in Seq(TypedLine) /\ Len(typed') = 1
             /\ typed'[1].n = call.n /\ typed'[1].kind = call.kind
    <3>1. CASE call.kind = "empty"
      BY <2>1, <3>1
    <3>2. CASE call.kind # "empty"
      <4>1. line \in TypedLine /\ line.n = call.n /\ line.kind = call.kind
        BY <1>a, <1>b, <2>1, <3>2 DEF TypedLine
      <4> HIDE DEF line
      <4>2. typed' = Append(typed, line)
        BY <2>1, <3>2
      <4>3. typed' \in Seq(TypedLine) /\ Len(typed') = 1 /\ typed'[1] = line
        BY <1>a, <2>3, <4>1, <4>2
      <4> QED BY <3>2, <4>1, <4>3
    <3> QED BY <3>1, <3>2
  <2>6. BashTypeOK' /\ PromptIffFree'
    BY <1>a, <2>1, <2>2, <2>5 DEF BashTypeOK, PromptIffFree
  <2>7. TypedWhenFree' /\ OwnPrompt'
    BY <2>1, <2>2, <2>3, <2>4, <2>5 DEF TypedWhenFree, OwnPrompt
  <2>8. FreeUnlessTimedOut' /\ OwnExitCode'
    BY <2>1, <2>2 DEF FreeUnlessTimedOut, OwnExitCode, Bash!OwnExitCode
  <2>9. NoNewPrompt'
    BY <2>1, <2>2 DEF NoNewPrompt
  <2> QED BY <2>6, <2>7, <2>8, <2>9
<1>7. CASE Bash!HandleCompleted
  <2>1. /\ call.pc = "polling" /\ typed = <<>> /\ Bash!Complete /\ status' = "completed"
        /\ obs' = [kind |-> call.kind, n |-> call.n, of |-> Bash!LastPrompt(pane).n]
        /\ Bash!ReadyForNext /\ call' = Bash!Idle
        /\ UNCHANGED <<proc, typed, printed, bCalls>>
    BY <1>7 DEF Bash!HandleCompleted, Bash!Echoed
  <2>2. proc = 0
    BY <1>7, CompletedWhenFree
  <2>3. Bash!LastPrompt(pane) = pane[Len(pane)]
    BY <1>a, <2>2, LastIsPrompt
  <2>4. pane' = <<pane[Len(pane)]>>
    BY <1>7, CompletedWhenFree
  <2>5. pane[Len(pane)] \in PaneItem
    BY <1>a
  <2>6. pane' \in Seq(PaneItem) /\ Len(pane') = 1 /\ pane'[1] = pane[Len(pane)]
    BY <2>4, <2>5
  <2>7. BashTypeOK' /\ PromptIffFree'
    BY <1>a, <1>e, <2>1, <2>2, <2>6 DEF BashTypeOK, PromptIffFree
  <2>8. TypedWhenFree' /\ FreeUnlessTimedOut' /\ OwnPrompt' /\ NoNewPrompt'
    BY <1>c, <1>e, <2>1, <2>2 DEF TypedWhenFree, FreeUnlessTimedOut, OwnPrompt, NoNewPrompt
  <2>9. call.kind = "command" => pane[Len(pane)].n = call.n
    BY <1>c, <2>1, <2>2 DEF OwnPrompt
  <2>10. OwnExitCode'
    BY <2>1, <2>3, <2>9 DEF OwnExitCode, Bash!OwnExitCode
  <2> QED BY <2>7, <2>8, <2>10
<1>8. ASSUME NEW reason \in Bash!TimedOut, Bash!HandleTimeout(reason) PROVE Good
  <2>1. /\ call.pc = "polling" /\ typed = <<>> /\ status' = reason /\ call' = Bash!Idle
        /\ UNCHANGED <<pane, proc, typed, printed, bCalls, obs>>
    BY <1>8 DEF Bash!HandleTimeout, Bash!Echoed, Bash!terminal
  <2>2. BashTypeOK' /\ PromptIffFree'
    BY <1>a, <1>e, <2>1 DEF BashTypeOK, PromptIffFree
  <2> QED
    BY <1>c, <1>e, <2>1, <2>2 DEF TypedWhenFree, FreeUnlessTimedOut, OwnPrompt, NoNewPrompt,
       OwnExitCode, Bash!OwnExitCode
<1>9. CASE UNCHANGED Bash!vars
  BY <1>9 DEF Bash!vars, BashTypeOK, PromptIffFree, TypedWhenFree, FreeUnlessTimedOut, OwnPrompt,
     NoNewPrompt, OwnExitCode, Bash!OwnExitCode
<1> HIDE DEF Good
<1> QED
  BY <1>1, <1>2, <1>3, <1>4, <1>5, <1>6, <1>7, <1>8, <1>9 DEF Bash!Next

(***************************************************************************)
(* Without the races, BashSession types no command into a process that     *)
(* still runs, for any number of calls and lines and any history limit:    *)
(* the prompt at the end of the pane, and that no call ends before what it *)
(* typed was read, are enough to know.                                     *)
(***************************************************************************)
THEOREM BashNotTypedIntoRunning == Bash!Spec => []NotTypedIntoRunning
<1>1. BashInv => NotTypedIntoRunning
  <2> SUFFICES ASSUME BashInv, NEW i \in DOMAIN typed, typed[i].kind = "command" PROVE proc = 0
    BY DEF NotTypedIntoRunning, Bash!NotTypedIntoRunning
  <2>1. typed \in Seq(TypedLine) /\ Len(typed) <= 1 /\ Len(typed) \in Nat
    BY DEF BashInv, BashTypeOK, TypedWhenFree
  <2>2. i = 1 /\ Len(typed) # 0
    BY <2>1
  <2> QED BY <2>2 DEF BashInv, TypedWhenFree
<1> QED
  BY <1>1, BashInvInit, BashInvNext, PTL DEF Bash!Spec

(***************************************************************************)
(* And the exit code that an observation of a completed command gives is   *)
(* the command's own: the prompt that is last in the pane is the one shown *)
(* when that command ended.                                                *)
(***************************************************************************)
THEOREM BashOwnExitCode == Bash!Spec => []OwnExitCode
<1>1. BashInv => OwnExitCode
  BY DEF BashInv
<1> QED
  BY <1>1, BashInvInit, BashInvNext, PTL DEF Bash!Spec

-----------------------------------------------------------------------------
(***************************************************************************)
(* LoopRecovery.                                                           *)
(***************************************************************************)
LoopEvents ==
    [k : {"act", "obs", "say", "user"},
     v : LoopActions \cup LoopObservations
           \cup {"words", "recover", "workspace", "recall", "reset", "restarting"}]

LoopTypeOK ==
    /\ lStream \in Seq(LoopEvents)
    /\ lHistory \in Seq(Nat)
    /\ \A i \in 1 .. Len(lHistory) : lHistory[i] \in 1 .. Len(lStream)
    /\ endId \in 0 .. Len(lStream)
    /\ analysis \in Nat
    /\ found \in 0 .. Len(lStream)
    /\ restarts \in Nat

\* As long as a recovery is possible: what stands in the history at or after the
\* beginning of the loop is no message of the user, or it came after the analysis.
LoopAfterUser ==
    analysis # 0 =>
        \A i \in 1 .. Len(lHistory) :
            i >= analysis => lStream[lHistory[i]].k # "user" \/ lHistory[i] > found

LoopInv == LoopTypeOK /\ LoopAfterUser

\* Every set of naturals that is not empty has a least element.
LEMMA LeastNatural ==
    ASSUME NEW S \in SUBSET Nat, S # {}
    PROVE  \E x \in S : \A y \in S : x <= y
<1> DEFINE R == OpToRel(<, Nat)
<1>1. \A x, y \in Nat : <<x, y>> \in R <=> x < y
  BY DEF OpToRel
<1>2. IsWellFoundedOn(R, Nat)
  BY NatLessThanWellFounded
<1> HIDE DEF R
<1>3. PICK x \in S : \A y \in S : ~(<<y, x>> \in R)
  <2>1. S \subseteq Nat
    OBVIOUS
  <2> QED
    BY WFMin, <1>2, <2>1
<1>4. \A y \in S : x <= y
  <2>1. \A y \in S : ~(y < x)
    BY <1>1, <1>3
  <2> QED
    BY <2>1
<1> QED
  BY <1>4

\* The least and the greatest of some positions in a sequence (SelectInSeq).
LEMMA LeastPosition ==
    ASSUME NEW n \in Nat, NEW S \in SUBSET (1 .. n), S # {}
    PROVE  Loop!Min(S) \in S
<1>1. PICK x \in S : \A y \in S : x <= y
  BY LeastNatural
<1> QED
  BY <1>1 DEF Loop!Min

\* ... and SelectLastInSeq: the least bound of the set is one of its elements.
LEMMA GreatestPosition ==
    ASSUME NEW n \in Nat, NEW S \in SUBSET (1 .. n), S # {}
    PROVE  Loop!Max(S) \in S /\ \A y \in S : y <= Loop!Max(S)
<1> DEFINE U == {m \in Nat : \A y \in S : y <= m}
<1>1. n \in U /\ U \subseteq Nat
  OBVIOUS
<1>2. PICK m \in U : \A u \in U : m <= u
  <2> HIDE DEF U
  <2> QED
    BY <1>1, LeastNatural
<1>3. m \in S
  <2> SUFFICES ASSUME m \notin S PROVE FALSE
    OBVIOUS
  <2>1. \A y \in S : y \in Nat \ {0} /\ y <= m /\ y # m
    OBVIOUS
  <2>2. m - 1 \in U /\ m \in Nat
    <3>1. PICK y \in S : TRUE
      OBVIOUS
    <3>2. m \in Nat /\ m - 1 \in Nat
      BY <2>1, <3>1
    <3>3. \A z \in S : z <= m - 1
      BY <2>1, <3>2
    <3> QED
      BY <3>2, <3>3
  <2>3. m <= m - 1
    <3> HIDE DEF U
    <3> QED
      BY <1>2, <2>2
  <2> QED
    BY <2>2, <2>3
<1> QED
  BY <1>3 DEF Loop!Max

\* The index of the loop is a position.
LEMMA LoopStartPosition ==
    ASSUME NEW S, NEW h \in Seq(S)
    PROVE  Loop!LoopStart(h) \in Nat
<1>1. \A e : Loop!Index(h, e) \in Nat
  <2> SUFFICES ASSUME NEW e PROVE Loop!Index(h, e) \in Nat
    OBVIOUS
  <2> DEFINE I == {i \in 1 .. Len(h) : h[i] = e}
  <2>1. Loop!Index(h, e) = IF I # {} THEN Loop!Min(I) ELSE 0
    BY DEF Loop!Index, Loop!SelectInSeq
  <2>2. I # {} => Loop!Min(I) \in I
    <3>1. I \in SUBSET (1 .. Len(h)) /\ Len(h) \in Nat
      OBVIOUS
    <3> HIDE DEF I
    <3> QED
      BY <3>1, LeastPosition
  <2> QED
    BY <2>1, <2>2
<1>2. Loop!Monologue(h) # {} => (CHOOSE i \in Loop!Monologue(h) : TRUE) \in Nat
  <2>1. Loop!Monologue(h) \subseteq 1 .. Len(h)
    BY DEF Loop!Monologue, Loop!Says
  <2> QED
    BY <2>1
<1> QED
  BY <1>1, <1>2 DEF Loop!LoopStart

\* A loop that is_stuck finds begins after the last message of the user.
LEMMA StuckAfterUser ==
    ASSUME LoopTypeOK, Loop!IsStuck(lHistory) # 0
    PROVE  /\ Loop!IsStuck(lHistory) \in Nat
           /\ \A i \in 1 .. Len(lHistory) :
                i >= Loop!IsStuck(lHistory) => lStream[lHistory[i]].k # "user"
<1> DEFINE ev == Loop!Events(lHistory)
           users == {i \in 1 .. Len(ev) : Loop!IsUser(ev[i])}
           lastUser == Loop!LastUser(lHistory)
           start == Loop!LoopStart(SubSeq(ev, lastUser + 1, Len(lHistory)))
<1>1. /\ ev \in Seq(LoopEvents) /\ Len(ev) = Len(lHistory) /\ Len(lHistory) \in Nat
      /\ \A i \in 1 .. Len(lHistory) : ev[i] = lStream[lHistory[i]]
  <2>1. /\ lHistory \in Seq(Nat) /\ lStream \in Seq(LoopEvents)
        /\ DOMAIN lHistory = 1 .. Len(lHistory) /\ Len(lHistory) \in Nat
        /\ ev = [i \in 1 .. Len(lHistory) |-> lStream[lHistory[i]]]
    BY DEF Loop!Events, LoopTypeOK
  <2>2. \A i \in 1 .. Len(lHistory) : lStream[lHistory[i]] \in LoopEvents
    BY <2>1 DEF LoopTypeOK
  <2> HIDE DEF ev
  <2> QED
    BY <2>1, <2>2
<1>2. lastUser = IF users # {} THEN Loop!Max(users) ELSE 0
  BY DEF Loop!LastUser, Loop!SelectLastInSeq
<1> HIDE DEF ev
<1>3. users # {} => Loop!Max(users) \in users /\ \A y \in users : y <= Loop!Max(users)
  <2>1. users \in SUBSET (1 .. Len(lHistory)) /\ Len(lHistory) \in Nat
    BY <1>1
  <2> HIDE DEF users
  <2> QED
    BY <2>1, GreatestPosition
<1> HIDE DEF lastUser
<1>4. lastUser \in 0 .. Len(lHistory) /\ \A y \in users : y <= lastUser
  BY <1>1, <1>2, <1>3
<1>5. SubSeq(ev, lastUser + 1, Len(lHistory)) \in Seq(LoopEvents)
  BY <1>1, <1>4
<1>6. start \in Nat
  BY <1>5, LoopStartPosition
<1>7. Loop!IsStuck(lHistory) = IF start = 0 THEN 0 ELSE lastUser + start
  BY DEF Loop!IsStuck, ev, lastUser
<1> HIDE DEF start
<1>8. Loop!IsStuck(lHistory) = lastUser + start /\ start > 0
  BY <1>6, <1>7
<1>9. ASSUME NEW i \in 1 .. Len(lHistory), i >= lastUser + start
      PROVE  lStream[lHistory[i]].k # "user"
  <2>1. i \notin users
    BY <1>4, <1>6, <1>8, <1>9
  <2> QED
    BY <1>1, <2>1 DEF Loop!IsUser
<1> QED
  BY <1>4, <1>6, <1>8, <1>9

\* Events that are added to the stream and to the history come after the analysis.
LEMMA LoopEmits ==
    ASSUME LoopInv, NEW s \in Seq(LoopEvents), Loop!Emit(s), UNCHANGED <<endId, found, restarts>>,
           analysis' \in {0, analysis}
    PROVE  /\ LoopInv'
           /\ \A i \in 1 .. Len(lHistory) :
                i \in 1 .. Len(lHistory') /\ lHistory'[i] = lHistory[i]
<1> DEFINE new == [n \in DOMAIN s |-> Len(lStream) + n]
<1>1. /\ lStream \in Seq(LoopEvents) /\ lHistory \in Seq(Nat)
      /\ Len(lStream) \in Nat /\ Len(lHistory) \in Nat /\ Len(s) \in Nat
      /\ \A i \in 1 .. Len(lHistory) : lHistory[i] \in 1 .. Len(lStream)
      /\ endId \in 0 .. Len(lStream) /\ analysis \in Nat /\ restarts \in Nat
      /\ found \in 0 .. Len(lStream)
  BY DEF LoopInv, LoopTypeOK
<1>2. /\ new \in Seq(Nat) /\ Len(new) = Len(s)
      /\ \A n \in 1 .. Len(s) : new[n] = Len(lStream) + n
  BY <1>1
<1>3. lStream' = lStream \o s /\ lHistory' = lHistory \o new
  BY DEF Loop!Emit
<1> HIDE DEF new
<1>4. /\ lStream' \in Seq(LoopEvents) /\ Len(lStream') = Len(lStream) + Len(s)
      /\ \A i \in 1 .. Len(lStream) : lStream'[i] = lStream[i]
      /\ \A n \in 1 .. Len(s) : lStream'[Len(lStream) + n] = s[n]
  BY <1>1, <1>3
<1>5. /\ lHistory' \in Seq(Nat) /\ Len(lHistory') = Len(lHistory) + Len(s)
      /\ \A i \in 1 .. Len(lHistory) : lHistory'[i] = lHistory[i]
      /\ \A n \in 1 .. Len(s) : lHistory'[Len(lHistory) + n] = Len(lStream) + n
  BY <1>1, <1>2, <1>3
<1>6. \A i \in 1 .. Len(lHistory') :
        \/ i \in 1 .. Len(lHistory)
        \/ i - Len(lHistory) \in 1 .. Len(s) /\ i = Len(lHistory) + (i - Len(lHistory))
  BY <1>1, <1>5
<1>7. LoopTypeOK'
  <2>1. ASSUME NEW i \in 1 .. Len(lHistory') PROVE lHistory'[i] \in 1 .. Len(lStream')
    <3>1. CASE i \in 1 .. Len(lHistory)
      <4>1. lHistory'[i] = lHistory[i] /\ lHistory[i] \in 1 .. Len(lStream)
        BY <1>1, <1>5, <3>1
      <4> QED
        BY <1>1, <1>4, <4>1
    <3>2. ASSUME NEW n \in 1 .. Len(s), i = Len(lHistory) + n
          PROVE  lHistory'[i] \in 1 .. Len(lStream')
      <4>1. lHistory'[i] = Len(lStream) + n
        BY <1>5, <3>2
      <4> QED
        BY <1>1, <1>4, <4>1
    <3> QED
      BY <1>6, <3>1, <3>2
  <2> QED
    BY <1>1, <1>4, <1>5, <2>1 DEF LoopTypeOK
<1>8. LoopAfterUser'
  <2> SUFFICES ASSUME analysis' # 0, NEW i \in 1 .. Len(lHistory'), i >= analysis'
               PROVE  lStream'[lHistory'[i]].k # "user" \/ lHistory'[i] > found'
    BY DEF LoopAfterUser
  <2>1. analysis' = analysis /\ found' = found
    OBVIOUS
  <2>2. CASE i \in 1 .. Len(lHistory)
    <3>1. lHistory'[i] = lHistory[i] /\ lHistory[i] \in 1 .. Len(lStream)
      BY <1>1, <1>5, <2>2
    <3>2. lStream'[lHistory'[i]] = lStream[lHistory[i]]
      BY <1>4, <3>1
    <3>3. lStream[lHistory[i]].k # "user" \/ lHistory[i] > found
      BY <2>1, <2>2 DEF LoopInv, LoopAfterUser
    <3> QED
      BY <2>1, <3>1, <3>2, <3>3
  <2>3. ASSUME NEW n \in 1 .. Len(s), i = Len(lHistory) + n
        PROVE  lHistory'[i] > found'
    <3>1. lHistory'[i] = Len(lStream) + n
      BY <1>5, <2>3
    <3> QED
      BY <1>1, <2>1, <3>1
  <2> QED
    BY <1>6, <2>2, <2>3
<1>9. \A i \in 1 .. Len(lHistory) : i \in 1 .. Len(lHistory') /\ lHistory'[i] = lHistory[i]
  BY <1>1, <1>5
<1> QED
  BY <1>7, <1>8, <1>9 DEF LoopInv

\* The beginning of a history, and the last id in it.
LEMMA SeqBeginning ==
    ASSUME NEW h \in Seq(Nat), NEW n \in 0 .. Len(h)
    PROVE  /\ SubSeq(h, 1, n) \in Seq(Nat)
           /\ Len(SubSeq(h, 1, n)) = n
           /\ \A i \in 1 .. n : SubSeq(h, 1, n)[i] = h[i]
  OBVIOUS

\* ... and that id is 0 or one of those in the history.
LEMMA LastOrZero ==
    ASSUME NEW h \in Seq(Nat), NEW m \in Nat, \A i \in 1 .. Len(h) : h[i] \in 1 .. m
    PROVE  Loop!Last(<<0>> \o h) \in 0 .. m
<1>1. Len(h) \in Nat /\ <<0>> \o h \in Seq(Nat) /\ Len(<<0>> \o h) = 1 + Len(h)
  OBVIOUS
<1>2. CASE Len(h) = 0
  <2>1. (<<0>> \o h)[1] = 0
    OBVIOUS
  <2> QED
    BY <1>1, <1>2, <2>1 DEF Loop!Last
<1>3. CASE Len(h) # 0
  <2>1. Len(h) \in 1 .. Len(h)
    BY <1>1, <1>3
  <2>2. (<<0>> \o h)[1 + Len(h)] = h[Len(h)]
    BY <1>1, <1>3
  <2> QED
    BY <1>1, <2>1, <2>2 DEF Loop!Last
<1> QED
  BY <1>2, <1>3

\* _truncate_memory_to_point keeps what is before the index, if there is so much.
LEMMA Truncates ==
    ASSUME NEW h \in Seq(Nat), analysis \in Nat, analysis # 0
    PROVE  /\ Loop!Truncated(h) \in Seq(Nat) /\ Len(Loop!Truncated(h)) \in Nat
           /\ analysis > Len(h) => Loop!Truncated(h) = h
           /\ ~(analysis > Len(h)) => Len(Loop!Truncated(h)) = analysis - 1
           /\ \A i \in 1 .. Len(Loop!Truncated(h)) :
                i \in 1 .. Len(h) /\ Loop!Truncated(h)[i] = h[i]
<1>0. Len(h) \in Nat
  OBVIOUS
<1>1. CASE analysis > Len(h)
  <2>1. Loop!Truncated(h) = h
    BY <1>1 DEF Loop!Truncated
  <2> QED
    BY <1>0, <1>1, <2>1
<1>2. CASE ~(analysis > Len(h))
  <2>1. Loop!Truncated(h) = SubSeq(h, 1, analysis - 1) /\ analysis - 1 \in 0 .. Len(h)
    BY <1>0, <1>2 DEF Loop!Truncated
  <2>2. /\ Loop!Truncated(h) \in Seq(Nat)
        /\ Len(Loop!Truncated(h)) = analysis - 1
        /\ \A i \in 1 .. analysis - 1 : Loop!Truncated(h)[i] = h[i]
    BY <2>1, SeqBeginning
  <2>3. \A i \in 1 .. analysis - 1 : i \in 1 .. Len(h)
    BY <1>0, <2>1
  <2> QED
    BY <1>2, <2>1, <2>2, <2>3
<1> QED
  BY <1>1, <1>2

\* The history with the request to recover.
LEMMA AskedHistory ==
    ASSUME NEW h \in Seq(Nat), NEW m \in Nat, \A i \in 1 .. Len(h) : h[i] \in 1 .. m
    PROVE  /\ Append(h, m + 1) \in Seq(Nat)
           /\ Len(h) \in Nat /\ Len(Append(h, m + 1)) = Len(h) + 1
           /\ \A i \in 1 .. Len(h) + 1 : Append(h, m + 1)[i] \in 1 .. m + 1
           /\ \A i \in 1 .. Len(h) : Append(h, m + 1)[i] = h[i]
<1>1. /\ Append(h, m + 1) \in Seq(Nat)
      /\ Len(h) \in Nat /\ Len(Append(h, m + 1)) = Len(h) + 1
      /\ Append(h, m + 1)[Len(h) + 1] = m + 1
      /\ \A i \in 1 .. Len(h) : Append(h, m + 1)[i] = h[i]
  OBVIOUS
<1>2. \A i \in 1 .. Len(h) + 1 : i \in 1 .. Len(h) \/ i = Len(h) + 1
  BY <1>1
<1>3. \A i \in 1 .. Len(h) : h[i] \in 1 .. m + 1
  OBVIOUS
<1> QED
  BY <1>1, <1>2, <1>3

\* The note about a recovery is no message of the user.
LEMMA Notes ==
    ASSUME NEW option \in {1, 2}, NEW note, note = Loop!Note(option)
    PROVE  /\ note \in Seq(LoopEvents) /\ Len(note) \in Nat
           /\ \A n \in 1 .. Len(note) : note[n].k # "user"
<1>1. Loop!Obs("reset") \in LoopEvents /\ Loop!Obs("reset").k # "user"
  BY DEF Loop!Obs, LoopEvents
<1>2. Loop!Obs("restarting") \in LoopEvents /\ Loop!Obs("restarting").k # "user"
  BY DEF Loop!Obs, LoopEvents
<1>3. Loop!Recall \in LoopEvents /\ Loop!Recall.k # "user"
  BY DEF Loop!Recall, Loop!Act, LoopEvents
<1>4. note = <<Loop!Obs("reset")>> \/ note = <<Loop!Obs("restarting"), Loop!Recall>>
  BY DEF Loop!Note
<1>5. CASE note = <<Loop!Obs("reset")>>
  BY <1>1, <1>5
<1>6. CASE note = <<Loop!Obs("restarting"), Loop!Recall>>
  BY <1>2, <1>3, <1>6
<1> QED
  BY <1>4, <1>5, <1>6

\* A recovery cuts the history where the loop begins.
LEMMA LoopRecovers ==
    ASSUME LoopInv, NEW option \in {1, 2}, Loop!Recover(option)
    PROVE  /\ LoopInv'
           /\ \A i \in 1 .. Len(lHistory) : lStream[lHistory[i]].k = "user" =>
                \/ i \in 1 .. Len(lHistory') /\ lHistory'[i] = lHistory[i]
                \/ analysis # 0 /\ lHistory[i] > found
<1> DEFINE asked == Append(lHistory, Len(lStream) + 1)
           cut == Loop!Truncated(asked)
           note == Loop!Note(option)
           ids == [n \in DOMAIN note |-> Len(lStream) + 1 + n]
<1>1. /\ lStream \in Seq(LoopEvents) /\ lHistory \in Seq(Nat)
      /\ Len(lStream) \in Nat /\ Len(lHistory) \in Nat
      /\ \A i \in 1 .. Len(lHistory) : lHistory[i] \in 1 .. Len(lStream)
      /\ endId \in 0 .. Len(lStream) /\ analysis \in Nat /\ restarts \in Nat
      /\ found \in 0 .. Len(lStream)
  BY DEF LoopInv, LoopTypeOK
<1>2. /\ analysis # 0 /\ UNCHANGED <<analysis, found, restarts>>
      /\ lStream' = Append(lStream, Loop!Act("recover")) \o note
      /\ lHistory' = cut \o ids
      /\ endId' = Loop!EndIdOf(asked)
  BY DEF Loop!Recover
<1>2a. /\ note \in Seq(LoopEvents) /\ Len(note) \in Nat
       /\ \A n \in 1 .. Len(note) : note[n].k # "user"
  <2>1. note = Loop!Note(option)
    OBVIOUS
  <2> HIDE DEF note
  <2> QED
    BY <2>1, Notes
<1> HIDE DEF note
<1>2b. /\ ids \in Seq(Nat) /\ Len(ids) = Len(note)
       /\ \A n \in 1 .. Len(note) : ids[n] = Len(lStream) + 1 + n
  <2>1. DOMAIN note = 1 .. Len(note)
    BY <1>2a
  <2>2. ids = [n \in 1 .. Len(note) |-> Len(lStream) + 1 + n]
    BY <2>1
  <2> HIDE DEF ids
  <2> QED
    BY <1>1, <1>2a, <2>2
<1> HIDE DEF ids
<1>3. /\ asked \in Seq(Nat) /\ Len(asked) = Len(lHistory) + 1
      /\ \A i \in 1 .. Len(asked) : asked[i] \in 1 .. Len(lStream) + 1
      /\ \A i \in 1 .. Len(lHistory) : asked[i] = lHistory[i]
  <2>1. /\ asked \in Seq(Nat) /\ Len(asked) = Len(lHistory) + 1
        /\ \A i \in 1 .. Len(lHistory) + 1 : asked[i] \in 1 .. Len(lStream) + 1
        /\ \A i \in 1 .. Len(lHistory) : asked[i] = lHistory[i]
    BY <1>1, AskedHistory
  <2> HIDE DEF asked
  <2> QED
    BY <2>1
<1> HIDE DEF asked
<1>4. /\ cut \in Seq(Nat) /\ Len(cut) \in Nat
      /\ analysis > Len(asked) => cut = asked
      /\ ~(analysis > Len(asked)) => Len(cut) = analysis - 1
      /\ \A i \in 1 .. Len(cut) : i \in 1 .. Len(asked) /\ cut[i] = asked[i]
  BY <1>1, <1>2, <1>3, Truncates
<1>5. /\ lStream' \in Seq(LoopEvents) /\ Len(lStream') = Len(lStream) + 1 + Len(note)
      /\ \A i \in 1 .. Len(lStream) : lStream'[i] = lStream[i]
      /\ lStream'[Len(lStream) + 1] = Loop!Act("recover")
      /\ \A n \in 1 .. Len(note) : lStream'[Len(lStream) + 1 + n] = note[n]
  <2> DEFINE mid == Append(lStream, Loop!Act("recover"))
  <2>1. Loop!Act("recover") \in LoopEvents
    BY DEF Loop!Act, LoopEvents
  <2>2. /\ mid \in Seq(LoopEvents) /\ Len(mid) = Len(lStream) + 1
        /\ mid[Len(lStream) + 1] = Loop!Act("recover")
        /\ \A i \in 1 .. Len(lStream) : mid[i] = lStream[i]
    BY <1>1, <2>1
  <2>3. lStream' = mid \o note
    BY <1>2
  <2> HIDE DEF mid
  <2>3a. mid \in Seq(LoopEvents) /\ note \in Seq(LoopEvents)
    BY <1>2a, <2>2
  <2>4. /\ lStream' \in Seq(LoopEvents) /\ Len(lStream') = Len(mid) + Len(note)
        /\ \A i \in 1 .. Len(mid) : lStream'[i] = mid[i]
        /\ \A n \in 1 .. Len(note) : lStream'[Len(mid) + n] = note[n]
    BY <2>3, <2>3a
  <2>5. \A i \in 1 .. Len(lStream) : i \in 1 .. Len(mid)
    BY <1>1, <2>2
  <2>6. Len(lStream) + 1 \in 1 .. Len(mid)
    BY <1>1, <2>2
  <2> QED
    BY <2>2, <2>4, <2>5, <2>6
<1>6. \A i \in 1 .. Len(cut) : cut[i] \in 1 .. Len(lStream) + 1
  BY <1>3, <1>4
<1> HIDE DEF cut
<1>7. /\ lHistory' \in Seq(Nat) /\ Len(lHistory') = Len(cut) + Len(note)
      /\ \A n \in 1 .. Len(note) : lHistory'[Len(cut) + n] = Len(lStream) + 1 + n
      /\ \A i \in 1 .. Len(cut) : lHistory'[i] = cut[i]
  <2>1. lHistory' = cut \o ids
    BY <1>2
  <2>1a. cut \in Seq(Nat) /\ ids \in Seq(Nat)
    BY <1>2b, <1>4
  <2>2. /\ lHistory' \in Seq(Nat) /\ Len(lHistory') = Len(cut) + Len(ids)
        /\ \A i \in 1 .. Len(cut) : lHistory'[i] = cut[i]
        /\ \A n \in 1 .. Len(ids) : lHistory'[Len(cut) + n] = ids[n]
    BY <2>1, <2>1a
  <2> QED
    BY <1>2b, <2>2
<1>8. \A i \in 1 .. Len(lHistory') :
        \/ i \in 1 .. Len(cut)
        \/ i - Len(cut) \in 1 .. Len(note) /\ i = Len(cut) + (i - Len(cut))
  BY <1>2a, <1>4, <1>7
<1>9. endId' \in 0 .. Len(lStream')
  <2>1. CASE analysis > Len(asked)
    BY <1>1, <1>2, <1>2a, <1>5, <2>1 DEF Loop!EndIdOf
  <2>2. CASE ~(analysis > Len(asked))
    <3>1. endId' = Loop!Last(<<0>> \o cut)
      BY <1>2, <2>2 DEF Loop!EndIdOf, cut
    <3>2. Len(lStream) + 1 \in Nat
      BY <1>1
    <3>3. Loop!Last(<<0>> \o cut) \in 0 .. Len(lStream) + 1
      BY <1>4, <1>6, <3>2, LastOrZero
    <3>4. endId' \in 0 .. Len(lStream) + 1
      BY <3>1, <3>3
    <3> QED
      BY <1>1, <1>2a, <1>5, <3>4
  <2> QED
    BY <2>1, <2>2
<1>10. LoopTypeOK'
  <2>1. ASSUME NEW i \in 1 .. Len(lHistory') PROVE lHistory'[i] \in 1 .. Len(lStream')
    <3>1. CASE i \in 1 .. Len(cut)
      <4>1. lHistory'[i] \in 1 .. Len(lStream) + 1
        BY <1>6, <1>7, <3>1
      <4> QED
        BY <1>1, <1>2a, <1>5, <4>1
    <3>2. ASSUME NEW n \in 1 .. Len(note), i = Len(cut) + n
          PROVE  lHistory'[i] \in 1 .. Len(lStream')
      <4>1. lHistory'[i] = Len(lStream) + 1 + n
        BY <1>7, <3>2
      <4> QED
        BY <1>1, <1>2a, <1>5, <4>1
    <3> QED
      BY <1>8, <3>1, <3>2
  <2>2. found' \in 0 .. Len(lStream')
    BY <1>1, <1>2, <1>2a, <1>5
  <2> QED
    BY <1>1, <1>2, <1>5, <1>7, <1>9, <2>1, <2>2 DEF LoopTypeOK
<1>11. LoopAfterUser'
  <2> SUFFICES ASSUME NEW i \in 1 .. Len(lHistory'), i >= analysis
               PROVE  lStream'[lHistory'[i]].k # "user"
    BY <1>2 DEF LoopAfterUser
  <2>1. ASSUME NEW n \in 1 .. Len(note), i = Len(cut) + n
        PROVE  lStream'[lHistory'[i]].k # "user"
    <3>1. lHistory'[i] = Len(lStream) + 1 + n
      BY <1>7, <2>1
    <3>2. lStream'[lHistory'[i]] = note[n]
      BY <1>5, <3>1
    <3> QED
      BY <1>2a, <3>2
  <2>2. CASE i \in 1 .. Len(cut)
    <3>1. analysis > Len(asked)
      BY <1>1, <1>2, <1>4, <2>2
    <3> QED
      BY <1>1, <1>3, <1>4, <2>2, <3>1
  <2> QED
    BY <1>8, <2>1, <2>2
<1>12. ASSUME NEW i \in 1 .. Len(lHistory), lStream[lHistory[i]].k = "user",
              ~(lHistory[i] > found)
       PROVE  i \in 1 .. Len(lHistory') /\ lHistory'[i] = lHistory[i]
  <2>1. ~(i >= analysis)
    BY <1>2, <1>12 DEF LoopInv, LoopAfterUser
  <2>2. i \in 1 .. Len(cut)
    <3>1. analysis \in Nat /\ i \in Nat /\ i < analysis
      BY <1>1, <2>1
    <3>2. CASE analysis > Len(asked)
      <4>1. Len(cut) = Len(lHistory) + 1
        BY <1>3, <1>4, <3>2
      <4> QED BY <1>1, <4>1
    <3>3. CASE ~(analysis > Len(asked))
      <4>1. Len(cut) = analysis - 1
        BY <1>4, <3>3
      <4> QED BY <3>1, <4>1
    <3> QED BY <3>2, <3>3
  <2> QED
    BY <1>3, <1>4, <1>7, <2>2
<1> QED
  BY <1>2, <1>10, <1>11, <1>12 DEF LoopInv

\* No message of the user leaves the history, unless it came after the analysis.
UserIdsKept ==
    \A i \in 1 .. Len(lHistory) : lStream[lHistory[i]].k = "user" =>
        \/ i \in 1 .. Len(lHistory') /\ lHistory'[i] = lHistory[i]
        \/ analysis # 0 /\ lHistory[i] > found

\* The first message and what is recalled for it.
LEMMA LoopInvInit == ASSUME Loop!Init PROVE LoopInv
<1>1. /\ lStream = <<Loop!User, Loop!FirstRecall>> /\ lHistory = <<1, 2>> /\ endId = 0 /\ analysis = 0
      /\ found = 0 /\ restarts = 0
  BY DEF Loop!Init
<1>2. Loop!User \in LoopEvents /\ Loop!FirstRecall \in LoopEvents
  BY DEF Loop!User, Loop!FirstRecall, Loop!Act, LoopEvents
<1>3. lStream \in Seq(LoopEvents) /\ Len(lStream) = 2
  BY <1>1, <1>2
<1>4. lHistory \in Seq(Nat) /\ Len(lHistory) = 2 /\ lHistory[1] = 1 /\ lHistory[2] = 2
  BY <1>1
<1> QED
  BY <1>1, <1>3, <1>4 DEF LoopInv, LoopTypeOK, LoopAfterUser

\* What the agent and the user add to the stream.
LEMMA LoopSays ==
    /\ <<Loop!User, Loop!Recall>> \in Seq(LoopEvents)
    /\ <<Loop!Say>> \in Seq(LoopEvents)
    /\ \A a \in LoopActions, o \in LoopObservations :
         <<Loop!Act(a), Loop!Obs(o)>> \in Seq(LoopEvents)
    /\ <<Loop!Act("recover")>> \in Seq(LoopEvents)
<1>1. Loop!User \in LoopEvents /\ Loop!Recall \in LoopEvents /\ Loop!Say \in LoopEvents
  BY DEF Loop!User, Loop!Recall, Loop!Act, Loop!Say, LoopEvents
<1>2. Loop!Act("recover") \in LoopEvents
  BY DEF Loop!Act, LoopEvents
<1>3. \A a \in LoopActions, o \in LoopObservations :
        Loop!Act(a) \in LoopEvents /\ Loop!Obs(o) \in LoopEvents
  BY DEF Loop!Act, Loop!Obs, LoopEvents
<1> QED
  BY <1>1, <1>2, <1>3

\* Every step keeps the invariant; but for a restart, only messages of the user that
\* came after the analysis are taken away.
LEMMA LoopInvNext ==
    ASSUME LoopInv, [Loop!Next]_Loop!vars
    PROVE  LoopInv' /\ (restarts' = restarts => UserIdsKept)
<1>1. CASE Loop!UserMessage
  BY <1>1, LoopEmits, LoopSays DEF Loop!UserMessage, UserIdsKept
<1>2. CASE Loop!StepStuck
  <2>1. /\ analysis' = Loop!IsStuck(lHistory) /\ Loop!IsStuck(lHistory) # 0
        /\ found' = Len(lStream)
        /\ UNCHANGED <<lStream, lHistory, endId, restarts>>
    BY <1>2 DEF Loop!StepStuck
  <2>2. /\ Loop!IsStuck(lHistory) \in Nat
        /\ \A i \in 1 .. Len(lHistory) :
             i >= Loop!IsStuck(lHistory) => lStream[lHistory[i]].k # "user"
    BY <2>1, StuckAfterUser DEF LoopInv
  <2>3. found' \in 0 .. Len(lStream')
    BY <2>1 DEF LoopInv, LoopTypeOK
  <2> QED
    BY <2>1, <2>2, <2>3 DEF LoopInv, LoopTypeOK, LoopAfterUser, UserIdsKept
<1>3. CASE Loop!StepActs
  <2>1. analysis' \in {0, analysis} /\ UNCHANGED <<endId, found, restarts>>
    BY <1>3 DEF Loop!StepActs
  <2>2. \/ \E a \in LoopActions, o \in LoopObservations : Loop!Emit(<<Loop!Act(a), Loop!Obs(o)>>)
        \/ Loop!Emit(<<Loop!Say>>)
    BY <1>3 DEF Loop!StepActs
  <2> QED
    BY <2>1, <2>2, LoopEmits, LoopSays DEF UserIdsKept
<1>4. CASE \E option \in {1, 2} : Loop!Recover(option)
  BY <1>4, LoopRecovers DEF UserIdsKept
<1>5. CASE Loop!StopStuck
  BY <1>5, LoopEmits, LoopSays DEF Loop!StopStuck, UserIdsKept
<1>6. CASE Loop!Restart
  <2> DEFINE n == IF endId = 0 THEN Len(lStream) ELSE endId
  <2>1. /\ lStream \in Seq(LoopEvents) /\ Len(lStream) \in Nat
        /\ endId \in 0 .. Len(lStream) /\ restarts \in Nat
        /\ found \in 0 .. Len(lStream)
    BY DEF LoopInv, LoopTypeOK
  <2>2. /\ restarts' = restarts + 1 /\ analysis' = 0 /\ UNCHANGED <<lStream, endId, found>>
        /\ lHistory' = [i \in 1 .. n |-> i]
    BY <1>6 DEF Loop!Restart
  <2>3. n \in 0 .. Len(lStream)
    BY <2>1
  <2> HIDE DEF n
  <2>4. lHistory' \in Seq(Nat) /\ Len(lHistory') = n /\ \A i \in 1 .. n : lHistory'[i] = i
    BY <2>1, <2>2, <2>3
  <2>5. \A i \in 1 .. Len(lHistory') : lHistory'[i] \in 1 .. Len(lStream')
    BY <2>1, <2>2, <2>3, <2>4
  <2>6. restarts' \in Nat /\ restarts' # restarts
    BY <2>1, <2>2
  <2>7. LoopTypeOK'
    <3>1. /\ endId' \in 0 .. Len(lStream') /\ found' \in 0 .. Len(lStream')
          /\ lStream' \in Seq(LoopEvents)
      BY <2>1, <2>2
    <3> QED
      BY <2>2, <2>4, <2>5, <2>6, <3>1 DEF LoopTypeOK
  <2> QED
    BY <2>2, <2>6, <2>7 DEF LoopInv, LoopAfterUser
<1>7. CASE UNCHANGED Loop!vars
  BY <1>7 DEF Loop!vars, LoopInv, LoopTypeOK, LoopAfterUser, UserIdsKept
<1> QED
  BY <1>1, <1>2, <1>3, <1>4, <1>5, <1>6, <1>7 DEF Loop!Next

\* No recovery from a loop takes away a message of the user that was there when the
\* loop was found, whatever the agent does, in which order requests come and how
\* often.
THEOREM LoopUserMessagesKept == Loop!Spec => UserMessagesKept
<1> DEFINE Kept == restarts' = restarts =>
               \A i \in DOMAIN lHistory : Loop!IsUser(lStream[lHistory[i]]) =>
                   \/ \E j \in DOMAIN lHistory' : lHistory'[j] = lHistory[i]
                   \/ analysis # 0 /\ lHistory[i] > found
<1>1. Loop!Init => LoopInv
  BY LoopInvInit
<1>2. LoopInv /\ [Loop!Next]_Loop!vars => LoopInv'
  BY LoopInvNext
<1>3. LoopInv /\ LoopInv' /\ [Loop!Next]_Loop!vars => [Kept]_Loop!vars
  <2> SUFFICES ASSUME LoopInv, LoopInv', [Loop!Next]_Loop!vars PROVE Kept
    OBVIOUS
  <2>1. restarts' = restarts => UserIdsKept
    BY LoopInvNext
  <2>2. DOMAIN lHistory = 1 .. Len(lHistory) /\ DOMAIN lHistory' = 1 .. Len(lHistory')
    <3>1. lHistory \in Seq(Nat) /\ lHistory' \in Seq(Nat)
      BY DEF LoopInv, LoopTypeOK
    <3> QED
      BY <3>1
  <2> QED
    BY <2>1, <2>2 DEF UserIdsKept, Loop!IsUser
<1>4. [][Kept]_Loop!vars => UserMessagesKept
  BY DEF UserMessagesKept, Loop!UserMessagesKept, Loop!vars
<1> QED
  BY <1>1, <1>2, <1>3, <1>4, PTL DEF Loop!Spec

-----------------------------------------------------------------------------
(***************************************************************************)
(* NestedSearch.  The invariant, Nested!SearchInv, is checked by TLC, too. *)
(***************************************************************************)
\* The fields of a search are what the code's signature says.
LEMMA SearchFields ==
    ASSUME Nested!TypeOK
    PROVE  /\ q.start \in Nat /\ q.end \in Nat \cup {-1} /\ q.limit \in Nat
           /\ q.reverse \in BOOLEAN
           /\ DOMAIN events \subseteq Nat /\ before \subseteq Nat /\ page \subseteq Nat
           /\ \A n \in DOMAIN out : out[n] \in Nat
<1>1. q \in Searches =>
        /\ q.start \in Nat /\ q.end \in Nat \cup {-1} /\ q.limit \in Nat
        /\ q.reverse \in BOOLEAN
  BY ComponentsAssumption
<1>2. q = Nested!NoQuery =>
        /\ q.start \in Nat /\ q.end \in Nat \cup {-1} /\ q.limit \in Nat
        /\ q.reverse \in BOOLEAN
  BY DEF Nested!NoQuery, Nested!NoId, Nested!NoLimit
<1>3. DOMAIN events \subseteq Nat /\ out \in Seq(DOMAIN events)
  BY ComponentsAssumption DEF Nested!TypeOK
<1> QED
  BY <1>1, <1>2, <1>3 DEF Nested!TypeOK

\* Nothing is written and nobody searches.
LEMMA SearchInvInit == ASSUME Nested!Init PROVE Nested!SearchInv
<1>1. DOMAIN events = {}
  BY DEF Nested!Init
<1>2. Nested!TypeOK
  <2>1. more \in BOOLEAN /\ q \in Searches \cup {Nested!NoQuery}
    BY DEF Nested!Init
  <2>2. left \in Nat /\ upto \in Nat \cup {Nested!NoId} /\ seen \in Nat \cup {Nested!NoId}
    BY DEF Nested!Init, Nested!NoId, Nested!NoLimit
  <2> QED
    BY <1>1, <2>1, <2>2 DEF Nested!Init, Nested!TypeOK
<1>3. Nested!PagedAsOne
  BY DEF Nested!Init, Nested!PagedAsOne, Nested!NoQuery, Nested!NoLimit
<1> QED
  BY <1>2, <1>3 DEF Nested!Init, Nested!SearchInv

\* An event is written: what was written before stays as it was.
LEMMA SearchWrite ==
    ASSUME Nested!SearchInv, NEW i \in 0 .. MaxId, NEW k \in Nested!Kinds, Nested!Write(i, k)
    PROVE  Nested!SearchInv'
<1>0. Nested!TypeOK /\ MaxId \in Nat
  BY ComponentsAssumption DEF Nested!SearchInv
<1>1. Nested!TypeOK'
  <2>1. DOMAIN events \subseteq DOMAIN events'
    BY DEF Nested!Write
  <2>2. out' \in Seq(DOMAIN events')
    BY <1>0, <2>1 DEF Nested!TypeOK, Nested!Write
  <2> QED
    BY <1>0, <2>1, <2>2 DEF Nested!TypeOK, Nested!Write
<1>2. /\ \A j \in DOMAIN events : Nested!Passes(j)' <=> Nested!Passes(j)
      /\ \A j \in DOMAIN events : Nested!Wanted(j)' <=> Nested!Wanted(j)
  BY DEF Nested!Write, Nested!Passes, Nested!Wanted
<1>3. /\ \A n \in DOMAIN out : out[n] \in DOMAIN events
      /\ \A j \in before : j \in DOMAIN events
  BY <1>0 DEF Nested!TypeOK
<1>4. \A j : Nested!Passed(j)' <=> Nested!Passed(j)
  BY DEF Nested!Write, Nested!Passed
<1>5. \A j, m : Nested!After(j, m)' <=> Nested!After(j, m)
  BY DEF Nested!Write, Nested!After
<1>6. Nested!YieldedBehind => Nested!YieldedBehind'
  BY <1>2, <1>3, <1>4, <1>5 DEF Nested!Write, Nested!YieldedBehind
<1>7. Nested!EndsAhead => Nested!EndsAhead'
  BY <1>4 DEF Nested!Write, Nested!EndsAhead, Nested!EndReached
<1>8. Nested!PageAhead => Nested!PageAhead'
  BY <1>4, <1>5 DEF Nested!Write, Nested!PageAhead
<1>9. Nested!PagedAsOne'
  BY <1>2, <1>3, <1>5
     DEF Nested!Write, Nested!SearchInv, Nested!PagedAsOne, Nested!EndReached
<1> QED
  BY <1>1, <1>6, <1>7, <1>8, <1>9 DEF Nested!SearchInv, Nested!Write

\* A search begins: everything is ahead.
LEMMA SearchBegin ==
    ASSUME Nested!SearchInv, NEW s \in Searches, Nested!Begin(s)
    PROVE  Nested!SearchInv'
<1>0. Nested!TypeOK
  BY DEF Nested!SearchInv
<1>1. Nested!TypeOK'
  BY <1>0, ComponentsAssumption DEF Nested!TypeOK, Nested!Begin
<1>2. /\ q'.start \in Nat /\ q'.end \in Nat \cup {-1} /\ q'.limit \in Nat
      /\ q'.reverse \in BOOLEAN
      /\ from' = q'.start /\ upto' = -1 /\ left' = q'.limit /\ out' = <<>> /\ nPc' = "ask"
      /\ before' \subseteq Nat
  BY <1>0, SearchFields, ComponentsAssumption DEF Nested!Begin, Nested!NoId
<1>3. \A k \in Nat : k >= q'.start => ~Nested!Passed(k)'
  BY <1>2 DEF Nested!Passed, Nested!NoId
<1>4. Nested!YieldedBehind'
  BY <1>2, <1>3 DEF Nested!YieldedBehind
<1>5. Nested!EndsAhead'
  BY <1>2, <1>3 DEF Nested!EndsAhead, Nested!EndReached, Nested!NoLimit
<1>6. Nested!PageAhead' /\ Nested!PagedAsOne' /\ from' >= q'.start
  BY <1>2 DEF Nested!PageAhead, Nested!PagedAsOne
<1> QED
  BY <1>1, <1>2, <1>4, <1>5, <1>6 DEF Nested!SearchInv, Nested!NoId

\* While a search goes on, what it has yielded is as the property says.
LEMMA YieldedAsOne ==
    ASSUME Nested!TypeOK', nPc' # "done", Nested!YieldedBehind', Nested!EndsAhead'
    PROVE  Nested!PagedAsOne'
<1>1. q' \in Searches =>
        /\ q'.start \in Nat /\ q'.end \in Nat \cup {-1} /\ q'.limit \in Nat
        /\ q'.reverse \in BOOLEAN
  BY ComponentsAssumption
<1>2. q' = Nested!NoQuery =>
        /\ q'.start \in Nat /\ q'.end \in Nat \cup {-1} /\ q'.limit \in Nat
        /\ q'.reverse \in BOOLEAN
  BY DEF Nested!NoQuery, Nested!NoId, Nested!NoLimit
<1>3. DOMAIN events' \subseteq Nat /\ out' \in Seq(DOMAIN events')
  BY ComponentsAssumption DEF Nested!TypeOK
<1>4. /\ q'.start \in Nat /\ q'.end \in Nat \cup {-1} /\ q'.limit \in Nat
      /\ q'.reverse \in BOOLEAN
      /\ \A n \in DOMAIN out' : out'[n] \in Nat
      /\ Len(out') \in Nat /\ left' \in Nat /\ from' \in Nat
      /\ upto' \in Nat \cup {-1} /\ seen' \in Nat \cup {-1}
  <2>1. q' \in Searches \/ q' = Nested!NoQuery
    BY DEF Nested!TypeOK
  <2>2. /\ left' \in Nat /\ from' \in Nat
        /\ upto' \in Nat \cup {-1} /\ seen' \in Nat \cup {-1}
    BY DEF Nested!TypeOK, Nested!NoId
  <2>3. Len(out') \in Nat /\ \A n \in DOMAIN out' : out'[n] \in Nat
    BY <1>3
  <2> QED
    BY <1>1, <1>2, <2>1, <2>2, <2>3
<1>5. ASSUME Nested!EndReached', NEW n \in DOMAIN out'
      PROVE  out'[n] <= q'.end
  BY <1>4, <1>5
     DEF Nested!YieldedBehind, Nested!EndsAhead, Nested!EndReached, Nested!Passed, Nested!NoId
<1>6. q'.limit # Nested!NoLimit => Len(out') <= q'.limit
  BY <1>4 DEF Nested!EndsAhead, Nested!NoLimit
<1> QED
  BY <1>5, <1>6 DEF Nested!YieldedBehind, Nested!PagedAsOne, Nested!Wanted

\* A page is asked for: it begins where the search is and has no gaps.
LEMMA SearchAsk == ASSUME Nested!SearchInv, Nested!Ask PROVE Nested!SearchInv'
<1> DEFINE matches == Nested!Matching(from, upto)
<1>0. Nested!TypeOK /\ nPc = "ask" /\ nPc' = "page"
  BY DEF Nested!SearchInv, Nested!Ask
<1>1. PICK ids \in SUBSET matches :
        /\ \A i \in ids, j \in matches \ ids : Nested!After(j, i)
        /\ page' = ids
        /\ more' = (ids # matches)
  BY DEF Nested!Ask, Nested!IsPage
<1>2. /\ q.start \in Nat /\ q.end \in Nat \cup {-1} /\ q.reverse \in BOOLEAN
      /\ from \in Nat /\ from >= q.start
      /\ IF q.reverse THEN from = q.start ELSE upto = -1
      /\ upto \in Nat \cup {-1}
      /\ DOMAIN events \subseteq Nat /\ before \subseteq DOMAIN events
      /\ UNCHANGED <<events, q, from, upto, left, out, before>>
      /\ seen' = IF q.reverse THEN -1 ELSE from
  BY <1>0, SearchFields DEF Nested!TypeOK, Nested!SearchInv, Nested!Ask, Nested!NoId
<1>3. \A i : i \in matches <=> i \in DOMAIN events /\ i >= from /\ (upto = -1 \/ i <= upto)
  BY DEF Nested!Matching, Nested!NoId
<1> HIDE DEF matches
<1>4. Nested!TypeOK'
  BY <1>0, <1>1, <1>2, <1>3 DEF Nested!TypeOK, Nested!NoId
<1>5. \A k \in Nat : Nested!Passed(k)' <=> Nested!Passed(k)
  BY <1>0, <1>2 DEF Nested!Passed, Nested!NoId
<1>6. /\ \A k : Nested!Passes(k)' <=> Nested!Passes(k)
      /\ \A k, n : Nested!After(k, n)' <=> Nested!After(k, n)
  BY <1>2 DEF Nested!Passes, Nested!After
<1>7. Nested!YieldedBehind /\ Nested!EndsAhead
  BY <1>0 DEF Nested!SearchInv
<1>8. Nested!YieldedBehind'
  <2>1. \A n \in DOMAIN out : out[n] \in Nat
    BY <1>0, SearchFields
  <2> QED
    BY <1>2, <1>5, <1>6, <1>7, <2>1 DEF Nested!YieldedBehind
<1>9. Nested!EndsAhead'
  BY <1>2, <1>5, <1>7 DEF Nested!EndsAhead, Nested!EndReached
<1>10. Nested!PageAhead'
  <2>1. \A j \in DOMAIN events :
          j >= q.start => (~Nested!Passed(j) <=> j >= from /\ (upto = -1 \/ j <= upto))
    BY <1>0, <1>2 DEF Nested!Passed, Nested!NoId
  <2>2. \A j \in page' : j >= q'.start /\ ~Nested!Passed(j)'
    BY <1>1, <1>2, <1>3, <1>5, <2>1
  <2>3. ASSUME NEW i \in before', i >= q'.start, ~Nested!Passed(i)'
        PROVE  i \in page' \/ (more' /\ \A j \in page' : Nested!After(i, j)')
    <3>1. i \in matches
      BY <1>2, <1>3, <1>5, <2>1, <2>3
    <3> QED
      BY <1>1, <1>6, <3>1
  <2>4. q'.reverse /\ more' => seen' # 0 /\ 0 \notin page'
    <3>1. ASSUME q.reverse, 0 \in ids, NEW j \in matches \ ids PROVE FALSE
      BY <1>1, <1>2, <1>3, <3>1 DEF Nested!After
    <3>2. more' => \E j : j \in matches \ ids
      BY <1>1
    <3> QED
      BY <1>1, <1>2, <3>1, <3>2
  <2>5. /\ q'.reverse /\ seen' # -1 /\ upto' # -1 => seen' <= upto'
        /\ ~q'.reverse => seen' >= from'
    BY <1>2
  <2> QED
    BY <2>2, <2>3, <2>4, <2>5 DEF Nested!PageAhead, Nested!NoId
<1>11. Nested!PagedAsOne'
  BY <1>0, <1>4, <1>8, <1>9, YieldedAsOne
<1> QED
  BY <1>0, <1>2, <1>4, <1>8, <1>9, <1>10, <1>11 DEF Nested!SearchInv

\* The next event of a page: the search goes by it and by nothing else that was there.
LEMMA TakeMoves ==
    ASSUME Nested!SearchInv, NEW i \in page, Nested!Take(i)
    PROVE  /\ i \in Nat
           /\ \A k \in Nat : Nested!Passed(k) => Nested!After(i, k)
           /\ \A k \in Nat : nPc' = "page" =>
                (Nested!Passed(k)' <=> Nested!Passed(k) \/ ~Nested!After(k, i))
           /\ \A k \in before : k >= q.start /\ ~Nested!Passed(k) =>
                k = i \/ Nested!After(k, i)
           /\ seen' = IF q.reverse THEN i ELSE i + 1
<1>1. /\ q.reverse \in BOOLEAN /\ from \in Nat /\ upto \in Nat \cup {-1}
      /\ seen \in Nat \cup {-1} /\ i \in Nat
      /\ nPc = "page" /\ ~Nested!Passed(i) /\ UNCHANGED <<q, from, upto>>
  BY SearchFields DEF Nested!SearchInv, Nested!TypeOK, Nested!PageAhead, Nested!Take, Nested!NoId
<1>2. seen' = IF q.reverse THEN i ELSE i + 1
  BY <1>1 DEF Nested!Take, Nested!Seen, Nested!Passed, Nested!NoId
<1>3. \A k \in Nat : Nested!Passed(k) => Nested!After(i, k)
  BY <1>1 DEF Nested!Passed, Nested!After, Nested!NoId
<1>4. ASSUME NEW k \in Nat, nPc' = "page"
      PROVE  Nested!Passed(k)' <=> Nested!Passed(k) \/ ~Nested!After(k, i)
  BY <1>1, <1>2, <1>4 DEF Nested!Passed, Nested!After, Nested!NoId
<1>5. \A k \in before : k >= q.start /\ ~Nested!Passed(k) => k = i \/ Nested!After(k, i)
  BY <1>1 DEF Nested!SearchInv, Nested!PageAhead, Nested!Take
<1> QED
  BY <1>1, <1>2, <1>3, <1>4, <1>5

\* A sequence with an element at its end.
LEMMA SeqAppend ==
    ASSUME NEW S, NEW a \in Seq(S), NEW x \in S
    PROVE  /\ Append(a, x) \in Seq(S)
           /\ Len(a) \in Nat /\ Len(Append(a, x)) = Len(a) + 1
           /\ Len(a) + 1 \in DOMAIN Append(a, x) /\ Append(a, x)[Len(a) + 1] = x
           /\ \A n \in DOMAIN a :
                n \in DOMAIN Append(a, x) /\ Append(a, x)[n] = a[n] /\ n < Len(a) + 1
           /\ \A n \in DOMAIN Append(a, x) : n \in Nat /\ (n \in DOMAIN a \/ n = Len(a) + 1)
<1>1. /\ Append(a, x) \in Seq(S) /\ Len(a) \in Nat /\ Len(Append(a, x)) = Len(a) + 1
      /\ DOMAIN a = 1 .. Len(a) /\ DOMAIN Append(a, x) = 1 .. Len(Append(a, x))
      /\ Append(a, x)[Len(a) + 1] = x /\ \A n \in 1 .. Len(a) : Append(a, x)[n] = a[n]
  OBVIOUS
<1> QED
  BY <1>1

\* What is yielded with the next event of a page: the event, if it passes.
LEMMA TakeYields ==
    ASSUME Nested!SearchInv, NEW i \in page, Nested!Take(i)
    PROVE  /\ out' \in Seq(DOMAIN events) /\ Len(out') \in Nat
           /\ IF Nested!Passes(i) THEN Len(out') = Len(out) + 1 /\ out'[Len(out')] = i
                                  ELSE Len(out') = Len(out)
           /\ \A n \in DOMAIN out' :
                \/ n \in DOMAIN out /\ out'[n] = out[n]
                \/ Nested!Passes(i) /\ out'[n] = i
           /\ \A m, n \in DOMAIN out' : m < n => Nested!After(out[n], out[m])'
           /\ Nested!Passes(i) => i \in Nested!ToSet(out')
           /\ Nested!ToSet(out) \subseteq Nested!ToSet(out')
<1>0. Nested!TypeOK /\ Nested!YieldedBehind /\ UNCHANGED q
  BY DEF Nested!SearchInv, Nested!Take
<1>1. out \in Seq(DOMAIN events) /\ i \in DOMAIN events /\ Len(out) \in Nat
  BY <1>0 DEF Nested!TypeOK
<1>2. \A m, n \in DOMAIN out : m < n => Nested!After(out[n], out[m])
  BY <1>0 DEF Nested!YieldedBehind
<1>3. CASE Nested!Passes(i)
  <2>1. out' = Append(out, i)
    BY <1>3 DEF Nested!Take
  <2>2. /\ out' \in Seq(DOMAIN events)
        /\ Len(out') = Len(out) + 1
        /\ Len(out) + 1 \in DOMAIN out' /\ out'[Len(out) + 1] = i
        /\ \A n \in DOMAIN out : n \in DOMAIN out' /\ out'[n] = out[n] /\ n < Len(out) + 1
        /\ \A n \in DOMAIN out' : n \in Nat /\ (n \in DOMAIN out \/ n = Len(out) + 1)
    BY <1>1, <2>1, SeqAppend
  <2>3. ASSUME NEW m \in DOMAIN out', NEW n \in DOMAIN out', m < n
        PROVE  Nested!After(out[n], out[m])'
    <3>1. m \in DOMAIN out /\ out'[m] = out[m]
      BY <1>1, <2>2, <2>3
    <3>2. CASE n \in DOMAIN out
      BY <1>0, <1>2, <2>2, <2>3, <3>1, <3>2 DEF Nested!After
    <3>3. CASE n = Len(out) + 1
      <4>1. Nested!Passed(out[m]) /\ out[m] \in Nat
        BY <1>0, <3>1, SearchFields DEF Nested!YieldedBehind
      <4>2. Nested!After(i, out[m])
        BY <4>1, TakeMoves
      <4> QED
        BY <1>0, <2>2, <3>1, <3>3, <4>2 DEF Nested!After
    <3> QED
      BY <2>2, <3>2, <3>3
  <2>4. i \in Nested!ToSet(out') /\ Nested!ToSet(out) \subseteq Nested!ToSet(out')
    BY <2>2 DEF Nested!ToSet
  <2> QED
    BY <1>1, <1>3, <2>2, <2>3, <2>4
<1>4. CASE ~Nested!Passes(i)
  <2>1. out' = out
    BY <1>4 DEF Nested!Take
  <2> QED
    BY <1>0, <1>1, <1>2, <1>4, <2>1 DEF Nested!After
<1> QED
  BY <1>3, <1>4

\* A search that goes on after an event of the page.
LEMMA SearchTakes ==
    ASSUME Nested!SearchInv, NEW i \in page, Nested!Take(i), nPc' = "page"
    PROVE  Nested!SearchInv'
<1>0. Nested!TypeOK /\ nPc = "page" /\ Nested!YieldedBehind /\ Nested!EndsAhead /\ Nested!PageAhead
  BY DEF Nested!SearchInv, Nested!Take
<1>1. /\ q.start \in Nat /\ q.end \in Nat \cup {-1} /\ q.limit \in Nat
      /\ q.reverse \in BOOLEAN
      /\ from \in Nat /\ upto \in Nat \cup {-1} /\ left \in Nat /\ Len(out) \in Nat
      /\ before \subseteq Nat /\ page \subseteq Nat
      /\ \A n \in DOMAIN out : out[n] \in Nat
      /\ out \in Seq(DOMAIN events) /\ i \in DOMAIN events
  BY <1>0, SearchFields DEF Nested!TypeOK, Nested!NoId
<1>2. /\ i \in Nat
      /\ \A k \in Nat : Nested!Passed(k) => Nested!After(i, k)
      /\ \A k \in Nat : Nested!Passed(k)' <=> Nested!Passed(k) \/ ~Nested!After(k, i)
      /\ \A k \in before : k >= q.start /\ ~Nested!Passed(k) => k = i \/ Nested!After(k, i)
      /\ seen' = IF q.reverse THEN i ELSE i + 1
  BY TakeMoves
<1>3. /\ UNCHANGED <<events, q, from, upto, more, before>>
      /\ page' = page \ {i}
      /\ out' = IF Nested!Passes(i) THEN Append(out, i) ELSE out
      /\ left' = IF Nested!Passes(i) /\ left # 0 THEN left - 1 ELSE left
      /\ i # q.end /\ ~(Nested!Passes(i) /\ left = 1)
      /\ i >= q.start /\ ~Nested!Passed(i)
  BY <1>0 DEF Nested!Take, Nested!NoLimit, Nested!PageAhead
<1>4. /\ \A k : Nested!Passes(k)' <=> Nested!Passes(k)
      /\ \A k, n : Nested!After(k, n)' <=> Nested!After(k, n)
  BY <1>3 DEF Nested!Passes, Nested!After
<1>5. /\ out' \in Seq(DOMAIN events) /\ Len(out') \in Nat
      /\ IF Nested!Passes(i) THEN Len(out') = Len(out) + 1 /\ out'[Len(out')] = i
                             ELSE Len(out') = Len(out)
      /\ \A n \in DOMAIN out' :
           \/ n \in DOMAIN out /\ out'[n] = out[n]
           \/ Nested!Passes(i) /\ out'[n] = i
      /\ \A m, n \in DOMAIN out' : m < n => Nested!After(out[n], out[m])'
      /\ Nested!Passes(i) => i \in Nested!ToSet(out')
      /\ Nested!ToSet(out) \subseteq Nested!ToSet(out')
  BY TakeYields
<1>6. Nested!TypeOK'
  BY <1>0, <1>1, <1>2, <1>3, <1>5 DEF Nested!TypeOK, Nested!NoId
<1>7. Nested!YieldedBehind'
  <2>2. ASSUME NEW n \in DOMAIN out'
        PROVE  out'[n] >= q'.start /\ Nested!Passes(out[n])' /\ Nested!Passed(out[n])'
    <3>1. CASE n \in DOMAIN out /\ out'[n] = out[n]
      <4>1. out[n] >= q.start /\ Nested!Passes(out[n]) /\ Nested!Passed(out[n])
        BY <1>0, <3>1 DEF Nested!YieldedBehind
      <4> QED
        BY <1>1, <1>2, <1>3, <1>4, <3>1, <4>1
    <3>2. CASE Nested!Passes(i) /\ out'[n] = i
      <4>1. ~Nested!After(i, i)
        BY <1>2 DEF Nested!After
      <4> QED
        BY <1>2, <1>3, <1>4, <3>2, <4>1
    <3> QED
      BY <1>5, <3>1, <3>2
  <2>3. ASSUME NEW k \in before', k >= q'.start, Nested!Passes(k)', Nested!Passed(k)'
        PROVE  k \in Nested!ToSet(out')
    <3>1. Nested!Passes(k) /\ k \in Nat /\ k \in before /\ k >= q.start
      BY <1>1, <1>3, <1>4, <2>3
    <3>2. CASE Nested!Passed(k)
      BY <1>0, <1>5, <3>1, <3>2 DEF Nested!YieldedBehind
    <3>3. CASE ~Nested!Passed(k)
      <4>1. k = i
        BY <1>2, <2>3, <3>1, <3>3
      <4> QED
        BY <1>5, <3>1, <4>1
    <3> QED
      BY <3>2, <3>3
  <2> QED
    BY <1>5, <2>2, <2>3 DEF Nested!YieldedBehind
<1>8. Nested!EndsAhead'
  <2>1. Nested!EndReached' => ~Nested!Passed(q.end)'
    <3> SUFFICES ASSUME Nested!EndReached PROVE ~Nested!Passed(q.end)'
      BY <1>3 DEF Nested!EndReached
    <3>1. q.end \in before /\ q.end >= q.start /\ ~Nested!Passed(q.end) /\ q.end \in Nat
      BY <1>0, <1>1 DEF Nested!EndReached, Nested!EndsAhead
    <3> QED
      BY <1>2, <1>3, <3>1
  <2>2. IF q'.limit = Nested!NoLimit THEN left' = Nested!NoLimit
                            ELSE left' > 0 /\ left' + Len(out') = q'.limit
    <3>1. IF q.limit = 0 THEN left = 0 ELSE left > 0 /\ left + Len(out) = q.limit
      BY <1>0 DEF Nested!EndsAhead, Nested!NoLimit
    <3>2. CASE Nested!Passes(i)
      BY <1>1, <1>3, <1>5, <3>1, <3>2 DEF Nested!NoLimit
    <3>3. CASE ~Nested!Passes(i)
      BY <1>1, <1>3, <1>5, <3>1, <3>3 DEF Nested!NoLimit
    <3> QED
      BY <3>2, <3>3
  <2> QED
    BY <2>1, <2>2 DEF Nested!EndsAhead
<1>9. Nested!PageAhead'
  <2>1. ASSUME NEW j \in page' PROVE j >= q'.start /\ ~Nested!Passed(j)'
    <3>1. j \in page /\ j # i /\ Nested!After(j, i) /\ j \in Nat
      BY <1>1, <1>3 DEF Nested!Take
    <3> QED
      BY <1>0, <1>2, <1>3, <3>1 DEF Nested!PageAhead
  <2>2. ASSUME NEW k \in before', k >= q'.start, ~Nested!Passed(k)'
        PROVE  k \in page' \/ (more' /\ \A j \in page' : Nested!After(k, j)')
    <3>1. k \in before /\ k \in Nat /\ k >= q.start /\ ~Nested!Passed(k) /\ k # i
      <4>1. ~Nested!After(i, i)
        BY <1>2 DEF Nested!After
      <4> QED
        BY <1>1, <1>2, <1>3, <2>2, <4>1
    <3> QED
      BY <1>0, <1>3, <1>4, <3>1 DEF Nested!PageAhead
  <2>3. q'.reverse /\ more' => seen' # 0 /\ 0 \notin page'
    BY <1>0, <1>2, <1>3 DEF Nested!PageAhead
  <2>4. /\ q'.reverse /\ seen' # -1 /\ upto' # -1 => seen' <= upto'
        /\ ~q'.reverse => seen' >= from'
    BY <1>0, <1>1, <1>2, <1>3 DEF Nested!Passed, Nested!NoId
  <2> QED
    BY <2>1, <2>2, <2>3, <2>4 DEF Nested!PageAhead, Nested!NoId
<1>10. Nested!PagedAsOne'
  BY <1>6, <1>7, <1>8, YieldedAsOne
<1> QED
  BY <1>0, <1>3, <1>6, <1>7, <1>8, <1>9, <1>10 DEF Nested!SearchInv

\* The event that ends a search, by its id or by the limit.
LEMMA SearchStops ==
    ASSUME Nested!SearchInv, NEW i \in page, Nested!Take(i), nPc' = "done"
    PROVE  Nested!SearchInv'
<1>0. Nested!TypeOK /\ nPc = "page" /\ Nested!YieldedBehind /\ Nested!EndsAhead /\ Nested!PageAhead
  BY DEF Nested!SearchInv, Nested!Take
<1>1. /\ q.start \in Nat /\ q.end \in Nat \cup {-1} /\ q.limit \in Nat
      /\ q.reverse \in BOOLEAN
      /\ from \in Nat /\ upto \in Nat \cup {-1} /\ left \in Nat /\ Len(out) \in Nat
      /\ before \subseteq Nat /\ page \subseteq Nat
      /\ \A n \in DOMAIN out : out[n] \in Nat
      /\ out \in Seq(DOMAIN events) /\ i \in DOMAIN events
  BY <1>0, SearchFields DEF Nested!TypeOK, Nested!NoId
<1>2. /\ i \in Nat
      /\ \A k \in Nat : Nested!Passed(k) => Nested!After(i, k)
      /\ \A k \in before : k >= q.start /\ ~Nested!Passed(k) => k = i \/ Nested!After(k, i)
      /\ seen' = IF q.reverse THEN i ELSE i + 1
  BY TakeMoves
<1>3. /\ UNCHANGED <<events, q, from, upto, more, before>>
      /\ page' = page \ {i}
      /\ out' = IF Nested!Passes(i) THEN Append(out, i) ELSE out
      /\ left' \in Nat
      /\ i = q.end \/ (Nested!Passes(i) /\ left = 1)
      /\ i >= q.start /\ ~Nested!Passed(i)
  BY <1>0, <1>1 DEF Nested!Take, Nested!NoLimit, Nested!PageAhead
<1>5. /\ out' \in Seq(DOMAIN events) /\ Len(out') \in Nat
      /\ IF Nested!Passes(i) THEN Len(out') = Len(out) + 1 /\ out'[Len(out')] = i
                             ELSE Len(out') = Len(out)
      /\ \A n \in DOMAIN out' :
           \/ n \in DOMAIN out /\ out'[n] = out[n]
           \/ Nested!Passes(i) /\ out'[n] = i
      /\ \A m, n \in DOMAIN out' : m < n => Nested!After(out[n], out[m])'
      /\ Nested!Passes(i) => i \in Nested!ToSet(out')
      /\ Nested!ToSet(out) \subseteq Nested!ToSet(out')
  BY TakeYields
<1>6. Nested!TypeOK'
  BY <1>0, <1>1, <1>2, <1>3, <1>5 DEF Nested!TypeOK, Nested!NoId
<1>7. ASSUME q.end = -1 \/ Nested!EndReached
      PROVE  /\ \A m, n \in DOMAIN out' : m < n => Nested!After(out[n], out[m])'
             /\ \A n \in DOMAIN out' : Nested!Wanted(out[n])'
             /\ q.limit # 0 => Len(out') <= q.limit
             /\ \A k \in before : Nested!Wanted(k) =>
                  \/ k \in Nested!ToSet(out')
                  \/ q.limit # 0 /\ Len(out') = q.limit /\ Nested!After(k, out'[Len(out')])
  <2>0. Nested!EndReached => q.end \in Nat /\ ~Nested!Passed(q.end) /\ ~q.reverse
                             /\ q.end \in before /\ q.end >= q.start
    BY <1>0, <1>1 DEF Nested!EndsAhead, Nested!EndReached
  <2>2. i <= q.end \/ q.end = -1
    BY <1>2, <1>7, <2>0 DEF Nested!After
  <2>3. ASSUME NEW n \in DOMAIN out' PROVE Nested!Wanted(out[n])'
    <3>1. CASE n \in DOMAIN out /\ out'[n] = out[n]
      <4>1. /\ out[n] >= q.start /\ Nested!Passes(out[n]) /\ Nested!Passed(out[n])
            /\ out[n] \in Nat
        BY <1>0, <1>1, <3>1 DEF Nested!YieldedBehind
      <4>2. q.end = -1 \/ out[n] <= q.end
        BY <1>1, <1>2, <1>7, <2>0, <2>2, <4>1 DEF Nested!After
      <4> QED
        BY <1>3, <3>1, <4>1, <4>2 DEF Nested!Wanted, Nested!Passes, Nested!NoId
    <3>2. CASE Nested!Passes(i) /\ out'[n] = i
      BY <1>3, <2>2, <3>2 DEF Nested!Wanted, Nested!Passes, Nested!NoId
    <3> QED
      BY <1>5, <3>1, <3>2
  <2>4. IF q.limit = 0 THEN left = 0 ELSE left > 0 /\ left + Len(out) = q.limit
    BY <1>0 DEF Nested!EndsAhead, Nested!NoLimit
  <2>5. q.limit # 0 => Len(out') <= q.limit
    BY <1>1, <1>5, <2>4
  <2>6. ASSUME NEW k \in before, Nested!Wanted(k)
        PROVE  \/ k \in Nested!ToSet(out')
               \/ q.limit # 0 /\ Len(out') = q.limit /\ Nested!After(k, out'[Len(out')])
    <3>1. Nested!Passes(k) /\ k \in Nat /\ k >= q.start /\ (q.end = -1 \/ k <= q.end)
      BY <1>1, <2>6 DEF Nested!Wanted, Nested!NoId
    <3>2. CASE Nested!Passed(k)
      BY <1>0, <1>5, <3>1, <3>2 DEF Nested!YieldedBehind
    <3>3. CASE k = i
      BY <1>5, <3>1, <3>3
    <3>4. CASE Nested!After(k, i)
      <4>1. i # q.end
        BY <1>1, <1>2, <1>7, <2>0, <3>1, <3>4 DEF Nested!After
      <4>2. Nested!Passes(i) /\ left = 1
        BY <1>3, <4>1
      <4> QED
        BY <1>1, <1>5, <2>4, <3>4, <4>2
    <3> QED
      BY <1>2, <3>1, <3>2, <3>3, <3>4
  <2> QED
    BY <1>5, <2>3, <2>5, <2>6
<1>8. Nested!PagedAsOne'
  <2>1. \A k \in before : Nested!Wanted(k)' <=> Nested!Wanted(k)
    BY <1>3 DEF Nested!Wanted, Nested!Passes
  <2>2. \A k : Nested!After(k, Nested!Last(out))' <=> Nested!After(k, out'[Len(out')])
    BY <1>3 DEF Nested!After, Nested!Last
  <2>3. q'.end = Nested!NoId \/ Nested!EndReached' => q.end = -1 \/ Nested!EndReached
    BY <1>3 DEF Nested!EndReached, Nested!NoId
  <2> QED
    BY <1>3, <1>7, <2>1, <2>2, <2>3 DEF Nested!PagedAsOne, Nested!NoId, Nested!NoLimit
<1> QED
  BY <1>6, <1>8 DEF Nested!SearchInv

\* The end of a page: the cursors of the next request say where the search is.
LEMMA SearchTurn == ASSUME Nested!SearchInv, Nested!Turn PROVE Nested!SearchInv'
<1>0. Nested!TypeOK /\ nPc = "page" /\ Nested!YieldedBehind /\ Nested!EndsAhead /\ Nested!PageAhead
  BY DEF Nested!SearchInv, Nested!Turn
<1>1. /\ q.start \in Nat /\ q.end \in Nat \cup {-1} /\ q.limit \in Nat
      /\ q.reverse \in BOOLEAN
      /\ from \in Nat /\ upto \in Nat \cup {-1} /\ left \in Nat /\ Len(out) \in Nat
      /\ seen \in Nat \cup {-1} /\ before \subseteq Nat
      /\ \A n \in DOMAIN out : out[n] \in Nat
      /\ from >= q.start /\ IF q.reverse THEN from = q.start ELSE upto = -1
  BY <1>0, SearchFields DEF Nested!TypeOK, Nested!NoId, Nested!SearchInv
<1>2. /\ UNCHANGED <<events, q, left, page, more, seen, out, before>> /\ page = {}
      /\ from' = IF q.reverse THEN from ELSE seen
      /\ upto' = IF q.reverse /\ seen # -1 THEN seen - 1 ELSE upto
      /\ nPc' = IF more THEN "ask" ELSE "done"
  BY DEF Nested!Turn, Nested!NextFrom, Nested!NextUpto, Nested!NoId
<1>3. /\ q.reverse /\ more => seen # 0
      /\ q.reverse /\ seen # -1 /\ upto # -1 => seen <= upto
      /\ ~q.reverse => seen >= from
  BY <1>0 DEF Nested!PageAhead, Nested!NoId
<1>4. /\ from' \in Nat /\ from' >= q.start /\ upto' \in Nat \cup {-1}
      /\ IF q.reverse THEN from' = q.start ELSE upto' = -1
  BY <1>1, <1>2, <1>3
<1>5. Nested!TypeOK'
  BY <1>0, <1>2, <1>4 DEF Nested!TypeOK, Nested!NoId
<1>6. CASE more
  <2>1. \A k \in Nat : Nested!Passed(k)' <=> Nested!Passed(k)
    BY <1>0, <1>1, <1>2, <1>3, <1>6 DEF Nested!Passed, Nested!NoId
  <2>2. /\ \A k : Nested!Passes(k)' <=> Nested!Passes(k)
        /\ \A k, n : Nested!After(k, n)' <=> Nested!After(k, n)
    BY <1>2 DEF Nested!Passes, Nested!After
  <2>3. Nested!YieldedBehind'
    BY <1>0, <1>1, <1>2, <2>1, <2>2 DEF Nested!YieldedBehind
  <2>4. Nested!EndsAhead'
    BY <1>0, <1>1, <1>2, <2>1 DEF Nested!EndsAhead, Nested!EndReached
  <2>5. Nested!PageAhead' /\ nPc' = "ask"
    BY <1>2, <1>6 DEF Nested!PageAhead
  <2>6. Nested!PagedAsOne'
    BY <1>5, <2>3, <2>4, <2>5, YieldedAsOne
  <2> QED
    BY <1>2, <1>4, <1>5, <2>3, <2>4, <2>5, <2>6 DEF Nested!SearchInv, Nested!NoId
<1>7. CASE ~more
  <2>1. \A k \in before : k >= q.start => Nested!Passed(k)
    BY <1>0, <1>2, <1>7 DEF Nested!PageAhead
  <2>2. \A k \in before : Nested!Wanted(k) => k \in Nested!ToSet(out)
    BY <1>0, <2>1 DEF Nested!YieldedBehind, Nested!Wanted
  <2>3. Nested!PagedAsOne
    BY DEF Nested!SearchInv
  <2>4. /\ \A k : Nested!Wanted(k)' <=> Nested!Wanted(k)
        /\ \A k, n : Nested!After(k, n)' <=> Nested!After(k, n)
        /\ Nested!EndReached' <=> Nested!EndReached
    BY <1>2 DEF Nested!Wanted, Nested!Passes, Nested!After, Nested!EndReached
  <2>5. Nested!PagedAsOne'
    BY <1>2, <2>2, <2>3, <2>4 DEF Nested!PagedAsOne
  <2> QED
    BY <1>2, <1>5, <1>7, <2>5 DEF Nested!SearchInv
<1> QED
  BY <1>6, <1>7

\* Every step of the search and of the writers keeps the invariant.
LEMMA SearchInvNext == ASSUME Nested!SearchInv, [Nested!Next]_Nested!vars PROVE Nested!SearchInv'
<1>1. CASE \E i \in 0 .. MaxId, k \in Nested!Kinds : Nested!Write(i, k)
  BY <1>1, SearchWrite
<1>2. CASE \E s \in Searches : Nested!Begin(s)
  BY <1>2, SearchBegin
<1>3. CASE Nested!Ask
  BY <1>3, SearchAsk
<1>4. CASE \E i \in page : Nested!Take(i)
  <2>1. PICK i \in page : Nested!Take(i)
    BY <1>4
  <2>2. nPc' = "page" \/ nPc' = "done"
    BY <2>1 DEF Nested!Take
  <2> QED
    BY <2>1, <2>2, SearchTakes, SearchStops
<1>5. CASE Nested!Turn
  BY <1>5, SearchTurn
<1>6. CASE UNCHANGED Nested!vars
  <2>1. UNCHANGED <<events, q, nPc, from, upto, left, page, more, seen, out, before>>
    BY <1>6 DEF Nested!vars
  <2> QED
    BY <2>1
       DEF Nested!SearchInv, Nested!TypeOK, Nested!YieldedBehind, Nested!EndsAhead,
           Nested!PageAhead, Nested!PagedAsOne, Nested!Passes, Nested!Passed, Nested!After,
           Nested!Wanted, Nested!EndReached
<1> QED
  BY <1>1, <1>2, <1>3, <1>4, <1>5, <1>6 DEF Nested!Next

\* The pages of NestedEventStore.search_events are together one search, whatever
\* is written while its caller takes the events: for every size of a page, every
\* limit and every filter.
THEOREM NestedPagedAsOne == Nested!Spec => []PagedAsOne
<1>1. Nested!Init => Nested!SearchInv
  BY SearchInvInit
<1>2. Nested!SearchInv /\ [Nested!Next]_Nested!vars => Nested!SearchInv'
  BY SearchInvNext
<1>3. Nested!SearchInv => PagedAsOne
  BY DEF Nested!SearchInv, PagedAsOne
<1> QED
  BY <1>1, <1>2, <1>3, PTL DEF Nested!Spec

-----------------------------------------------------------------------------
(***************************************************************************)
(* Condensers.  The theorems of CondensersProofs are about Condensers by   *)
(* itself; its instance there and the one in MCComponents are the same,    *)
(* definition by definition.                                               *)
(***************************************************************************)
CondProofs == INSTANCE CondensersProofs WITH
    MaxEvents <- MaxCondEvents, history <- cHistory, mode <- cMode

\* View.from_events returns the same in both.
LEMMA SameViews == Cond!View = CondProofs!View
<1>1. \A S : Cond!Ascending(S) = CondProofs!Ascending(S)
  BY DEF Cond!Ascending, CondProofs!Ascending, Cond!Rank, CondProofs!Rank,
         Cond!Cardinality, CondProofs!Cardinality
<1> QED
  BY <1>1 DEF Cond!View, CondProofs!View, Cond!Insert, CondProofs!Insert,
              Cond!Summary, CondProofs!Summary, Cond!Forgotten, CondProofs!Forgotten

\* get_condensation returns the same in both.
LEMMA SameCondensations == Cond!GetCondensation = CondProofs!GetCondensation
<1>1. \A ids, summary :
        Cond!ForgetRange(ids, summary) = CondProofs!ForgetRange(ids, summary)
  BY DEF Cond!ForgetRange, CondProofs!ForgetRange, Cond!Min, CondProofs!Min,
         Cond!Max, CondProofs!Max, Cond!Condensation, CondProofs!Condensation,
         Cond!Raises, CondProofs!Raises
<1>2. Cond!Amortized = CondProofs!Amortized
  BY SameViews, <1>1
     DEF Cond!Amortized, CondProofs!Amortized, Cond!FirstN, CondProofs!FirstN,
         Cond!LastN, CondProofs!LastN, Cond!Target, CondProofs!Target,
         Cond!ToSet, CondProofs!ToSet
<1>3. Cond!Summarizing = CondProofs!Summarizing
  BY SameViews, <1>1
     DEF Cond!Summarizing, CondProofs!Summarizing, Cond!FirstN, CondProofs!FirstN,
         Cond!Between, CondProofs!Between, Cond!Target, CondProofs!Target,
         Cond!ToSet, CondProofs!ToSet, Cond!Summary, CondProofs!Summary,
         Cond!Raises, CondProofs!Raises
<1>4. Cond!Window = CondProofs!Window
  <2> DEFINE
        WindowOf(view) ==
          LET n == Len(view)
              first == Cond!SelectInSeq(view, LAMBDA i : cHistory[i].k = "user")
              recent == LET half == (n - 1) \div 2 IN IF half > 1 THEN half ELSE 1
              slice == SubSeq(view, n - recent + 1, n)
              start == Cond!SelectInSeq(slice, LAMBDA i : cHistory[i].k # "obs")
              kept == IF start = 0 THEN <<>> ELSE SubSeq(slice, start, Len(slice))
          IN  IF n = 0 \/ first = 0
                THEN Cond!Condensation({}, FALSE)
                ELSE Cond!Condensation(
                       Cond!ToSet(view) \ (Cond!ToSet(kept) \cup {view[first]}), FALSE)
  <2>1. Cond!Window = WindowOf(Cond!View)
    BY DEF Cond!Window, Cond!SelectInSeq
  <2>2. CondProofs!Window = WindowOf(CondProofs!View)
    BY DEF CondProofs!Window, Cond!SelectInSeq, CondProofs!SelectInSeq,
           Cond!Min, CondProofs!Min, Cond!Condensation, CondProofs!Condensation,
           Cond!ToSet, CondProofs!ToSet
  <2> HIDE DEF WindowOf
  <2> QED
    BY SameViews, <2>1, <2>2
<1> QED
  BY <1>2, <1>3, <1>4 DEF Cond!GetCondensation, CondProofs!GetCondensation

\* Both go through the same states, and the constructors accept their sizes.
LEMMA SameCondensers == Cond!Spec => CondProofs!Constructed /\ CondProofs!Spec
<1>1. CondProofs!Constructed
  BY CondensersAssumption DEF Cond!Constructed, CondProofs!Constructed
<1>2. Cond!Init <=> CondProofs!Init
  BY DEF Cond!Init, CondProofs!Init, Cond!Kinds, CondProofs!Kinds,
         Cond!Plain, CondProofs!Plain
<1>3. Cond!ShouldCondense <=> CondProofs!ShouldCondense
  BY SameViews
     DEF Cond!ShouldCondense, CondProofs!ShouldCondense, Cond!UnhandledRequest,
         CondProofs!UnhandledRequest, Cond!Condensed, CondProofs!Condensed
<1>4. Cond!Condense <=> CondProofs!Condense
  BY SameCondensations, <1>3
     DEF Cond!Condense, CondProofs!Condense, Cond!Add, CondProofs!Add,
         Cond!Raises, CondProofs!Raises
<1>5. Cond!Act <=> CondProofs!Act
  BY <1>3 DEF Cond!Act, CondProofs!Act, Cond!Add, CondProofs!Add,
              Cond!Plain, CondProofs!Plain
<1>6. Cond!UserMessage <=> CondProofs!UserMessage
  BY DEF Cond!UserMessage, CondProofs!UserMessage, Cond!Add, CondProofs!Add,
         Cond!Plain, CondProofs!Plain
<1>7. [Cond!Next]_(Cond!vars) <=> [CondProofs!Next]_(CondProofs!vars)
  BY <1>4, <1>5, <1>6 DEF Cond!Next, CondProofs!Next, Cond!vars, CondProofs!vars
<1> QED
  BY <1>1, <1>2, <1>7, PTL DEF Cond!Spec, CondProofs!Spec

\* The first events (the task) are what every view begins with, however often and
\* for whatever reason the history was condensed: no condensation forgets them,
\* and a summary is inserted behind them.
THEOREM CondensersKeepHead == Cond!Spec => []HeadKept
<1>1. \A S : Cond!Ascending(S) = CondProofs!Ascending(S)
  BY DEF Cond!Ascending, CondProofs!Ascending, Cond!Rank, CondProofs!Rank,
         Cond!Cardinality, CondProofs!Cardinality
<1>2. HeadKept <=> CondProofs!HeadKept
  BY SameViews, <1>1
     DEF HeadKept, Cond!HeadKept, CondProofs!HeadKept, Cond!FirstN, CondProofs!FirstN
<1> QED
  BY <1>2, SameCondensers, CondProofs!ViewsBeginWithHead, PTL

\* A condensation by size leaves half of max_size, with the summary in its place
\* and all of the last events: it does not have to be repeated at the next step.
THEOREM CondensersShrink == Cond!Spec => ShrinksToTarget
<1> DEFINE Shrinks ==
             kind # "window" /\ Len(cHistory') = Len(cHistory) + 1
               /\ (Cond!Condensed(Len(cHistory)))' =>
             /\ Len(Cond!View') = Cond!Target
             /\ LET n == Cond!Target - KeepFirst - (IF kind = "summarizing" THEN 1 ELSE 0)
                IN  Cond!LastN(Cond!View', n) = Cond!LastN(Cond!View, n)
           Shrunk ==
             kind # "window" /\ Len(cHistory') = Len(cHistory) + 1
               /\ (CondProofs!Condensed(Len(cHistory)))' =>
             /\ Len(CondProofs!View') = CondProofs!Target
             /\ LET n == CondProofs!Target - KeepFirst - (IF kind = "summarizing" THEN 1 ELSE 0)
                IN  CondProofs!LastN(CondProofs!View', n) = CondProofs!LastN(CondProofs!View, n)
<1>1. (Cond!View = CondProofs!View)'
  BY SameViews, PTL
<1>2. [Shrunk]_(CondProofs!vars) => [Shrinks]_(Cond!vars)
  BY SameViews, <1>1
     DEF Cond!Condensed, CondProofs!Condensed, Cond!Target, CondProofs!Target,
         Cond!LastN, CondProofs!LastN, Cond!vars, CondProofs!vars
<1>3. CondProofs!ShrinksToTarget => [][Shrunk]_(CondProofs!vars)
  BY DEF CondProofs!ShrinksToTarget
<1>4. [][Shrinks]_(Cond!vars) => ShrinksToTarget
  BY DEF ShrinksToTarget, Cond!ShrinksToTarget
<1> HIDE DEF Shrinks, Shrunk
<1> QED
  BY <1>2, <1>3, <1>4, SameCondensers, CondProofs!CondensationsShrink, PTL

-----------------------------------------------------------------------------
(***************************************************************************)
(* BashSession again: the lines that its observations show.  First what    *)
(* the pane, and an output, contain besides prompts.                       *)
(***************************************************************************)
\* The instances count and choose alike.
LEMMA SameSelection == \A s, S : Bash!Selected(s, S) = CondProofs!Selected(s, S)
<1>1. \A S : Bash!Cardinality(S) = CondProofs!Cardinality(S)
  BY DEF Bash!Cardinality, CondProofs!Cardinality
<1>2. \A S : Bash!Ascending(S) = CondProofs!Ascending(S)
  BY DEF Bash!Ascending, CondProofs!Ascending, Bash!Rank, CondProofs!Rank,
         Bash!Cardinality, CondProofs!Cardinality
<1> QED
  BY <1>1, <1>2 DEF Bash!Selected, CondProofs!Selected

\* The echoed and printed lines, the printed ones, and all that were printed.
TextOf(p) == CondProofs!ItemsOf(p, {"echo", "line"})
LinesOf(s) == CondProofs!ItemsOf(s, {"line"})
AllLines(n) == [i \in 1 .. n |-> Bash!Line(i)]

\* Of a pane that begins with a prompt, the combined outputs are its text.
LEMMA CombinedIsText ==
    ASSUME NEW p \in Seq(PaneItem), Len(p) # 0, p[1].k = "ps1"
    PROVE  /\ Bash!Combined(p, FALSE) = TextOf(p)
           /\ (Bash!PromptCount(p) = 1 => Len(p) = 1) =>
                Bash!Combined(p, Bash!PromptCount(p) = 1) = TextOf(p)
<1> DEFINE P == Bash!Prompts(p)
<1>1. 1 \in P /\ Len(p) \in Nat
  BY DEF Bash!Prompts, Bash!IsPrompt
<1>2. Bash!PromptCount(p) # 0
  BY <1>1, PromptsFinite, FS_EmptySet
<1>3. Bash!AfterFirstPrompt(p) \ P = CondProofs!KindOf(p, {"echo", "line"})
  <2>1. ASSUME NEW i \in 1 .. Len(p)
        PROVE  (i \in Bash!AfterFirstPrompt(p) /\ i \notin P) <=> p[i].k \in {"echo", "line"}
    <3>1. p[i] \in PaneItem
      OBVIOUS
    <3>2. i \notin P <=> p[i].k \in {"echo", "line"}
      BY <3>1 DEF Bash!Prompts, Bash!IsPrompt, PaneItem
    <3>3. i \notin P => 1 < i
      BY <1>1
    <3> QED BY <1>1, <3>2, <3>3 DEF Bash!AfterFirstPrompt
  <2> QED BY <2>1 DEF CondProofs!KindOf, Bash!AfterFirstPrompt
<1>4. ASSUME Len(p) = 1 PROVE SubSeq(p, 1, Bash!Min(P) - 1) = TextOf(p)
  <2>2. P = {1}
    BY <1>1, <1>4 DEF Bash!Prompts
  <2>3. Bash!Min(P) = 1
    <3>1. \A x \in P : x = 1 /\ x \in Nat
      BY <2>2
    <3>2. \E x \in P : \A y \in P : x <= y
      BY <2>2
    <3>3. Bash!Min(P) \in P
      BY <3>2, Zenon DEF Bash!Min
    <3> QED BY <3>1, <3>3
  <2>4. SubSeq(p, 1, Bash!Min(P) - 1) = <<>>
    BY <2>3
  <2>5. p = <<p[1]>> /\ p[1] \in PaneItem
    <3>1. Len(p) = 1
      BY <1>4
    <3>2. p[1] \in PaneItem
      BY <3>1
    <3> DEFINE one == <<p[1]>>
    <3>3. one \in Seq(PaneItem) /\ Len(one) = 1 /\ one[1] = p[1]
      BY <3>2
    <3> HIDE DEF one
    <3>4. \A i \in 1 .. Len(p) : p[i] = one[i]
      BY <3>1, <3>3
    <3>5. p = one
      BY <3>1, <3>3, <3>4, SeqEqual
    <3> QED BY <3>2, <3>5 DEF one
  <2>6. TextOf(p) = <<>>
    BY <2>5, CondProofs!ItemsOfOne DEF TextOf
  <2> QED BY <2>4, <2>6
<1>5. Bash!Selected(p, Bash!AfterFirstPrompt(p) \ P) = TextOf(p)
  BY <1>3, SameSelection DEF TextOf, CondProofs!ItemsOf
<1>6. Bash!Combined(p, FALSE) = TextOf(p)
  BY <1>2, <1>5 DEF Bash!Combined
<1>7. ASSUME Bash!PromptCount(p) = 1 => Len(p) = 1
      PROVE  Bash!Combined(p, Bash!PromptCount(p) = 1) = TextOf(p)
  <2>1. CASE Bash!PromptCount(p) = 1
    <3>1. Bash!Combined(p, Bash!PromptCount(p) = 1) = SubSeq(p, 1, Bash!Min(P) - 1)
      BY <1>2, <2>1 DEF Bash!Combined
    <3> QED BY <1>4, <1>7, <2>1, <3>1
  <2>2. CASE Bash!PromptCount(p) # 1
    BY <1>2, <1>5, <2>2 DEF Bash!Combined
  <2> QED BY <2>1, <2>2
<1> QED BY <1>6, <1>7

\* An observation shows the lines behind what was shown before.
LEMMA ReportsRest ==
    ASSUME prevOut \in Seq(PaneItem), NEW v \in Seq(PaneItem), NEW raw,
           raw = prevOut \o v, Bash!Report(raw)
    PROVE  reported' = reported \o LinesOf(v)
<1> DEFINE m == Len(prevOut)
           n == Len(raw)
           rest == SubSeq(raw, m + 1, n)
           start == SubSeq(raw, 1, m)
           all == SubSeq(prevOut, 1, m)
<1>1. /\ raw \in Seq(PaneItem) /\ n = m + Len(v) /\ m \in Nat /\ Len(v) \in Nat /\ n \in Nat
      /\ \A i \in 1 .. m : raw[i] = prevOut[i]
      /\ \A i \in 1 .. Len(v) : raw[m + i] = v[i]
  BY CondProofs!ConcatItems
<1>2. rest \in Seq(PaneItem) /\ Len(rest) = Len(v) /\ \A i \in 1 .. Len(v) : rest[i] = raw[m + i]
  <2> HIDE DEF m, n
  <2>1. m + 1 \in Int /\ n \in Int
    BY <1>1
  <2>2. \A i \in m + 1 .. n : raw[i] \in PaneItem
    BY <1>1 DEF n
  <2>3. /\ SubSeq(raw, m + 1, n) \in Seq(PaneItem)
        /\ Len(SubSeq(raw, m + 1, n)) = IF m + 1 <= n THEN n - (m + 1) + 1 ELSE 0
        /\ \A i \in 1 .. n - (m + 1) + 1 : SubSeq(raw, m + 1, n)[i] = raw[(m + 1) + i - 1]
    <3> DEFINE k == m + 1
    <3> HIDE DEF k
    <3>1. k \in Int /\ \A i \in k .. n : raw[i] \in PaneItem
      BY <2>1, <2>2 DEF k
    <3>2. SubSeq(raw, k, n) \in Seq(PaneItem)
      BY <2>1, <3>1, SubSeqProperties
    <3>3. Len(SubSeq(raw, k, n)) = IF k <= n THEN n - k + 1 ELSE 0
      BY <2>1, <3>1, SubSeqProperties
    <3>4. \A i \in 1 .. n - k + 1 : SubSeq(raw, k, n)[i] = raw[k + i - 1]
      BY <2>1, <3>1, CondProofs!PartItems, Zenon
    <3> QED BY <3>2, <3>3, <3>4 DEF k
  <2> HIDE DEF rest
  <2>4. rest = SubSeq(raw, m + 1, n)
    BY DEF rest
  <2>5. /\ Len(v) = IF m + 1 <= n THEN n - (m + 1) + 1 ELSE 0
        /\ n - (m + 1) + 1 = Len(v)
    <3>1. n = m + Len(v) /\ m \in Nat /\ Len(v) \in Nat
      BY <1>1
    <3> QED BY <3>1
  <2>6. rest \in Seq(PaneItem) /\ Len(rest) = Len(v)
    BY <2>3, <2>4, <2>5, Zenon
  <2>7. ASSUME NEW i \in 1 .. Len(v) PROVE rest[i] = raw[m + i]
    <3>1. (m + 1) + i - 1 = m + i
      BY <1>1
    <3> QED BY <2>3, <2>4, <2>5, <3>1
  <2> QED BY <2>6, <2>7
<1>3. rest = v
  <2> HIDE DEF rest, m, n
  <2>1. \A i \in 1 .. Len(rest) : rest[i] = v[i]
    BY <1>1, <1>2
  <2> QED BY <1>2, <2>1, SeqEqual
<1>4. start = all
  <2> HIDE DEF n
  <2>1. start \in Seq(PaneItem) /\ Len(start) = m /\ \A i \in 1 .. m : start[i] = raw[i]
    BY <1>1
  <2>2. all \in Seq(PaneItem) /\ Len(all) = m /\ \A i \in 1 .. m : all[i] = prevOut[i]
    BY <1>1
  <2> HIDE DEF start, all, m
  <2>3. \A i \in 1 .. Len(start) : start[i] = all[i]
    BY <1>1, <2>1, <2>2
  <2> QED BY <2>1, <2>2, <2>3, SeqEqual
<1>5. Bash!IsPrefix(prevOut, raw)
  BY <1>1, <1>4 DEF Bash!IsPrefix
<1>6. Bash!NewOutput(raw) = v
  BY <1>3, <1>5 DEF Bash!NewOutput
<1>7. {i \in DOMAIN v : Bash!IsLine(v[i])} = CondProofs!KindOf(v, {"line"})
  BY DEF CondProofs!KindOf, Bash!IsLine
<1> QED BY <1>6, <1>7, SameSelection DEF Bash!Report, LinesOf, CondProofs!ItemsOf

-----------------------------------------------------------------------------
\* What the pane shows is what the observations covered, and v; they have shown
\* the lines that were printed, but for the ones in v.
Behind(v) ==
    /\ TextOf(pane) = prevOut \o v
    /\ reported \o LinesOf(v) = AllLines(printed)

\* What a call saw when it began is covered, and u; more has come since.
BehindInitial ==
    /\ Len(call.initial) # 0 /\ call.initial[1].k = "ps1"
    /\ \E u, w \in Seq(PaneItem) :
          TextOf(call.initial) = prevOut \o u /\ Behind(u \o w)

LinesShown ==
    /\ prevOut \in Seq(PaneItem) /\ reported \in Seq(PaneItem)
    /\ pane[1].k = "ps1"
    /\ \E v \in Seq(PaneItem) : Behind(v)
    /\ call.pc = "captured" => BehindInitial
    /\ call.pc # "polling" /\ status = "completed" => Len(reported) = printed

LinesInv == ~scrolled => LinesShown

\* The text and the lines are items of the pane.
LEMMA TextIsSeq ==
    ASSUME NEW p \in Seq(PaneItem)
    PROVE  TextOf(p) \in Seq(PaneItem) /\ LinesOf(p) \in Seq(PaneItem)
<1>0. CondProofs!AreSeqs(PaneItem, p, p)
  BY DEF CondProofs!AreSeqs
<1>1. CondProofs!ItemsOf(p, {"echo", "line"}) \in Seq(PaneItem)
  BY <1>0, CondProofs!ItemsConcat
<1>2. CondProofs!ItemsOf(p, {"line"}) \in Seq(PaneItem)
  BY <1>0, CondProofs!ItemsConcat
<1> QED BY <1>1, <1>2 DEF TextOf, LinesOf

\* The text and the lines of two sequences one behind the other.
LEMMA TextProperties ==
    ASSUME NEW p \in Seq(PaneItem), NEW v \in Seq(PaneItem)
    PROVE  /\ TextOf(p \o v) = TextOf(p) \o TextOf(v)
           /\ LinesOf(p \o v) = LinesOf(p) \o LinesOf(v)
<1>1. ASSUME NEW K
      PROVE  CondProofs!ItemsOf(p \o v, K) = CondProofs!ItemsOf(p, K) \o CondProofs!ItemsOf(v, K)
  <2>1. CondProofs!AreSeqs(PaneItem, p, v)
    BY DEF CondProofs!AreSeqs
  <2> QED BY <2>1, CondProofs!ItemsConcat
<1> QED BY <1>1, Zenon DEF TextOf, LinesOf

\* The text and the lines of one item.
LEMMA TextOfOne ==
    ASSUME NEW x \in PaneItem
    PROVE  /\ TextOf(<<>>) = <<>> /\ LinesOf(<<>>) = <<>>
           /\ x.k = "ps1" => TextOf(<<x>>) = <<>>
           /\ x.k # "ps1" => TextOf(<<x>>) = <<x>>
           /\ x.k = "line" => LinesOf(<<x>>) = <<x>>
           /\ x.k # "line" => LinesOf(<<x>>) = <<>>
<1>1. x.k \in {"ps1", "echo", "line"}
  BY DEF PaneItem
<1>2. TextOf(<<>>) = <<>> /\ LinesOf(<<>>) = <<>>
  BY CondProofs!ItemsOfOne DEF TextOf, LinesOf
<1>3. TextOf(<<x>>) = IF x.k \in {"echo", "line"} THEN <<x>> ELSE <<>>
  BY CondProofs!ItemsOfOne DEF TextOf
<1>4. LinesOf(<<x>>) = IF x.k \in {"line"} THEN <<x>> ELSE <<>>
  BY CondProofs!ItemsOfOne DEF LinesOf
<1> QED BY <1>1, <1>2, <1>3, <1>4

\* The lines, and one line more.
LEMMA AllLinesNext ==
    ASSUME NEW n \in Nat
    PROVE  /\ Bash!Line(n + 1) \in PaneItem /\ Bash!Line(n + 1).k = "line"
           /\ AllLines(n) \in Seq(PaneItem) /\ Len(AllLines(n)) = n
           /\ AllLines(n + 1) = AllLines(n) \o <<Bash!Line(n + 1)>>
<1>1. \A i \in Nat : Bash!Line(i) \in PaneItem /\ Bash!Line(i).k = "line"
  BY DEF Bash!Line, PaneItem
<1> DEFINE s == [i \in 1 .. n |-> Bash!Line(i)]
           t == [i \in 1 .. n + 1 |-> Bash!Line(i)]
           r == <<Bash!Line(n + 1)>>
<1>2. s \in Seq(PaneItem) /\ Len(s) = n /\ \A i \in 1 .. n : s[i] = Bash!Line(i)
  BY <1>1
<1>3. t \in Seq(PaneItem) /\ Len(t) = n + 1 /\ \A i \in 1 .. n + 1 : t[i] = Bash!Line(i)
  BY <1>1
<1>4. r \in Seq(PaneItem) /\ Len(r) = 1 /\ r[1] = Bash!Line(n + 1)
  BY <1>1
<1>5. s = AllLines(n) /\ t = AllLines(n + 1)
  BY DEF AllLines
<1> HIDE DEF s, t, r
<1> DEFINE o == s \o r
<1>6. /\ o \in Seq(PaneItem) /\ Len(o) = n + 1
      /\ \A i \in 1 .. n : o[i] = s[i]
      /\ o[n + 1] = r[1]
  BY <1>2, <1>4, CondProofs!ConcatItems
<1> HIDE DEF o
<1>7. \A i \in 1 .. n + 1 : i \in 1 .. n \/ i = n + 1
  OBVIOUS
<1>8. \A i \in 1 .. Len(t) : t[i] = o[i]
  BY <1>2, <1>3, <1>4, <1>6, <1>7
<1>9. t = o
  BY <1>3, <1>6, <1>8, SeqEqual
<1> QED BY <1>1, <1>2, <1>5, <1>9 DEF o, r

\* The order in which sequences are joined does not matter.
LEMMA PaneJoin ==
    ASSUME NEW s \in Seq(PaneItem), NEW t \in Seq(PaneItem), NEW u \in Seq(PaneItem)
    PROVE  (s \o t) \o u = s \o (t \o u)
  BY ConcatAssociative

\* The terminal shows x as well; nothing is reported.
Adds(x) ==
    /\ TextOf(pane') = TextOf(pane) \o x
    /\ AllLines(printed') = AllLines(printed) \o LinesOf(x)
    /\ UNCHANGED <<prevOut, reported>>

\* What is behind stays behind, with what one item more adds.
LEMMA BehindMore ==
    ASSUME prevOut \in Seq(PaneItem), reported \in Seq(PaneItem), pane \in Seq(PaneItem),
           NEW v \in Seq(PaneItem), Behind(v), NEW x \in Seq(PaneItem), Adds(x)
    PROVE  v \o x \in Seq(PaneItem) /\ Behind(v \o x)'
<1> DEFINE join(s, t) == s \o t
<1>1. join(v, x) \in Seq(PaneItem)
  BY CondProofs!ConcatItems
<1>2. \A s, t, u \in Seq(PaneItem) : join(join(s, t), u) = join(s, join(t, u))
  BY PaneJoin
<1>3. /\ TextOf(pane) = join(prevOut, v)
      /\ join(reported, LinesOf(v)) = AllLines(printed)
  BY DEF Behind
<1>4. /\ TextOf(pane') = join(TextOf(pane), x)
      /\ AllLines(printed') = join(AllLines(printed), LinesOf(x))
      /\ UNCHANGED <<prevOut, reported>>
  BY DEF Adds
<1>5. LinesOf(v) \in Seq(PaneItem) /\ LinesOf(x) \in Seq(PaneItem)
  BY TextIsSeq
<1>6. LinesOf(join(v, x)) = join(LinesOf(v), LinesOf(x))
  BY TextProperties
<1> HIDE DEF join
<1>7. TextOf(pane') = join(prevOut, join(v, x))
  BY <1>2, <1>3, <1>4
<1>8. join(reported, LinesOf(join(v, x))) = AllLines(printed')
  BY <1>2, <1>3, <1>4, <1>5, <1>6
<1> QED BY <1>1, <1>4, <1>7, <1>8 DEF Behind, join

\* What the terminal shows comes behind, as long as nothing is lost.
LEMMA ShowAdds ==
    ASSUME pane \in Seq(PaneItem), Len(pane) # 0, NEW item \in PaneItem, Bash!Show(item),
           ~ scrolled', UNCHANGED <<prevOut, reported>>,
           AllLines(printed') = AllLines(printed) \o LinesOf(TextOf(<<item>>))
    PROVE  /\ ~ scrolled /\ pane'[1] = pane[1]
           /\ TextOf(<<item>>) \in Seq(PaneItem) /\ Adds(TextOf(<<item>>))
<1> DEFINE shown == Append(pane, item)
           one == <<item>>
<1>1. ~ scrolled /\ pane' = shown
  BY DEF Bash!Show
<1>2. one \in Seq(PaneItem) /\ Len(one) = 1 /\ one[1] = item
  OBVIOUS
<1>3. shown = pane \o one
  BY AppendIsConcat
<1>7. shown[1] = pane[1]
  OBVIOUS
<1> HIDE DEF shown, one
<1>4. TextOf(one) \in Seq(PaneItem) /\ TextOf(pane \o one) = TextOf(pane) \o TextOf(one)
  BY <1>2, TextIsSeq, TextProperties
<1>5. TextOf(pane') = TextOf(pane) \o TextOf(one)
  BY <1>1, <1>3, <1>4
<1>6. Adds(TextOf(one))
  BY <1>5 DEF Adds, one
<1> QED BY <1>1, <1>4, <1>6, <1>7 DEF one

\* So the terminal preserves what is known of the lines.
LEMMA AddsKeeps ==
    ASSUME BashTypeOK, LinesShown, NEW x \in Seq(PaneItem), Adds(x), pane'[1] = pane[1],
           UNCHANGED <<status, call>>,
           call.pc # "polling" /\ status = "completed" => printed' = printed
    PROVE  LinesShown'
<1>1. /\ prevOut \in Seq(PaneItem) /\ reported \in Seq(PaneItem) /\ pane \in Seq(PaneItem)
      /\ prevOut' = prevOut /\ reported' = reported /\ pane'[1].k = "ps1"
  BY DEF BashTypeOK, LinesShown, Adds
<1>2. \E v \in Seq(PaneItem) : Behind(v)'
  <2>1. PICK v \in Seq(PaneItem) : Behind(v)
    BY DEF LinesShown
  <2>2. v \o x \in Seq(PaneItem) /\ Behind(v \o x)'
    BY <1>1, <2>1, BehindMore
  <2> QED BY <2>2
<1>3. ASSUME call.pc = "captured" PROVE BehindInitial'
  <2>1. PICK u \in Seq(PaneItem), w \in Seq(PaneItem) :
           TextOf(call.initial) = prevOut \o u /\ Behind(u \o w)
    BY <1>3 DEF LinesShown, BehindInitial
  <2>2. Len(call.initial) # 0 /\ call.initial[1].k = "ps1"
    BY <1>3 DEF LinesShown, BehindInitial
  <2> DEFINE uw == u \o w
             wx == w \o x
  <2>3. uw \in Seq(PaneItem) /\ Behind(uw)
    BY <2>1, CondProofs!ConcatItems
  <2>4. wx \in Seq(PaneItem)
    BY CondProofs!ConcatItems
  <2>5. uw \o x = u \o wx
    BY PaneJoin
  <2> HIDE DEF uw, wx
  <2>6. Behind(uw \o x)'
    BY <1>1, <2>3, BehindMore
  <2>7. Behind(u \o wx)'
    BY <2>5, <2>6, Zenon DEF Behind
  <2>8. TextOf(call'.initial) = prevOut' \o u
    BY <1>1, <2>1
  <2> QED BY <2>2, <2>4, <2>7, <2>8, Zenon DEF BehindInitial
<1>4. call'.pc # "polling" /\ status' = "completed" => Len(reported') = printed'
  BY <1>1 DEF LinesShown
<1> QED BY <1>1, <1>2, <1>3, <1>4 DEF LinesShown

\* An observation of all that is behind up to u leaves w behind.
LEMMA ReportCatchesUp ==
    ASSUME prevOut \in Seq(PaneItem), reported \in Seq(PaneItem),
           NEW u \in Seq(PaneItem), NEW w \in Seq(PaneItem), Behind(u \o w),
           NEW raw, raw = prevOut \o u, Bash!Report(raw), prevOut' = raw,
           UNCHANGED <<pane, printed>>
    PROVE  prevOut' \in Seq(PaneItem) /\ reported' \in Seq(PaneItem) /\ Behind(w)'
<1> DEFINE join(s, t) == s \o t
<1>1. reported' = join(reported, LinesOf(u))
  BY ReportsRest
<1>2. \A s, t, z \in Seq(PaneItem) : join(join(s, t), z) = join(s, join(t, z))
  BY PaneJoin
<1>3. /\ TextOf(pane) = join(prevOut, join(u, w))
      /\ join(reported, LinesOf(join(u, w))) = AllLines(printed)
  BY DEF Behind
<1>4. LinesOf(u) \in Seq(PaneItem) /\ LinesOf(w) \in Seq(PaneItem)
  BY TextIsSeq
<1>5. LinesOf(join(u, w)) = join(LinesOf(u), LinesOf(w))
  BY TextProperties
<1>6. join(prevOut, u) \in Seq(PaneItem) /\ join(reported, LinesOf(u)) \in Seq(PaneItem)
  BY <1>4, CondProofs!ConcatItems
<1>7. prevOut' = join(prevOut, u) /\ pane' = pane /\ printed' = printed
  OBVIOUS
<1> HIDE DEF join
<1>8. TextOf(pane') = join(prevOut', w)
  BY <1>2, <1>3, <1>7
<1>9. join(reported', LinesOf(w)) = AllLines(printed')
  BY <1>1, <1>2, <1>3, <1>4, <1>5, <1>7
<1>10. Behind(w)'
  BY <1>8, <1>9 DEF Behind, join
<1> QED BY <1>1, <1>6, <1>7, <1>10

\* initialize: nothing was printed.
LEMMA LinesInvInit == ASSUME Bash!Init PROVE LinesInv
<1>1. <<>> \in Seq(PaneItem) /\ Len(<<>>) = 0
  OBVIOUS
<1>2. Bash!Prompt(0) \in PaneItem /\ Bash!Prompt(0).k = "ps1"
  BY DEF Bash!Prompt, PaneItem
<1>3. TextOf(<<Bash!Prompt(0)>>) = <<>> /\ LinesOf(<<>>) = <<>>
  BY <1>2, TextOfOne
<1>4. AllLines(0) = <<>>
  <2>1. AllLines(0) \in Seq(PaneItem) /\ Len(AllLines(0)) = 0
    BY AllLinesNext
  <2> QED BY <2>1, EmptySeq
<1>5. <<>> \o <<>> = <<>>
  OBVIOUS
<1>6. /\ prevOut = <<>> /\ reported = <<>> /\ printed = 0 /\ pane = <<Bash!Prompt(0)>>
      /\ call.pc = "idle" /\ status = "none"
  BY DEF Bash!Init, Bash!Idle
<1>7. Behind(<<>>)
  BY <1>3, <1>4, <1>5, <1>6 DEF Behind
<1>8. pane[1].k = "ps1"
  BY <1>2, <1>6
<1>9. prevOut \in Seq(PaneItem) /\ reported \in Seq(PaneItem)
  BY <1>1, <1>6
<1>10. \E v \in Seq(PaneItem) : Behind(v)
  BY <1>1, <1>7
<1> QED BY <1>6, <1>8, <1>9, <1>10 DEF LinesInv, LinesShown

\* Every step of the terminal and of execute preserves it.
LEMMA LinesInvNext == ASSUME BashInv, LinesInv, [Bash!Next]_Bash!vars PROVE LinesInv'
<1> SUFFICES ASSUME ~ scrolled' PROVE LinesShown'
  BY DEF LinesInv
<1>a. /\ BashTypeOK /\ PromptIffFree /\ TypedWhenFree /\ NoNewPrompt /\ FreeUnlessTimedOut
      /\ pane \in Seq(PaneItem) /\ Len(pane) # 0 /\ printed \in Nat /\ proc \in Nat
      /\ call.initial \in Seq(PaneItem) /\ typed \in Seq(TypedLine)
  <2>1. BashTypeOK /\ PromptIffFree /\ TypedWhenFree /\ NoNewPrompt /\ FreeUnlessTimedOut
    BY DEF BashInv
  <2> QED BY <2>1 DEF BashTypeOK, PromptIffFree, BashCall
<1>b. ASSUME ~ scrolled
      PROVE  /\ LinesShown /\ prevOut \in Seq(PaneItem) /\ reported \in Seq(PaneItem)
             /\ pane[1].k = "ps1" /\ \E v \in Seq(PaneItem) : Behind(v)
             /\ call.pc = "captured" => BehindInitial
  BY <1>b DEF LinesInv, LinesShown
<1>e. Bash!Idle.pc = "idle"
  BY DEF Bash!Idle
<1>f. <<>> \in Seq(PaneItem) /\ \A s \in Seq(PaneItem) : s \o <<>> = s /\ <<>> \o s = s
  BY ConcatEmptySeq
<1>1. CASE Bash!Output
  <2> DEFINE item == Bash!Line(printed + 1)
  <2>1. /\ proc # 0 /\ printed' = printed + 1 /\ Bash!Show(item)
        /\ UNCHANGED <<status, call, prevOut, reported>>
    BY <1>1 DEF Bash!Output
  <2>2. item \in PaneItem /\ item.k = "line"
    BY <1>a, AllLinesNext
  <2>3. AllLines(printed + 1) = AllLines(printed) \o <<item>>
    BY <1>a, AllLinesNext
  <2> HIDE DEF item
  <2>4. TextOf(<<item>>) = <<item>> /\ LinesOf(<<item>>) = <<item>>
    BY <2>2, TextOfOne
  <2>5. AllLines(printed') = AllLines(printed) \o LinesOf(TextOf(<<item>>))
    BY <2>1, <2>3, <2>4
  <2>6. /\ ~ scrolled /\ pane'[1] = pane[1]
        /\ TextOf(<<item>>) \in Seq(PaneItem) /\ Adds(TextOf(<<item>>))
    BY <1>a, <2>1, <2>2, <2>5, ShowAdds
  <2>7. ~ (call.pc # "polling" /\ status = "completed")
    BY <1>a, <2>1 DEF FreeUnlessTimedOut, Bash!TimedOut
  <2> QED BY <1>a, <1>b, <2>1, <2>6, <2>7, AddsKeeps
<1>2. CASE Bash!Finish
  <2> DEFINE item == Bash!Prompt(proc)
  <2>1. Bash!Show(item) /\ UNCHANGED <<status, call, prevOut, reported, printed>>
    BY <1>2 DEF Bash!Finish
  <2>2. item \in PaneItem /\ item.k = "ps1"
    BY <1>a DEF Bash!Prompt, PaneItem
  <2> HIDE DEF item
  <2>3. TextOf(<<item>>) = <<>> /\ LinesOf(<<>>) = <<>>
    BY <2>2, TextOfOne
  <2>4. AllLines(printed) \in Seq(PaneItem)
    BY <1>a, AllLinesNext
  <2>5. AllLines(printed') = AllLines(printed) \o LinesOf(TextOf(<<item>>))
    BY <1>f, <2>1, <2>3, <2>4
  <2>6. /\ ~ scrolled /\ pane'[1] = pane[1]
        /\ TextOf(<<item>>) \in Seq(PaneItem) /\ Adds(TextOf(<<item>>))
    BY <1>a, <2>1, <2>2, <2>5, ShowAdds
  <2> QED BY <1>a, <1>b, <2>1, <2>6, AddsKeeps
<1>3. CASE Bash!Read
  <2> DEFINE n == Head(typed).n
             item == Bash!Echo(n)
  <2>1. /\ typed # <<>> /\ Bash!Show(item)
        /\ UNCHANGED <<status, call, prevOut, reported, printed>>
    BY <1>3 DEF Bash!Read
  <2>2. n \in Nat
    <3>1. Head(typed) \in TypedLine
      BY <1>a, <2>1
    <3> QED BY <3>1 DEF TypedLine
  <2>3. item \in PaneItem /\ item.k = "echo"
    BY <2>2 DEF Bash!Echo, PaneItem
  <2> HIDE DEF item, n
  <2>4. TextOf(<<item>>) = <<item>> /\ LinesOf(<<item>>) = <<>>
    BY <2>3, TextOfOne
  <2>5. AllLines(printed) \in Seq(PaneItem)
    BY <1>a, AllLinesNext
  <2>6. AllLines(printed') = AllLines(printed) \o LinesOf(TextOf(<<item>>))
    BY <1>f, <2>1, <2>4, <2>5
  <2>7. /\ ~ scrolled /\ pane'[1] = pane[1]
        /\ TextOf(<<item>>) \in Seq(PaneItem) /\ Adds(TextOf(<<item>>))
    BY <1>a, <2>1, <2>3, <2>6, ShowAdds
  <2> QED BY <1>a, <1>b, <2>1, <2>7, AddsKeeps
<1>4. ASSUME NEW k \in {"command", "empty", "input"}, Bash!Capture(k) PROVE LinesShown'
  <2>1. /\ call.pc = "idle" /\ call'.pc = "captured" /\ call'.initial = pane
        /\ UNCHANGED <<scrolled, pane, printed, status, prevOut, reported>>
    BY <1>4 DEF Bash!Capture, Bash!terminal
  <2>2. /\ LinesShown /\ prevOut \in Seq(PaneItem) /\ reported \in Seq(PaneItem)
        /\ pane[1].k = "ps1"
    BY <1>b, <2>1
  <2>3. PICK v \in Seq(PaneItem) : Behind(v)
    BY <1>b, <2>1
  <2>4. Behind(v)'
    BY <2>1, <2>3 DEF Behind
  <2>5. Behind(v \o <<>>)'
    BY <1>f, <2>3, <2>4, Zenon
  <2>6. TextOf(call'.initial) = prevOut' \o v
    BY <2>1, <2>3 DEF Behind
  <2>7. BehindInitial'
    BY <1>a, <1>f, <2>1, <2>2, <2>3, <2>5, <2>6 DEF BehindInitial
  <2>8. call.pc # "polling" /\ status = "completed" => Len(reported) = printed
    BY <2>2 DEF LinesShown
  <2> QED BY <2>1, <2>2, <2>3, <2>4, <2>7, <2>8 DEF LinesShown
<1>5. CASE Bash!Refuse
  <2> DEFINE raw == Bash!Combined(call.initial, FALSE)
  <2>1. /\ call.pc = "captured" /\ Bash!Report(raw) /\ prevOut' = raw /\ call' = Bash!Idle
        /\ UNCHANGED <<scrolled, pane, printed, status>>
    BY <1>5 DEF Bash!Refuse, Bash!terminal
  <2>2. status # "completed"
    BY <1>5 DEF Bash!Refuse, Bash!MustWait, Bash!TimedOut
  <2>3. prevOut \in Seq(PaneItem) /\ reported \in Seq(PaneItem) /\ pane[1].k = "ps1"
    BY <1>b, <2>1
  <2>4. BehindInitial
    BY <1>b, <2>1
  <2>5. PICK u \in Seq(PaneItem), w \in Seq(PaneItem) :
           TextOf(call.initial) = prevOut \o u /\ Behind(u \o w)
    BY <2>4 DEF BehindInitial
  <2>6. raw = prevOut \o u
    <3>1. raw = TextOf(call.initial)
      BY <1>a, <2>4, CombinedIsText DEF BehindInitial
    <3> QED BY <2>5, <3>1
  <2> HIDE DEF raw
  <2>7. prevOut' \in Seq(PaneItem) /\ reported' \in Seq(PaneItem) /\ Behind(w)'
    BY <2>1, <2>3, <2>5, <2>6, ReportCatchesUp
  <2> QED BY <1>e, <2>1, <2>2, <2>3, <2>7 DEF LinesShown
<1>6. CASE Bash!Send
  <2>1. call'.pc = "polling" /\ UNCHANGED <<scrolled, pane, printed, status, prevOut, reported>>
    <3>1. call' = [call EXCEPT !.pc = "polling"] /\ call \in BashCall
      BY <1>6, <1>a DEF Bash!Send, BashTypeOK
    <3>2. call'.pc = "polling"
      BY <3>1 DEF BashCall
    <3> QED BY <1>6, <3>2 DEF Bash!Send
  <2>2. prevOut \in Seq(PaneItem) /\ reported \in Seq(PaneItem) /\ pane[1].k = "ps1"
    BY <1>b, <2>1
  <2>3. PICK v \in Seq(PaneItem) : Behind(v)
    BY <1>b, <2>1
  <2>4. Behind(v)'
    BY <2>1, <2>3 DEF Behind
  <2> QED BY <2>1, <2>2, <2>3, <2>4 DEF LinesShown
<1>7. CASE Bash!HandleCompleted
  <2> DEFINE end == pane[Len(pane)]
             raw == Bash!Combined(pane, Bash!PromptCount(pane) = 1)
  <2>1. /\ Bash!Report(raw) /\ prevOut' = <<>> /\ call' = Bash!Idle
        /\ UNCHANGED <<scrolled, printed>>
    BY <1>7 DEF Bash!HandleCompleted
  <2>2. proc = 0 /\ pane' = <<end>> /\ end \in PaneItem
    BY <1>a, <1>7, CompletedWhenFree
  <2>3. end.k = "ps1"
    BY <2>2, <1>a DEF PromptIffFree
  <2>4. prevOut \in Seq(PaneItem) /\ reported \in Seq(PaneItem) /\ pane[1].k = "ps1"
    BY <1>b, <2>1
  <2>5. PICK v \in Seq(PaneItem) : Behind(v)
    BY <1>b, <2>1
  <2>6. Bash!PromptCount(pane) = 1 => Len(pane) = 1
    <3>1. 1 \in Bash!Prompts(pane) /\ Len(pane) \in Bash!Prompts(pane)
      BY <1>a, <2>3, <2>4 DEF Bash!Prompts, Bash!IsPrompt
    <3>2. /\ IsFiniteSet(Bash!Prompts(pane))
          /\ Bash!PromptCount(pane) = Cardinality(Bash!Prompts(pane))
      BY <1>a, PromptsFinite
    <3>3. ASSUME Cardinality(Bash!Prompts(pane)) = 1 PROVE Len(pane) = 1
      <4>1. PICK x : Bash!Prompts(pane) = {x}
        BY <3>2, <3>3, FS_Singleton, Zenon
      <4> QED BY <3>1, <4>1
    <3> QED BY <3>2, <3>3
  <2>7. raw = TextOf(pane)
    BY <1>a, <2>4, <2>6, CombinedIsText
  <2>8. raw = prevOut \o v
    BY <2>5, <2>7 DEF Behind
  <2> HIDE DEF raw
  <2>9. reported' = reported \o LinesOf(v)
    BY <2>1, <2>4, <2>8, ReportsRest
  <2>10. reported' = AllLines(printed)
    BY <2>5, <2>9 DEF Behind
  <2>11. AllLines(printed) \in Seq(PaneItem) /\ Len(AllLines(printed)) = printed
    BY <1>a, AllLinesNext
  <2>12. TextOf(<<end>>) = <<>> /\ LinesOf(<<>>) = <<>>
    BY <2>2, <2>3, TextOfOne
  <2>13. pane'[1].k = "ps1"
    BY <2>2, <2>3
  <2> HIDE DEF end
  <2>14. Behind(<<>>)'
    BY <1>f, <2>1, <2>2, <2>10, <2>11, <2>12 DEF Behind
  <2>15. prevOut' \in Seq(PaneItem) /\ reported' \in Seq(PaneItem) /\ Len(reported') = printed'
    BY <1>f, <2>1, <2>10, <2>11
  <2> QED BY <1>e, <1>f, <2>1, <2>13, <2>14, <2>15 DEF LinesShown
<1>8. ASSUME NEW reason \in Bash!TimedOut, Bash!HandleTimeout(reason) PROVE LinesShown'
  <2> DEFINE raw == Bash!Combined(pane, FALSE)
  <2>1. /\ Bash!Report(raw) /\ prevOut' = raw /\ status' = reason /\ call' = Bash!Idle
        /\ UNCHANGED <<scrolled, pane, printed>>
    BY <1>8 DEF Bash!HandleTimeout, Bash!terminal
  <2>2. status' # "completed"
    BY <2>1 DEF Bash!TimedOut
  <2>3. prevOut \in Seq(PaneItem) /\ reported \in Seq(PaneItem) /\ pane[1].k = "ps1"
    BY <1>b, <2>1
  <2>4. PICK v \in Seq(PaneItem) : Behind(v)
    BY <1>b, <2>1
  <2>5. Behind(v \o <<>>)
    BY <1>f, <2>4, Zenon
  <2>6. raw = prevOut \o v
    <3>1. raw = TextOf(pane)
      BY <1>a, <2>3, CombinedIsText
    <3> QED BY <2>4, <3>1 DEF Behind
  <2> HIDE DEF raw
  <2>7. prevOut' \in Seq(PaneItem) /\ reported' \in Seq(PaneItem) /\ Behind(<<>>)'
    BY <1>f, <2>1, <2>3, <2>5, <2>6, ReportCatchesUp
  <2> QED BY <1>e, <1>f, <2>1, <2>2, <2>3, <2>7 DEF LinesShown
<1>9. CASE UNCHANGED Bash!vars
  <2>1. UNCHANGED <<scrolled, pane, printed, status, prevOut, reported, call>>
    BY <1>9 DEF Bash!vars
  <2> QED BY <1>b, <2>1 DEF LinesShown, BehindInitial, Behind
<1> QED
  BY <1>1, <1>2, <1>3, <1>4, <1>5, <1>6, <1>7, <1>8, <1>9 DEF Bash!Next

(***************************************************************************)
(* The observations of BashSession show every printed line once and in     *)
(* order, and all of them when a command is said to be completed, for any  *)
(* number of calls and lines: what the pane shows is always what the end  *)
(* output had, and more.  It says nothing once lines have scrolled off.    *)
(***************************************************************************)
THEOREM BashEachLineOnce == Bash!Spec => []EachLineOnce
<1>1. BashInv /\ LinesInv => EachLineOnce
  <2> SUFFICES ASSUME BashInv, LinesInv, ~ scrolled
               PROVE  /\ reported = [i \in 1 .. Len(reported) |-> Bash!Line(i)]
                      /\ call.pc = "idle" /\ status = "completed" => Len(reported) = printed
    BY DEF EachLineOnce, Bash!EachLineOnce
  <2>1. /\ reported \in Seq(PaneItem)
        /\ call.pc # "polling" /\ status = "completed" => Len(reported) = printed
    BY DEF LinesInv, LinesShown
  <2>2. PICK v \in Seq(PaneItem) : reported \o LinesOf(v) = AllLines(printed)
    BY DEF LinesInv, LinesShown, Behind
  <2> DEFINE rest == LinesOf(v)
             all == reported \o rest
  <2>3. rest \in Seq(PaneItem)
    BY TextIsSeq
  <2> HIDE DEF rest
  <2>4. /\ Len(all) = Len(reported) + Len(rest)
        /\ Len(reported) \in Nat /\ Len(rest) \in Nat
        /\ \A i \in 1 .. Len(reported) : all[i] = reported[i]
    BY <2>1, <2>3, CondProofs!ConcatItems
  <2>5. all = AllLines(printed) /\ Len(AllLines(printed)) = printed /\ printed \in Nat
    BY <2>2, AllLinesNext DEF BashInv, BashTypeOK, rest
  <2> HIDE DEF all
  <2>6. \A i \in 1 .. Len(reported) : reported[i] = Bash!Line(i)
    <3>1. \A i \in 1 .. Len(reported) : i \in 1 .. printed
      BY <2>4, <2>5
    <3> QED BY <2>4, <2>5, <3>1 DEF AllLines
  <2>7. reported = [i \in 1 .. Len(reported) |-> Bash!Line(i)]
    <3>1. reported = [i \in 1 .. Len(reported) |-> reported[i]]
      BY <2>1
    <3> QED BY <2>6, <3>1
  <2> QED BY <2>1, <2>7
<1> QED
  BY <1>1, BashInvInit, BashInvNext, LinesInvInit, LinesInvNext, PTL DEF Bash!Spec
=============================================================================
