----------------------------- MODULE Condensers -----------------------------
(***************************************************************************)
(* The rolling condensers (openhands/memory/condenser) and the View that   *)
(* CondensationActions leave of the history (openhands/memory/view.py):    *)
(* AmortizedForgettingCondenser, LLMSummarizingCondenser (and the          *)
(* structured one, which chooses the same events) and                      *)
(* ConversationWindowCondenser.                                            *)
(***************************************************************************)
EXTENDS Integers, Sequences, SequencesExt, FiniteSetsExt, Selection

CONSTANTS
    MaxSize,     \* max_size
    KeepFirst,   \* keep_first
    MaxEvents    \* bound on the events of the history

VARIABLES
    kind,      \* the condenser of the agent
    history,   \* state.history; an event's id is its position
    mode       \* "on", or "error" after the condenser has raised

vars == <<kind, history, mode>>

Kinds == {"amortized", "summarizing", "window"}

\* What the constructors demand of their parameters.
Constructed == MaxSize \in Nat /\ KeepFirst \in Nat /\ KeepFirst < MaxSize \div 2

Plain(k) == [k |-> k, forgotten |-> {}, summary |-> FALSE]
Condensation(forgotten, summary) ==
    [k |-> "condensation", forgotten |-> forgotten, summary |-> summary]

Init ==
    /\ kind \in Kinds
    /\ history = <<Plain("user")>>
    /\ mode = "on"

-----------------------------------------------------------------------------
(***************************************************************************)
(* View.from_events: ids, and Summary for the observation that stands for  *)
(* what was summarized.                                                    *)
(***************************************************************************)
Summary == -1    \* it has no id

Condensed(i) == history[i].k = "condensation"

Forgotten ==
    (UNION {history[i].forgotten : i \in DOMAIN history})
      \cup {i \in DOMAIN history : history[i].k \in {"condensation", "request"}}

\* list.insert(offset, x).
Insert(s, offset, x) ==
    LET at == IF offset < Len(s) THEN offset ELSE Len(s)
    IN  SubSeq(s, 1, at) \o <<x>> \o SubSeq(s, at + 1, Len(s))

View ==
    LET kept == Ascending(DOMAIN history \ Forgotten)
    IN  IF \E i \in DOMAIN history : history[i].summary
          THEN Insert(kept, KeepFirst, Summary) ELSE kept

UnhandledRequest ==
    \E i \in DOMAIN history :
        history[i].k = "request" /\ \A j \in i + 1 .. Len(history) : ~Condensed(j)

-----------------------------------------------------------------------------
(***************************************************************************)
(* get_condensation; Raises when min() has nothing to choose from or an    *)
(* index is out of range.                                                  *)
(***************************************************************************)
Raises == [k |-> "raises"]

\* s[-n:] and s[:n].
LastN(s, n) == SubSeq(s, IF n = 0 \/ n > Len(s) THEN 1 ELSE Len(s) - n + 1, Len(s))
FirstN(s, n) == SubSeq(s, 1, IF n < Len(s) THEN n ELSE Len(s))
\* s[m:-n]
Between(s, m, n) == IF n = 0 THEN <<>> ELSE SubSeq(s, m + 1, Len(s) - n)

ForgetRange(ids, summary) ==
    IF ids = {} THEN Raises ELSE Condensation(Min(ids) .. Max(ids), summary)

Target == MaxSize \div 2

Amortized ==
    LET head == FirstN(View, KeepFirst)
        tail == LastN(View, Target - Len(head))
    IN  ForgetRange(ToSet(View) \ ToSet(head \o tail), FALSE)

\* Mutant of Summarizing: no place is left for the summary.
SummarizingTight ==
    LET head == FirstN(View, KeepFirst)
        middle == Between(View, KeepFirst, Target - Len(head))
    IN  IF Len(View) <= KeepFirst THEN Raises ELSE ForgetRange(ToSet(middle) \ {Summary}, TRUE)

\* Mutant of Summarizing: the middle begins one event too early.
SummarizingHead ==
    LET head == FirstN(View, KeepFirst)
        middle == Between(View, KeepFirst - 1, Target - Len(head) - 1)
    IN  IF Len(View) <= KeepFirst THEN Raises ELSE ForgetRange(ToSet(middle) \ {Summary}, TRUE)

Summarizing ==
    LET head == FirstN(View, KeepFirst)
        middle == Between(View, KeepFirst, Target - Len(head) - 1)
    IN  IF Len(View) <= KeepFirst THEN Raises ELSE ForgetRange(ToSet(middle) \ {Summary}, TRUE)

\* The first user message is kept (here it has no recall), and half of the rest,
\* without the observations it begins with.
Window ==
    LET n == Len(View)
        IsFirstUser(i) == history[i].k = "user"
        first == SelectInSeq(View, IsFirstUser)
        recent == LET half == (n - 1) \div 2 IN IF half > 1 THEN half ELSE 1
        slice == SubSeq(View, n - recent + 1, n)
        start == SelectInSeq(slice, LAMBDA i : history[i].k # "obs")
        kept == IF start = 0 THEN <<>> ELSE SubSeq(slice, start, Len(slice))
    IN  IF n = 0 \/ first = 0
          THEN Condensation({}, FALSE)
          ELSE Condensation(ToSet(View) \ (ToSet(kept) \cup {View[first]}), FALSE)

GetCondensation ==
    CASE kind = "amortized" -> Amortized
      [] kind = "summarizing" -> Summarizing
      [] kind = "window" -> Window

ShouldCondense ==
    \/ UnhandledRequest
    \/ kind # "window" /\ Len(View) > MaxSize

-----------------------------------------------------------------------------
Add(events) ==
    /\ Len(history) + Len(events) <= MaxEvents
    /\ history' = history \o events

\* The agent's step asks for the view and gets a condensation instead, which is
\* added to the history; or the condenser raises.
Condense ==
    /\ mode = "on"
    /\ ShouldCondense
    /\ IF GetCondensation = Raises
         THEN mode' = "error" /\ UNCHANGED history
         ELSE Add(<<GetCondensation>>) /\ UNCHANGED mode
    /\ UNCHANGED kind

\* The agent acts on the view, or the model finds it too long.
Act ==
    /\ mode = "on"
    /\ ~ShouldCondense
    /\ Add(<<Plain("act"), Plain("obs")>>) \/ Add(<<Plain("request")>>)
    /\ UNCHANGED <<kind, mode>>

UserMessage ==
    /\ mode = "on"
    /\ Add(<<Plain("user")>>)
    /\ UNCHANGED <<kind, mode>>

Next == Condense \/ Act \/ UserMessage

Spec == Init /\ [][Next]_vars

-----------------------------------------------------------------------------
\* The first events (the task) are what every view begins with, however often
\* and for whatever reason the history was condensed: "Number of initial events
\* to always keep"; the window keeps the first message.
HeadKept ==
    LET n == IF kind = "window" THEN 1 ELSE KeepFirst
        first == Ascending({i \in DOMAIN history :
                              history[i].k \notin {"condensation", "request"}})
    IN  FirstN(View, n) = FirstN(first, n)

\* A condensation by size is worth its while: it leaves half of max_size, with
\* the summary in its place and all of the last events.
ShrinksToTarget ==
    [][kind # "window" /\ Len(history') = Len(history) + 1 /\ (Condensed(Len(history)))' =>
         /\ Len(View') = Target
         /\ LET n == Target - KeepFirst - (IF kind = "summarizing" THEN 1 ELSE 0)
            IN  LastN(View', n) = LastN(View, n)]_vars
=============================================================================
