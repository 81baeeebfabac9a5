---------------------------- MODULE BashSession ----------------------------
(***************************************************************************)
(* BashSession (openhands/runtime/utils/bash.py): commands are typed into  *)
(* a tmux pane and their outputs read back from it.  The session only sees *)
(* what the pane shows when it looks; the shell and the process that runs  *)
(* in it go on meanwhile.                                                  *)
(***************************************************************************)
EXTENDS Naturals, Sequences, SequencesExt, FiniteSetsExt, Selection

CONSTANTS
    MaxCalls,      \* bound on calls of execute that type or read something
    MaxOuts,       \* bound on the lines that commands print
    HistoryLimit,  \* HISTORY_LIMIT, in items of the pane
    Races          \* subset of {"finish", "echo"}, see Quiet and Echoed

VARIABLES
    pane,      \* what capture-pane returns: prompts, echoed lines, printed lines
    proc,      \* the number of the command that runs in the shell, 0 for none
    typed,     \* lines that were sent to the pane and nobody has read yet
    status,    \* prev_status
    prevOut,   \* prev_output
    call,      \* the call of execute that is under way
    calls,     \* number of calls so far
    printed,   \* number of lines printed so far; they are numbered
    reported,  \* lines in the observations, in the order they were returned
    obs,       \* the last observation that says a command completed
    scrolled   \* lines have been lost at the history limit

vars == <<pane, proc, typed, status, prevOut, call, calls, printed, reported, obs, scrolled>>
terminal == <<pane, proc, typed, printed, scrolled>>

Prompt(n) == [k |-> "ps1", n |-> n]     \* shown when command n ends; it has its exit code
Echo(n)   == [k |-> "echo", n |-> n]
Line(i)   == [k |-> "line", n |-> i]
IsPrompt(item) == item.k = "ps1"
IsLine(item) == item.k = "line"

TimedOut == {"no_change_timeout", "hard_timeout"}
Idle == [pc |-> "idle", kind |-> "none", n |-> 0, initial |-> <<>>]
NoObs == [kind |-> "none", n |-> 0, of |-> 0]

\* initialize: the prompt is set and the screen cleared.
Init ==
    /\ pane = <<Prompt(0)>>
    /\ proc = 0
    /\ typed = <<>>
    /\ status = "none"
    /\ prevOut = <<>>
    /\ call = Idle
    /\ calls = 0
    /\ printed = 0
    /\ reported = <<>>
    /\ obs = NoObs
    /\ scrolled = FALSE

-----------------------------------------------------------------------------
(***************************************************************************)
(* The terminal: tmux, the shell and the process in it.                    *)
(***************************************************************************)
Show(item) ==
    LET shown == Append(pane, item)
        over  == Len(shown) > HistoryLimit
    IN  /\ pane' = IF over THEN Tail(shown) ELSE shown
        /\ scrolled' = (scrolled \/ over)

Output ==
    /\ proc # 0
    /\ printed < MaxOuts
    /\ printed' = printed + 1
    /\ Show(Line(printed + 1))
    /\ UNCHANGED <<proc, typed, status, prevOut, call, calls, reported, obs>>

\* Without the race "finish", a process does not end between the moment that
\* execute looks at the pane and the moment that what it types is read.
Quiet == "finish" \in Races \/ (call.pc # "captured" /\ typed = <<>>)

Finish ==
    /\ proc # 0
    /\ Quiet
    /\ proc' = 0
    /\ Show(Prompt(proc))
    /\ UNCHANGED <<typed, status, prevOut, call, calls, printed, reported, obs>>

\* Whoever reads the line: a process that runs takes it as its input, otherwise
\* the shell executes it.
Read ==
    /\ typed # <<>>
    /\ typed' = Tail(typed)
    /\ Show(Echo(Head(typed).n))
    /\ proc' = IF proc = 0 THEN Head(typed).n ELSE proc
    /\ UNCHANGED <<status, prevOut, call, calls, printed, reported, obs>>

-----------------------------------------------------------------------------
(***************************************************************************)
(* execute.                                                                *)
(***************************************************************************)
EndsWithPrompt(p) == p # <<>> /\ IsPrompt(Last(p))
Prompts(p) == {i \in 1 .. Len(p) : IsPrompt(p[i])}
PromptCount(p) == Cardinality(Prompts(p))
LastPrompt(p) == p[Max(Prompts(p))]
AfterFirstPrompt(p) == {i \in 1 .. Len(p) : \E j \in Prompts(p) : j < i}

\* _combine_outputs_between_matches: everything after the first prompt, but of
\* a pane with one prompt what is before it, when the command is complete.
Combined(p, beforeLast) ==
    CASE PromptCount(p) = 0 -> p
      [] PromptCount(p) = 1 /\ beforeLast -> SubSeq(p, 1, Min(Prompts(p)) - 1)
      [] OTHER -> Selected(p, AfterFirstPrompt(p) \ Prompts(p))

\* Mutant of NewOutput: what an observation has already shown is not taken off.
NewOutputAll(raw) == raw

\* _get_command_output: the output, without what was reported before.
NewOutput(raw) == IF IsPrefix(prevOut, raw) THEN SubSeq(raw, Len(prevOut) + 1, Len(raw)) ELSE raw

Report(raw) ==
    LET new == NewOutput(raw)
    IN  reported' = reported \o Selected(new, {i \in DOMAIN new : IsLine(new[i])})

\* The head of execute.  Without a command that timed out, an empty command and
\* an input are answered with an error, like several commands at once: nothing
\* changes then.
Capture(kind) ==
    /\ call.pc = "idle"
    /\ calls < MaxCalls
    /\ kind # "command" => status \in TimedOut
    /\ calls' = calls + 1
    /\ call' = [pc |-> "captured", kind |-> kind, n |-> calls + 1, initial |-> pane]
    /\ UNCHANGED <<terminal, status, prevOut, reported, obs>>

\* Mutant of MustWait: the pane is not looked at.
MustWaitNever == FALSE

\* The previous command timed out and is still running: nothing new is typed.
MustWait ==
    /\ status \in TimedOut
    /\ ~EndsWithPrompt(call.initial)
    /\ call.kind = "command"

Refuse ==
    /\ call.pc = "captured"
    /\ MustWait
    /\ LET raw == Combined(call.initial, FALSE)
       IN  Report(raw) /\ prevOut' = raw
    /\ call' = Idle
    /\ UNCHANGED <<terminal, status, calls, obs>>

Send ==
    /\ call.pc = "captured"
    /\ ~MustWait
    /\ call' = [call EXCEPT !.pc = "polling"]
    /\ typed' = IF call.kind = "empty" THEN typed
                ELSE Append(typed, [n |-> call.n, kind |-> call.kind])
    /\ UNCHANGED <<pane, proc, printed, scrolled, status, prevOut, calls, reported, obs>>

\* Without the race "echo", what was typed is shown before execute looks.
Echoed == "echo" \in Races \/ typed = <<>>

\* Mutant of Complete: one more prompt is required, as if none scrolled off and
\* no command finished between two calls.
CompleteCounts == PromptCount(pane) > 1

Complete == PromptCount(pane) > PromptCount(call.initial) \/ EndsWithPrompt(pane)

\* _clear_screen: the shell redraws its prompt; a process ignores the key.
ReadyForNext ==
    IF proc = 0 THEN pane' = <<LastPrompt(pane)>>
                ELSE UNCHANGED pane

\* _handle_completed_command.
HandleCompleted ==
    /\ call.pc = "polling"
    /\ Echoed
    /\ Complete
    /\ Report(Combined(pane, PromptCount(pane) = 1))
    /\ obs' = [kind |-> call.kind, n |-> call.n, of |-> LastPrompt(pane).n]
    /\ status' = "completed"
    /\ prevOut' = <<>>
    /\ ReadyForNext
    /\ call' = Idle
    /\ UNCHANGED <<proc, typed, printed, scrolled, calls>>

\* _handle_nochange_timeout_command, _handle_hard_timeout_command: the output
\* did not change for a while, or the action's timeout has passed.
HandleTimeout(reason) ==
    /\ call.pc = "polling"
    /\ Echoed
    /\ ~Complete
    /\ LET raw == Combined(pane, FALSE)
       IN  Report(raw) /\ prevOut' = raw
    /\ status' = reason
    /\ call' = Idle
    /\ UNCHANGED <<terminal, calls, obs>>

Next ==
    \/ Output
    \/ Finish
    \/ Read
    \/ \E kind \in {"command", "empty", "input"} : Capture(kind)
    \/ Refuse
    \/ Send
    \/ HandleCompleted
    \/ \E reason \in TimedOut : HandleTimeout(reason)

Spec == Init /\ [][Next]_vars

-----------------------------------------------------------------------------
\* A command is never typed into another one that is still running: "You CANNOT
\* send new commands until the previous command is completed" (bash.py:572).
NotTypedIntoRunning == \A i \in DOMAIN typed : typed[i].kind = "command" => proc = 0

\* Across timeouts, refused commands, empty commands and inputs, and when a
\* command finishes between two calls: the observations show every printed line
\* once and in order, and all of them when a command is said to be completed.
\* (Not when lines have scrolled off the history.)
EachLineOnce ==
    ~scrolled =>
        /\ reported = [i \in 1 .. Len(reported) |-> Line(i)]
        /\ call.pc = "idle" /\ status = "completed" => Len(reported) = printed

\* The exit code in an observation is the one of the command it is about.
OwnExitCode == obs.kind = "command" => obs.of = obs.n
=============================================================================
