------------------------- MODULE PowerShellSession -------------------------
(***************************************************************************)
(* WindowsPowershellSession (openhands/runtime/utils/windows_bash.py):     *)
(* commands run as PowerShell jobs, one at a time, which go on when a call *)
(* of execute gives up waiting.  The session remembers how much of the     *)
(* job's output it has reported.  Calls come one after the other; the job  *)
(* prints and ends at any moment.  Commands that start no tracked job (a   *)
(* change of directory, a background command, one that does not parse) do  *)
(* nothing to what is modelled.                                            *)
(***************************************************************************)
EXTENDS Naturals, Sequences, SequencesExt

CONSTANTS
    MaxJobs,    \* bound on jobs
    MaxLines,   \* bound on the lines that a job prints
    MaxCalls    \* bound on calls of execute

VARIABLES
    jobs,     \* the jobs that were started: [state, out, told]; out lines were
              \* printed so far, told are the lines in observations
    active,   \* active_job: a job's number, 0 for None
    last,     \* _last_job_output, a number of lines
    call,     \* the call of execute under way; check: in _check_active_job
    calls,
    closed

vars == <<jobs, active, last, call, calls, closed>>

Idle == [pc |-> "idle", latest |-> 0, check |-> FALSE]

Init ==
    /\ jobs = <<>>
    /\ active = 0
    /\ last = 0
    /\ call = Idle
    /\ calls = 0
    /\ closed = FALSE

Ended(j) == jobs[j].state \in {"completed", "failed"}
Lines(from, to) == [i \in 1 .. to - from |-> from + i]

\* An observation shows the lines from .. to of the active job.
Tell(from, to) == [jobs EXCEPT ![active].told = @ \o Lines(from, to)]
\* ... and the job is removed.
TellAndRemove(from) ==
    [jobs EXCEPT ![active].told = @ \o Lines(from, jobs[active].out), ![active].state = "removed"]

-----------------------------------------------------------------------------
(***************************************************************************)
(* The job.                                                                *)
(***************************************************************************)
Output(j) ==
    /\ jobs[j].state = "running"
    /\ jobs[j].out < MaxLines
    /\ jobs' = [jobs EXCEPT ![j].out = @ + 1]
    /\ UNCHANGED <<active, last, call, calls, closed>>

End(j) ==
    /\ jobs[j].state = "running"
    /\ \E s \in {"completed", "failed"} : jobs' = [jobs EXCEPT ![j].state = s]
    /\ UNCHANGED <<active, last, call, calls, closed>>

-----------------------------------------------------------------------------
(***************************************************************************)
(* execute, with an active job.                                            *)
(***************************************************************************)
Called ==
    /\ ~closed
    /\ call.pc = "idle"
    /\ calls < MaxCalls
    /\ calls' = calls + 1

\* The job has ended since: whatever was to be executed, the answer is the job's
\* end.  What was reported is forgotten before the rest is computed from it.
FindsEnded ==
    /\ Called
    /\ active # 0 /\ Ended(active)
    /\ jobs' = TellAndRemove(0)
    /\ active' = 0
    /\ last' = 0
    /\ UNCHANGED <<call, closed>>

\* An empty command looks after the job (_check_active_job), C-c stops it.
Interact ==
    /\ Called
    /\ active # 0 /\ ~Ended(active)
    /\ \E pc \in {"wait", "stop"} : call' = [pc |-> pc, latest |-> last, check |-> TRUE]
    /\ UNCHANGED <<jobs, active, last, closed>>

\* Input and other commands are refused, with the output so far.
Refuse ==
    /\ Called
    /\ active # 0 /\ ~Ended(active)
    /\ jobs' = Tell(last, jobs[active].out)
    /\ last' = jobs[active].out
    /\ UNCHANGED <<active, call, closed>>

\* _stop_active_job, after Stop-Job and a pause: all that was printed.
Stopped ==
    /\ call.pc = "stop"
    /\ jobs' = TellAndRemove(0)
    /\ active' = 0
    /\ call' = Idle
    /\ UNCHANGED <<last, calls, closed>>

-----------------------------------------------------------------------------
(***************************************************************************)
(* execute, without one: Start-Job, and a first look at its state.         *)
(***************************************************************************)
StartJob ==
    /\ Called
    /\ active = 0
    /\ Len(jobs) < MaxJobs
    /\ jobs' = Append(jobs, [state |-> "running", out |-> 0, told |-> <<>>])
    /\ active' = Len(jobs) + 1
    /\ last' = 0
    /\ call' = [pc |-> "start", latest |-> 0, check |-> FALSE]
    /\ UNCHANGED closed

\* A job that has failed by then counts as not started; its output is dropped.
FirstLook ==
    /\ call.pc = "start"
    /\ IF jobs[active].state = "failed"
         THEN /\ jobs' = [jobs EXCEPT ![active].state = "unstarted"]
              /\ active' = 0
              /\ call' = Idle
         ELSE /\ call' = [call EXCEPT !.pc = "wait"]
              /\ UNCHANGED <<jobs, active>>
    /\ UNCHANGED <<last, calls, closed>>

-----------------------------------------------------------------------------
(***************************************************************************)
(* The loop of execute and the one of _check_active_job.                   *)
(***************************************************************************)
\* All output so far is received, and kept; then the state is looked at.
Poll ==
    /\ call.pc = "wait"
    /\ call' = [pc |-> "polled", latest |-> jobs[active].out, check |-> call.check]
    /\ UNCHANGED <<jobs, active, last, calls, closed>>

LookAtState ==
    /\ call.pc = "polled"
    /\ ~Ended(active)
    /\ call' = [call EXCEPT !.pc = "wait"]
    /\ UNCHANGED <<jobs, active, last, calls, closed>>

\* The job has ended: the output is received once more, to the end.
Finish ==
    /\ call.pc = "polled"
    /\ Ended(active)
    /\ jobs' = TellAndRemove(last)
    /\ active' = 0
    /\ last' = IF call.check THEN 0 ELSE last
    /\ call' = Idle
    /\ UNCHANGED <<calls, closed>>

\* Mutant of GiveUp: what has come since the last look counts as reported.
GiveUpNow ==
    /\ call.pc = "wait"
    /\ jobs' = Tell(last, call.latest)
    /\ last' = jobs[active].out
    /\ call' = Idle
    /\ UNCHANGED <<active, calls, closed>>

\* The time is over, or the server shuts down; the job goes on.
GiveUp ==
    /\ call.pc = "wait"
    /\ jobs' = Tell(last, call.latest)
    /\ last' = call.latest
    /\ call' = Idle
    /\ UNCHANGED <<active, calls, closed>>

\* close: the active job is stopped and removed.
Close ==
    /\ ~closed
    /\ call.pc = "idle"
    /\ closed' = TRUE
    /\ jobs' = IF active = 0 THEN jobs ELSE [jobs EXCEPT ![active].state = "removed"]
    /\ active' = 0
    /\ last' = IF active = 0 THEN last ELSE 0
    /\ UNCHANGED <<call, calls>>

Next ==
    \/ \E j \in DOMAIN jobs : Output(j) \/ End(j)
    \/ FindsEnded \/ Interact \/ Refuse \/ Stopped
    \/ StartJob \/ FirstLook
    \/ Poll \/ LookAtState \/ Finish \/ GiveUp
    \/ Close

Spec == Init /\ [][Next]_vars

-----------------------------------------------------------------------------
TypeOK ==
    /\ jobs \in Seq([state : {"running", "completed", "failed", "removed", "unstarted"},
                     out : 0 .. MaxLines, told : Seq(1 .. MaxLines)])
    /\ active \in 0 .. Len(jobs)
    /\ last \in 0 .. MaxLines
    /\ call \in [pc : {"idle", "start", "wait", "polled", "stop"}, latest : 0 .. MaxLines,
                check : BOOLEAN]
    /\ calls \in 0 .. MaxCalls
    /\ closed \in BOOLEAN

\* No output is lost, whenever it is printed and whenever calls give up or find
\* the job ended: observations have shown all that a job has printed when it is
\* no longer the active one, and until then all that counts as reported.  (Not
\* for a job that failed to start, nor once the session is closed.)
OutputKept ==
    \A j \in DOMAIN jobs :
        closed \/ jobs[j].state = "unstarted" \/
            1 .. (IF j = active THEN last ELSE jobs[j].out) \subseteq ToSet(jobs[j].told)
=============================================================================
