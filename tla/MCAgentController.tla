------------------------- MODULE MCAgentController -------------------------
(***************************************************************************)
(* AgentController for TLC, on three instances side by side: the constants *)
(* of the cfg (every outcome of a step); Failing, with tool calls only and *)
(* a memory that may fail, too; and Confirm, where every call needs the    *)
(* user's verdict and the user sends two inputs more.  part says which one *)
(* runs.                                                                   *)
(***************************************************************************)
EXTENDS AgentController

VARIABLE part

Failing == INSTANCE AgentController WITH
    Outcomes <- {"safe", "risky"},
    Inputs <- {"message", "stop", "confirm", "decline"},
    Failures <- {"runtime", "memory"}

Confirm == INSTANCE AgentController WITH
    Outcomes <- {"risky"},
    Inputs <- {"message", "stop", "confirm", "decline"},
    Failures <- {},
    MaxInputs <- MaxInputs + 2

MCInit == Init /\ part \in {"outcomes", "failures", "verdicts"}

MCNext ==
    /\ UNCHANGED part
    /\ \/ part = "outcomes" /\ Next
       \/ part = "failures" /\ Failing!Next
       \/ part = "verdicts" /\ Confirm!Next

mcVars == <<vars, part>>

\* Fairness as in AgentController, for the first instance: only it is asked
\* whether the agent settles.
MCSpec ==
    /\ MCInit
    /\ [][MCNext]_mcVars
    /\ WF_mcVars(part = "outcomes" /\ UNCHANGED part /\ Controller)
    /\ WF_mcVars(part = "outcomes" /\ UNCHANGED part /\ Runtime)
    /\ WF_mcVars(part = "outcomes" /\ UNCHANGED part /\ Memory)
    /\ WF_mcVars(part = "outcomes" /\ UNCHANGED part /\ StatusError)

\* The agent comes to rest in the first instance (AgentSettles): it does not stay
\* in RUNNING with nobody left to take the next step.  A memory that fails may
\* leave it there: its error status waits in an event loop that has stopped.
Settles == part = "outcomes" => AgentSettles

=============================================================================
