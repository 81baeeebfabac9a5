---------------------------- MODULE LocalServers ----------------------------
(***************************************************************************)
(* The action execution servers that LocalRuntime starts as processes      *)
(* (openhands/runtime/impl/local/local_runtime.py): _RUNNING_SERVERS, one  *)
(* entry per conversation, and _WARM_SERVERS, which wait to be used.  No   *)
(* lock protects them.  connect, execute_action and delete run on the      *)
(* server's asyncio loop, close in a thread of the executor, warm servers  *)
(* are made in threads of their own.  Runtimes that only attach to a       *)
(* server (attach_to_existing) neither start nor stop one and are left     *)
(* out, and so are the workspace directories.                              *)
(***************************************************************************)
EXTENDS Naturals, Sequences, SequencesExt, FiniteSets

CONSTANTS
    Sids,          \* conversations
    Desired,       \* DESIRED_NUM_WARM_SERVERS
    MaxServers,    \* bound on the servers that are started
    MaxRuntimes    \* bound on runtimes

VARIABLES
    alive,     \* alive[s]: server s runs; its domain are the servers started
    running,   \* _RUNNING_SERVERS: the server of a conversation, 0 for none
    warm,      \* _WARM_SERVERS
    making,    \* servers that a thread waits for, to make them warm
    rt,        \* the runtimes: [sid, server, pc]
    deleting   \* delete, which blocks the loop: [sid, pc]

vars == <<alive, running, warm, making, rt, deleting>>

NotDeleting == [sid |-> "none", pc |-> "idle"]
LoopFree == deleting.pc = "idle"

\* setup may have made some warm servers.
Init ==
    /\ \E n \in 0 .. Desired : warm = [i \in 1 .. n |-> i]
    /\ alive = [s \in DOMAIN warm |-> TRUE]
    /\ running = [c \in Sids |-> 0]
    /\ making = {}
    /\ rt = <<>>
    /\ deleting = NotDeleting

\* _create_server.
New(n) == Len(alive) + n <= MaxServers
Started(n) == alive \o [i \in 1 .. n |-> TRUE]

\* _create_warm_server_in_background, n times.
MakeWarm(n) ==
    /\ New(n)
    /\ alive' = Started(n)
    /\ making' = making \cup (Len(alive) + 1 .. Len(alive) + n)

-----------------------------------------------------------------------------
(***************************************************************************)
(* connect, in a session's start.  The session of a conversation is closed *)
(* before another is started; its runtime may not be.                      *)
(***************************************************************************)
MayConnect(c) ==
    /\ LoopFree
    /\ Len(rt) < MaxRuntimes
    /\ \A r \in DOMAIN rt : rt[r].sid = c => rt[r].pc \in {"closing", "killing", "closed"}

Connected(c, s) ==
    /\ running' = [running EXCEPT ![c] = s]
    /\ rt' = Append(rt, [sid |-> c, server |-> s, pc |-> "connect"])
    /\ UNCHANGED <<making, deleting>>

\* A server runs for this conversation.
ConnectExisting(c) ==
    /\ MayConnect(c)
    /\ running[c] # 0
    /\ Connected(c, running[c])
    /\ UNCHANGED <<alive, warm>>

\* Mutant of ConnectWarm: the warm server is not taken from the list.
ConnectWarmPeek(c) ==
    /\ MayConnect(c)
    /\ running[c] = 0
    /\ warm # <<>>
    /\ Connected(c, Head(warm))
    /\ UNCHANGED <<alive, warm>>

ConnectWarm(c) ==
    /\ MayConnect(c)
    /\ running[c] = 0
    /\ warm # <<>>
    /\ Connected(c, Head(warm))
    /\ warm' = Tail(warm)
    /\ UNCHANGED alive

ConnectNew(c) ==
    /\ MayConnect(c)
    /\ running[c] = 0
    /\ warm = <<>>
    /\ New(1)
    /\ alive' = Started(1)
    /\ Connected(c, Len(alive) + 1)
    /\ UNCHANGED warm

\* The server answers.  As many warm servers are started as the list is short of,
\* whether or not others are on their way.
ConnectEnd(r) ==
    /\ LoopFree
    /\ rt[r].pc = "connect"
    /\ alive[rt[r].server]
    /\ rt' = [rt EXCEPT ![r].pc = "open"]
    /\ IF Len(warm) < Desired THEN MakeWarm(Desired - Len(warm)) ELSE UNCHANGED <<alive, making>>
    /\ UNCHANGED <<running, warm, deleting>>

-----------------------------------------------------------------------------
(***************************************************************************)
(* execute_action, on an initialized runtime, which may be closing.        *)
(***************************************************************************)
\* After the server's answer: one more warm server if there are too few.
ExecuteAction(r) ==
    /\ LoopFree
    /\ rt[r].pc = "open"
    /\ alive[rt[r].server]
    /\ Len(warm) < Desired
    /\ MakeWarm(1)
    /\ UNCHANGED <<running, warm, rt, deleting>>

\* The process has died; its entry, or what has taken its place, is removed.
ExecuteFindsDead(r) ==
    /\ LoopFree
    /\ rt[r].pc \in {"open", "closing", "killing"}
    /\ ~alive[rt[r].server]
    /\ running' = [running EXCEPT ![rt[r].sid] = 0]
    /\ UNCHANGED <<alive, warm, making, rt, deleting>>

-----------------------------------------------------------------------------
(***************************************************************************)
(* close, in the executor.                                                 *)
(***************************************************************************)
\* The session is closed and submits the runtime's close.
CloseSubmit(r) ==
    /\ LoopFree
    /\ rt[r].pc \in {"connect", "open"}
    /\ rt' = [rt EXCEPT ![r].pc = "closing"]
    /\ UNCHANGED <<alive, running, warm, making, deleting>>

\* The conversation's entry is removed, whichever server it names.
CloseRemove(r) ==
    /\ rt[r].pc = "closing"
    /\ rt' = [rt EXCEPT ![r].pc = "killing"]
    /\ running' = [running EXCEPT ![rt[r].sid] = 0]
    /\ UNCHANGED <<alive, warm, making, deleting>>

CloseKill(r) ==
    /\ rt[r].pc = "killing"
    /\ rt' = [rt EXCEPT ![r].pc = "closed"]
    /\ alive' = [alive EXCEPT ![rt[r].server] = FALSE]
    /\ UNCHANGED <<running, warm, making, deleting>>

-----------------------------------------------------------------------------
(***************************************************************************)
(* delete, for a conversation whose session was closed before.  The loop   *)
(* waits for the process; threads go on.                                   *)
(***************************************************************************)
Delete(c) ==
    /\ LoopFree
    /\ \A r \in DOMAIN rt : rt[r].sid = c => rt[r].pc \in {"closing", "killing", "closed"}
    /\ IF running[c] # 0
         THEN /\ alive' = [alive EXCEPT ![running[c]] = FALSE]
              /\ deleting' = [sid |-> c, pc |-> "remove"]
         ELSE /\ deleting' = [sid |-> c, pc |-> "warm"]
              /\ UNCHANGED alive
    /\ UNCHANGED <<running, warm, making, rt>>

\* A close has removed the entry in the meantime: KeyError, and that is the end.
DeleteRemove ==
    /\ deleting.pc = "remove"
    /\ deleting' = IF running[deleting.sid] = 0
                     THEN NotDeleting ELSE [deleting EXCEPT !.pc = "warm"]
    /\ running' = [running EXCEPT ![deleting.sid] = 0]
    /\ UNCHANGED <<alive, warm, making, rt>>

\* Without conversations the warm servers go, too.
DeleteWarm ==
    /\ deleting.pc = "warm"
    /\ deleting' = NotDeleting
    /\ IF \A c \in Sids : running[c] = 0
         THEN /\ alive' = [s \in DOMAIN alive |-> alive[s] /\ s \notin ToSet(warm)]
              /\ warm' = <<>>
         ELSE UNCHANGED <<alive, warm>>
    /\ UNCHANGED <<running, making, rt>>

-----------------------------------------------------------------------------
\* _create_warm_server: the server answers, or it does not and is stopped.
WarmReady(s) ==
    /\ s \in making
    /\ alive[s]
    /\ making' = making \ {s}
    /\ warm' = Append(warm, s)
    /\ UNCHANGED <<alive, running, rt, deleting>>

WarmFails(s) ==
    /\ s \in making
    /\ making' = making \ {s}
    /\ alive' = [alive EXCEPT ![s] = FALSE]
    /\ UNCHANGED <<running, warm, rt, deleting>>

\* A server process ends by itself.
Die(s) ==
    /\ alive[s]
    /\ alive' = [alive EXCEPT ![s] = FALSE]
    /\ UNCHANGED <<running, warm, making, rt, deleting>>

Next ==
    \/ \E c \in Sids : ConnectExisting(c) \/ ConnectWarm(c) \/ ConnectNew(c) \/ Delete(c)
    \/ \E r \in DOMAIN rt :
         \/ ConnectEnd(r) \/ ExecuteAction(r) \/ ExecuteFindsDead(r)
         \/ CloseSubmit(r) \/ CloseRemove(r) \/ CloseKill(r)
    \/ DeleteRemove \/ DeleteWarm
    \/ \E s \in DOMAIN alive : WarmReady(s) \/ WarmFails(s) \/ Die(s)

Spec == Init /\ [][Next]_vars

-----------------------------------------------------------------------------
TypeOK ==
    /\ alive \in Seq(BOOLEAN)
    /\ running \in [Sids -> 0 .. Len(alive)]
    /\ warm \in Seq(1 .. Len(alive))
    /\ making \in SUBSET (1 .. Len(alive))
    /\ rt \in Seq([sid : Sids, server : 1 .. Len(alive),
                   pc : {"connect", "open", "closing", "killing", "closed"}])
    /\ deleting \in [sid : Sids \cup {"none"}, pc : {"idle", "remove", "warm"}]

Holders(s) == {r \in DOMAIN rt : rt[r].server = s}

\* Every server process that runs has one owner who will stop it: a runtime that
\* is not closed, the list of warm servers, or the thread that makes one.  And
\* no server works for two conversations, whatever the threads do to the
\* dictionaries.
ServersOwned ==
    /\ \A s \in DOMAIN alive :
         alive[s] => \/ \E r \in Holders(s) : rt[r].pc # "closed"
                     \/ s \in ToSet(warm) \cup making
    /\ \A s \in ToSet(warm) \cup making : Holders(s) = {}
    /\ \A r, q \in DOMAIN rt : rt[r].server = rt[q].server => rt[r].sid = rt[q].sid
=============================================================================
