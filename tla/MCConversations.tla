-------------------------- MODULE MCConversations --------------------------
(***************************************************************************)
(* The conversation managers for TLC, side by side and independent of each *)
(* other: the sessions of one server (the constants of the cfg), the       *)
(* conversations that requests attach to, and the cluster.  part says      *)
(* which one runs; the others stay in their initial states.                *)
(***************************************************************************)
EXTENDS ConversationManager, TLC

CONSTANTS
    s1, s2, c1, c2,
    Requests, MaxConvs, AttachedSessions,        \* AttachedConversations
    Servers, MaxJoins, ClusterStops, MaxCrashes, MaxLapses  \* ClusteredManager

\* Requests are told apart from the other holders of the lock.
ASSUME RequestsAssumption == IsFiniteSet(Requests) /\ Requests \cap {"free", "cleaner"} = {}

\* One client for each of two conversations.
MCHome == (c1 :> s1) @@ (c2 :> s2)

VARIABLES
    part,
    lock, active, detached, convs, req, cleaning, session, sessions,     \* AttachedConversations
    key, loop, starting, deleting, refresh, seen, kConns, restart,       \* ClusteredManager
    inbox, joins, kStops, crashes, lapses, lapsed

attachVars  == <<lock, active, detached, convs, req, cleaning, session, sessions>>
clusterVars == <<key, loop, starting, deleting, refresh, seen, kConns, restart, inbox,
                 joins, kStops, crashes, lapses, lapsed>>
mcVars      == <<part, vars, attachVars, clusterVars>>

Attached == INSTANCE AttachedConversations WITH MaxSessions <- AttachedSessions

Cluster == INSTANCE ClusteredManager WITH
    MaxStops <- ClusterStops, conns <- kConns, stops <- kStops

-----------------------------------------------------------------------------
MCInit ==
    /\ part \in {"sessions", "attached", "cluster"}
    /\ Init
    /\ Attached!Init
    /\ Cluster!Init

\* A bound: no key expires early where the conversation is stopped, a server
\* vanishes or the second client is connected.  Only actions without fairness are
\* bounded by it: Join, CloseSession, Crash and Lapse.
ClusterBound ==
    \/ lapses = 0
    \/ kStops + crashes = 0 /\ \A s \in Servers : c2 \notin kConns[s]

MCNext ==
    /\ UNCHANGED part
    /\ IF part = "sessions" THEN Next ELSE UNCHANGED vars
    /\ IF part = "attached" THEN Attached!Next ELSE UNCHANGED attachVars
    /\ IF part = "cluster" THEN Cluster!Next /\ ClusterBound' ELSE UNCHANGED clusterVars

\* Fairness as in ConversationManager and ClusteredManager, for the part that
\* runs.
MCSpec ==
    /\ MCInit
    /\ [][MCNext]_mcVars
    /\ \A c \in Clients : WF_vars(part = "sessions" /\ JoinGoesOn(c))
    /\ WF_vars(part = "sessions" /\ Close(Stop))
    /\ \A n \in 1 .. MaxSessions : WF_vars(part = "sessions" /\ n \in DOMAIN sess /\ Start(n))
    /\ WF_clusterVars(part = "cluster" /\ Cluster!Expire)
    /\ \A s \in Servers :
         /\ WF_clusterVars(part = "cluster" /\ (Cluster!StartLoop(s) \/ Cluster!CloseDelete(s)))
         /\ WF_clusterVars(part = "cluster" /\ Cluster!ProcessMessage(s))
         /\ WF_clusterVars(part = "cluster" /\ Cluster!DisconnectFromStopped(s))
         /\ WF_clusterVars(part = "cluster" /\ \E c \in Clients : Cluster!Restart(s, c))

-----------------------------------------------------------------------------
\* Requests that use a conversation keep it connected, and connected ones are
\* not lost (attach_to_conversation, detach_from_conversation, _cleanup_stale).
ConversationsKept == Attached!ConversationsKept

\* At most one server of the cluster runs the agent loop of a conversation, apart
\* from those whose key expired, or was deleted by such a server, while they were
\* at work (maybe_start_agent_loop, _close_session, the key's expiry).
OneOwner == Cluster!OneOwner

\* The cluster recovers the agent loop of a conversation with clients after it was
\* closed or its server vanished (_disconnect_from_stopped).
ClientsAreServed == Cluster!ClientsAreServed

=============================================================================
