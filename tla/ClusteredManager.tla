-------------------------- MODULE ClusteredManager --------------------------
(***************************************************************************)
(* ClusteredConversationManager (enterprise/server): several servers and a *)
(* Redis decide who runs the agent loop of one conversation.  The key      *)
(* ohcnv:user:sid marks it as running; it expires when nobody refreshes    *)
(* it.  Servers tell each other about closing over a pub/sub channel and   *)
(* may vanish.                                                             *)
(***************************************************************************)
EXTENDS Naturals, Sequences, FiniteSets

CONSTANTS
    Servers,
    Clients,      \* browser connections
    MaxJoins,     \* bound on joins
    MaxStops,     \* bound on requests to close the conversation
    MaxCrashes,   \* bound on servers that vanish (they come back empty)
    MaxLapses     \* bound on keys that expire under a server at work

VARIABLES
    key,       \* the conversation's key is set in Redis
    loop,      \* loop[s]: the session is in _local_agent_loops_by_sid of s
    starting,  \* starting[s]: starts that s has in hand and not yet registered
    deleting,  \* deleting[s]: closes of s that have yet to delete the key
    refresh,   \* refresh[s]: the pipeline of s: set the key?, connections to set
    seen,      \* connections whose key is set in Redis
    conns,     \* conns[s]: connections of s to the conversation
    restart,   \* restart[s]: connections in _handle_remote_conversation_stopped
    inbox,     \* inbox[s]: messages that s has not processed
    joins, stops, crashes,
    lapses,    \* how often the key expired under a server at work
    lapsed     \* history: servers at work whose key was taken away since they set it

work   == <<loop, starting, deleting>>
bounds == <<joins, stops, crashes, lapses>>
vars   == <<key, work, refresh, seen, conns, restart, inbox, bounds, lapsed>>

NoUpdate == [on |-> FALSE, loop |-> FALSE, conns |-> {}]

Init ==
    /\ key = FALSE
    /\ loop = [s \in Servers |-> FALSE]
    /\ starting = [s \in Servers |-> 0]
    /\ deleting = [s \in Servers |-> 0]
    /\ refresh = [s \in Servers |-> NoUpdate]
    /\ seen = {}
    /\ conns = [s \in Servers |-> {}]
    /\ restart = [s \in Servers |-> {}]
    /\ inbox = [s \in Servers |-> <<>>]
    /\ joins = 0
    /\ stops = 0
    /\ crashes = 0
    /\ lapses = 0
    /\ lapsed = {}

\* Servers that have the loop in their table or are starting it, or have not yet
\* deleted the key.  A session that was taken from the table is closed after that:
\* its last moments may overlap with the next owner's first.
Owners == {s \in Servers : loop[s] \/ starting[s] > 0 \/ deleting[s] > 0}

-----------------------------------------------------------------------------
\* The server that sets the key starts the loop.
Created(s) ==
    /\ key' = TRUE
    /\ starting' = [starting EXCEPT ![s] = @ + 1]
    /\ lapsed' = lapsed \ {s}

\* Mutant of MaybeStart: the key is read, and set without nx.
MaybeStartUnguarded(s) ==
    \/ starting[s] = 0 /\ Created(s)
    \/ UNCHANGED <<key, starting, lapsed>>

\* maybe_start_agent_loop: SET NX.  Whoever creates the key starts the loop;
\* everybody else finds it running.
MaybeStart(s) ==
    \/ ~key /\ Created(s)
    \/ key /\ UNCHANGED <<key, starting, lapsed>>

\* join_conversation.
Join(s, c) ==
    /\ joins < MaxJoins
    /\ joins' = joins + 1
    /\ \A r \in Servers : c \notin conns[r]
    /\ conns' = [conns EXCEPT ![s] = @ \cup {c}]
    /\ MaybeStart(s)
    /\ UNCHANGED <<loop, deleting, refresh, seen, restart, inbox, stops, crashes, lapses>>

\* _start_agent_loop has looked at the limits, closed conversations if there are
\* too many, and registers the session.  Until then nobody refreshes the key.
StartLoop(s) ==
    /\ starting[s] > 0
    /\ starting' = [starting EXCEPT ![s] = @ - 1]
    /\ loop' = [loop EXCEPT ![s] = TRUE]
    /\ UNCHANGED <<key, deleting, refresh, seen, conns, restart, inbox, bounds, lapsed>>

\* disconnect_from_session.
Disconnect(s, c) ==
    /\ c \in conns[s]
    /\ conns' = [conns EXCEPT ![s] = @ \ {c}]
    /\ UNCHANGED <<key, work, refresh, seen, restart, inbox, bounds, lapsed>>

-----------------------------------------------------------------------------
\* _update_state_in_redis: the local loops, and the local connections to a
\* conversation that is marked as running, are put into a pipeline, which is
\* executed later, whatever has happened to them since.
UpdateCollect(s) ==
    /\ ~refresh[s].on
    /\ loop[s] \/ conns[s] # {}
    /\ refresh' = [refresh EXCEPT ![s] =
                     [on |-> TRUE, loop |-> loop[s], conns |-> IF key THEN conns[s] ELSE {}]]
    /\ UNCHANGED <<key, seen, work, conns, restart, inbox, bounds, lapsed>>

UpdateExecute(s) ==
    /\ refresh[s].on
    /\ refresh' = [refresh EXCEPT ![s] = NoUpdate]
    /\ key' = (key \/ refresh[s].loop)
    /\ seen' = seen \cup refresh[s].conns
    /\ UNCHANGED <<work, conns, restart, inbox, bounds, lapsed>>

\* The key of a connection that is gone expires.
ExpireConnection(c) ==
    /\ c \in seen
    /\ \A s \in Servers : c \notin conns[s]
    /\ seen' = seen \ {c}
    /\ UNCHANGED <<key, work, refresh, conns, restart, inbox, bounds, lapsed>>

\* The key of a conversation that no server has anything to do with expires.
Expire ==
    /\ key
    /\ Owners = {}
    /\ key' = FALSE
    /\ UNCHANGED <<work, refresh, seen, conns, restart, inbox, bounds, lapsed>>

\* The key lives for 15 s and is refreshed every 5 s, but only for sessions in the
\* table: it may expire under a server that is long about a start or a delete, or
\* that does not come to its refresh in time.
Lapse ==
    /\ key
    /\ Owners # {}
    /\ lapses < MaxLapses
    /\ lapses' = lapses + 1
    /\ key' = FALSE
    /\ lapsed' = Owners
    /\ UNCHANGED <<work, refresh, seen, conns, restart, inbox, joins, stops, crashes>>

-----------------------------------------------------------------------------
\* The first part of _close_session: local connections go, the session is taken
\* from the table.  Only if it was there is the key deleted.
CloseLocal(s) ==
    /\ conns' = [conns EXCEPT ![s] = {}]
    /\ loop' = [loop EXCEPT ![s] = FALSE]
    /\ deleting' = [deleting EXCEPT ![s] = IF loop[s] THEN @ + 1 ELSE @]

\* The rest of _close_session: delete the key, and the keys of the connections
\* that were disconnected, and tell the others, which may fail.  Whose key it is by
\* now is not asked.
CloseDelete(s) ==
    /\ deleting[s] > 0
    /\ deleting' = [deleting EXCEPT ![s] = @ - 1]
    /\ key' = FALSE
    /\ \E gone \in SUBSET {c \in seen : \A r \in Servers : c \notin conns[r]} :
         seen' = seen \ gone
    /\ \/ inbox' = [r \in Servers |-> Append(inbox[r], "session_closing")]
       \/ UNCHANGED inbox
    /\ UNCHANGED <<loop, starting, refresh, conns, restart, bounds>>
    /\ lapsed' = Owners'

\* close_session, on any server: the others are told before it looks itself.
CloseSession(s) ==
    /\ stops < MaxStops
    /\ stops' = stops + 1
    /\ inbox' = [r \in Servers |-> Append(inbox[r], "close_session")]
    /\ CloseLocal(s)
    /\ UNCHANGED <<key, starting, refresh, seen, restart, joins, crashes, lapses, lapsed>>

\* _close_disconnected: an idle loop without local connections and without a
\* remote one that Redis knows of.
CloseDisconnected(s) ==
    /\ loop[s]
    /\ conns[s] = {}
    /\ seen = {}
    /\ CloseLocal(s)
    /\ UNCHANGED <<key, starting, refresh, seen, restart, inbox, bounds, lapsed>>

\* _process_message.  A connection to a loop that closes elsewhere is looked
\* after.
ProcessMessage(s) ==
    /\ inbox[s] # <<>>
    /\ inbox' = [inbox EXCEPT ![s] = Tail(@)]
    /\ \/ /\ Head(inbox[s]) = "close_session"
          /\ IF loop[s] THEN CloseLocal(s) ELSE UNCHANGED <<conns, loop, deleting>>
          /\ UNCHANGED restart
       \/ /\ Head(inbox[s]) = "session_closing"
          /\ restart' = [restart EXCEPT ![s] = @ \cup conns[s]]
          /\ UNCHANGED <<conns, loop, deleting>>
    /\ UNCHANGED <<key, starting, refresh, seen, bounds, lapsed>>

\* Mutant of DisconnectFromStopped: the conversations that are running are taken
\* for the ones that have stopped.
DisconnectFromRunning(s) ==
    /\ ~loop[s]
    /\ key
    /\ conns[s] \ restart[s] # {}
    /\ restart' = [restart EXCEPT ![s] = @ \cup conns[s]]
    /\ UNCHANGED <<key, work, refresh, seen, conns, inbox, bounds, lapsed>>

\* _disconnect_from_stopped: connections to a loop that runs nowhere.
DisconnectFromStopped(s) ==
    /\ ~loop[s]
    /\ ~key
    /\ conns[s] \ restart[s] # {}
    /\ restart' = [restart EXCEPT ![s] = @ \cup conns[s]]
    /\ UNCHANGED <<key, work, refresh, seen, conns, inbox, bounds, lapsed>>

\* _handle_remote_conversation_stopped, after its sleep: there are too many loops
\* and the connection is dropped, or the loop is started here.  Whether the
\* connection is still there is not asked again.
Restart(s, c) ==
    /\ c \in restart[s]
    /\ restart' = [restart EXCEPT ![s] = @ \ {c}]
    /\ \/ /\ conns' = [conns EXCEPT ![s] = @ \ {c}]
          /\ UNCHANGED <<key, starting, lapsed>>
       \/ /\ MaybeStart(s)
          /\ UNCHANGED conns
    /\ UNCHANGED <<loop, deleting, refresh, seen, inbox, bounds>>

\* A server vanishes, with all it knew; Redis keeps the key.
Crash(s) ==
    /\ crashes < MaxCrashes
    /\ crashes' = crashes + 1
    /\ loop' = [loop EXCEPT ![s] = FALSE]
    /\ starting' = [starting EXCEPT ![s] = 0]
    /\ deleting' = [deleting EXCEPT ![s] = 0]
    /\ refresh' = [refresh EXCEPT ![s] = NoUpdate]
    /\ conns' = [conns EXCEPT ![s] = {}]
    /\ restart' = [restart EXCEPT ![s] = {}]
    /\ inbox' = [inbox EXCEPT ![s] = <<>>]
    /\ lapsed' = lapsed \ {s}
    /\ UNCHANGED <<key, seen, joins, stops, lapses>>

-----------------------------------------------------------------------------
Next ==
    \/ Expire
    \/ Lapse
    \/ \E c \in Clients : ExpireConnection(c)
    \/ \E s \in Servers :
         \/ \E c \in Clients : Join(s, c) \/ Disconnect(s, c) \/ Restart(s, c)
         \/ StartLoop(s)
         \/ UpdateCollect(s)
         \/ UpdateExecute(s)
         \/ CloseDelete(s)
         \/ CloseSession(s)
         \/ CloseDisconnected(s)
         \/ ProcessMessage(s)
         \/ DisconnectFromStopped(s)
         \/ Crash(s)

Spec == Init /\ [][Next]_vars

\* Keys that nobody refreshes expire, messages arrive, commands to Redis return, _cleanup_stale comes
\* round and the tasks of a server that is up go on.
Fairness ==
    /\ WF_vars(Expire)
    /\ \A s \in Servers :
         /\ WF_vars(StartLoop(s) \/ CloseDelete(s))
         /\ WF_vars(ProcessMessage(s))
         /\ WF_vars(DisconnectFromStopped(s))
         /\ WF_vars(\E c \in Clients : Restart(s, c))

-----------------------------------------------------------------------------
TypeOK ==
    /\ key \in BOOLEAN
    /\ loop \in [Servers -> BOOLEAN]
    /\ starting \in [Servers -> Nat]
    /\ deleting \in [Servers -> Nat]
    /\ lapsed \in SUBSET Owners
    /\ refresh \in [Servers -> [on : BOOLEAN, loop : BOOLEAN, conns : SUBSET Clients]]
    /\ seen \in SUBSET Clients
    /\ conns \in [Servers -> SUBSET Clients]
    /\ restart \in [Servers -> SUBSET Clients]
    /\ inbox \in [Servers -> Seq({"close_session", "session_closing"})]

\* "If we can set the key in redis then no other worker is running this
\* conversation": at most one server owns it, through joins, restarts, closing,
\* crashes and late refreshes, apart from those whose key was taken away while they
\* were at work.  It is taken only when a key expires too early, and by a server to
\* which that happened.
OneOwner ==
    /\ \A s, r \in Owners \ lapsed : s = r
    /\ lapses = 0 => lapsed = {}

\* The key is set as long as there is an owner from whom it was not taken.
OwnerHasKey == Owners \ lapsed # {} => key

\* As long as clients are connected, an agent loop runs somewhere again in the
\* end: the others recover from a server that vanished or closed the loop.
ClientsAreServed ==
    (\E s \in Servers : conns[s] # {})
        ~> (\A s \in Servers : conns[s] = {}) \/ (\E s \in Servers : loop[s])
=============================================================================
