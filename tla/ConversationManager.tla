------------------------ MODULE ConversationManager ------------------------
(***************************************************************************)
(* StandaloneConversationManager and the sessions it starts and closes     *)
(* (openhands/server/conversation_manager/standalone_conversation_manager  *)
(* and openhands/server/session).  Everything runs on one asyncio loop; an *)
(* action is the code between two awaits that really wait.                 *)
(***************************************************************************)
EXTENDS Naturals, Sequences, FiniteSets

CONSTANTS
    Sids,            \* conversations
    Clients,         \* browsers; each joins the conversation Home[c]
    Home,
    MaxConcurrent,   \* config.max_concurrent_conversations
    MaxSessions,     \* bound on the sessions that are created
    MaxStops,        \* bound on the requests to close a session
    Faults           \* subset of {"start", "save"}: what may raise

ASSUME BoundsAssumption == MaxSessions \in Nat /\ MaxStops \in Nat /\ MaxConcurrent \in Nat
ASSUME HomeAssumption == Home \in [Clients -> Sids]
\* Conversations, clients and the names of tasks are told apart.
ASSUME NamesAssumption ==
    Sids \cap (Clients \cup {"none", "stop"}) = {} /\ Clients \cap {"none", "stop"} = {}

VARIABLES
    loops,    \* _local_agent_loops_by_sid: session number, 0 for none
    conns,    \* _local_connection_id_to_session_id, by client
    sess,     \* the sessions that were created, a sequence of records
    join,     \* join_conversation, by client
    job,      \* _close_session, by the task that executes it
    stops     \* number of requests to close

vars == <<loops, conns, sess, join, job, stops>>

NoSid == "none"
Stop == "stop"       \* the request that closes a session
\* The tasks that can be in _close_session: joins that evict, a request, and
\* the clean-up, which closes each of its conversations in a task of its own.
Tasks == Clients \cup {Stop} \cup Sids

NotJoining == [pc |-> "idle", left |-> {}]
Job(pc, sid, n, victims) == [pc |-> pc, sid |-> sid, n |-> n, victims |-> victims]
NoJob == Job("idle", NoSid, 0, {})

\* The awaits of AgentSession.start, before and after the runtime object exists;
\* _starting holds there.
Starting == {"env", "connect"}
Running == {s \in Sids : loops[s] # 0}

NewSession(sid) ==
    [sid |-> sid, start |-> "new", old |-> FALSE, closed |-> FALSE, runtime |-> "none",
     controller |-> "none", end |-> "open"]

Init ==
    /\ loops = [s \in Sids |-> 0]
    /\ conns = [c \in Clients |-> NoSid]
    /\ sess = <<>>
    /\ join = [c \in Clients |-> NotJoining]
    /\ job = [t \in Tasks |-> NoJob]
    /\ stops = 0

-----------------------------------------------------------------------------
(***************************************************************************)
(* Closing: _close_session, WebSession.close, AgentSession.close.          *)
(***************************************************************************)
\* Mutant of Pop: the session is closed first and taken from the table later.
PopLate(t, sid) ==
    /\ job' = [job EXCEPT ![t] =
                 IF loops[sid] = 0 THEN NoJob ELSE Job("emit", NoSid, loops[sid], {})]
    /\ UNCHANGED loops

\* The session is taken from the table; session.close() begins with an emit.
Pop(t, sid) ==
    /\ loops' = [loops EXCEPT ![sid] = 0]
    /\ job' = [job EXCEPT ![t] =
                 IF loops[sid] = 0 THEN NoJob ELSE Job("emit", NoSid, loops[sid], {})]

\* The head of _close_session: the connections to disconnect are listed once.
CloseBegin(t, sid) ==
    LET victims == {c \in Clients : conns[c] = sid}
    IN  IF victims = {}
          THEN Pop(t, sid)
          ELSE /\ job' = [job EXCEPT ![t] = Job("disconnect", sid, 0, victims)]
               /\ UNCHANGED loops

\* The connection is gone, whoever closed it: nobody waits for it any more.
Forget(c) == [t \in Tasks |-> [job[t] EXCEPT !.victims = @ \ {c}]]

CloseDisconnect(t) ==
    /\ job[t].pc = "disconnect"
    /\ \E c \in job[t].victims :
         /\ conns' = [conns EXCEPT ![c] = NoSid]
         /\ job' = Forget(c)
    /\ UNCHANGED <<loops, sess, join, stops>>

ClosePop(t) ==
    /\ job[t].pc = "disconnect"
    /\ job[t].victims = {}
    /\ Pop(t, job[t].sid)
    /\ UNCHANGED <<conns, sess, join, stops>>

\* The stream is closed, the state saved, the controller closed and the
\* runtime's close submitted.  If saving raises, the rest does not happen, and a
\* join that was closing the session to make room is over.
Release(t, n) ==
    /\ job' = [job EXCEPT ![t] = NoJob]
    /\ \/ /\ "save" \in Faults
          /\ sess[n].controller = "open"
          /\ sess' = [sess EXCEPT ![n].closed = TRUE, ![n].end = "raised"]
          /\ join' = [c \in Clients |-> IF c = t THEN NotJoining ELSE join[c]]
       \/ /\ sess' = [sess EXCEPT
              ![n].closed = TRUE,
              ![n].controller = IF @ = "open" THEN "closed" ELSE @,
              ![n].runtime = IF @ = "up" THEN "closed" ELSE @,
              ![n].end = IF sess[n].start \in Starting THEN "gave up" ELSE "clean"]
          /\ UNCHANGED join

CloseAgent(t) ==
    LET n == job[t].n
    IN  /\ job[t].pc = "emit"
        /\ IF sess[n].closed
             THEN job' = [job EXCEPT ![t] = NoJob] /\ UNCHANGED <<sess, join>>
             ELSE IF sess[n].start \in Starting
             THEN /\ sess' = [sess EXCEPT ![n].closed = TRUE]
                  /\ job' = [job EXCEPT ![t].pc = "wait"]
                  /\ UNCHANGED join
             ELSE Release(t, n)
        /\ UNCHANGED <<loops, conns, stops>>

\* Mutant of WaitOver: the end of the start is not noticed.
WaitOverYoung(n) == ~sess[n].old

\* After each sleep: a session that started less than WAIT_TIME_BEFORE_CLOSE
\* ago is given up; otherwise the wait ends with the start.
WaitOver(n) == ~sess[n].old \/ sess[n].start \notin Starting

CloseWait(t) ==
    /\ job[t].pc = "wait"
    /\ WaitOver(job[t].n)
    /\ Release(t, job[t].n)
    /\ UNCHANGED <<loops, conns, stops>>

\* close_session, from a request; a session that is not there is not closed.
CloseSession(sid) ==
    /\ stops < MaxStops
    /\ stops' = stops + 1
    /\ job[Stop].pc = "idle"
    /\ loops[sid] # 0
    /\ CloseBegin(Stop, sid)
    /\ UNCHANGED <<conns, sess, join>>

\* AgentSession.get_state is neither None nor RUNNING: the controller may be
\* idle, and a session without one is in error when it has become old.
MaybeIdle(n) == sess[n].start # "new" /\ (sess[n].controller # "none" \/ sess[n].old)

\* _cleanup_stale chooses what nobody has used for a while, and creates a task
\* for each; they run later.
CleanUp ==
    /\ \A s \in Sids : job[s].pc = "idle"
    /\ \E idle \in SUBSET {s \in Running : MaybeIdle(loops[s]) /\ \A c \in Clients : conns[c] # s} :
         /\ idle # {}
         /\ job' = [t \in Tasks |-> IF t \in idle THEN Job("task", t, 0, {}) ELSE job[t]]
    /\ UNCHANGED <<loops, conns, sess, join, stops>>

CleanUpTask(s) ==
    /\ job[s].pc = "task"
    /\ CloseBegin(s, s)
    /\ UNCHANGED <<conns, sess, join, stops>>

\* wait_all gives up: the tasks that still wait for a start are cancelled.
CleanUpTimeout ==
    LET active == {s \in Sids : job[s].pc # "idle"}
    IN  /\ active # {}
        /\ \A s \in active : job[s].pc = "wait"
        /\ sess' = [n \in DOMAIN sess |->
                      IF \E s \in active : job[s].n = n
                        THEN [sess[n] EXCEPT !.end = "cancelled"] ELSE sess[n]]
        /\ job' = [t \in Tasks |-> IF t \in active THEN NoJob ELSE job[t]]
        /\ UNCHANGED <<loops, conns, join, stops>>

-----------------------------------------------------------------------------
(***************************************************************************)
(* Joining: join_conversation, maybe_start_agent_loop, _start_agent_loop.  *)
(***************************************************************************)
\* The last part of _start_agent_loop; the table is not looked at again.
StartLoop(c) ==
    /\ Len(sess) < MaxSessions
    /\ sess' = Append(sess, NewSession(Home[c]))
    /\ loops' = [loops EXCEPT ![Home[c]] = Len(sess) + 1]
    /\ join' = [join EXCEPT ![c] = NotJoining]

\* The client enters the room.  If a loop runs, the join is over; if there is
\* space, a session is created at once; if not, the metadata is fetched first.
Join(c) ==
    /\ join[c].pc = "idle"
    /\ conns[c] = NoSid
    /\ Len(sess) < MaxSessions
    /\ conns' = [conns EXCEPT ![c] = Home[c]]
    /\ IF loops[Home[c]] # 0
         THEN UNCHANGED <<loops, sess, join>>
         ELSE IF Cardinality(Running) < MaxConcurrent
         THEN StartLoop(c)
         ELSE /\ join' = [join EXCEPT ![c] = [pc |-> "evict", left |-> Running]]
              /\ UNCHANGED <<loops, sess>>
    /\ UNCHANGED <<job, stops>>

\* The conversation that was updated longest ago is told and closed.
Evict(c) ==
    /\ join[c].pc = "evict"
    /\ job[c].pc = "idle"
    /\ Cardinality(join[c].left) >= MaxConcurrent
    /\ \E s \in join[c].left :
         /\ join' = [join EXCEPT ![c].left = @ \ {s}]
         /\ IF loops[s] # 0 THEN CloseBegin(c, s) ELSE UNCHANGED <<job, loops>>
    /\ UNCHANGED <<conns, sess, stops>>

JoinStart(c) ==
    /\ join[c].pc = "evict"
    /\ job[c].pc = "idle"
    /\ Cardinality(join[c].left) < MaxConcurrent
    /\ StartLoop(c)
    /\ UNCHANGED <<conns, job, stops>>

\* disconnect_from_session.  What the client had begun goes on without it.
Disconnect(c) ==
    /\ conns[c] # NoSid
    /\ conns' = [conns EXCEPT ![c] = NoSid]
    /\ job' = Forget(c)
    /\ UNCHANGED <<loops, sess, join, stops>>

-----------------------------------------------------------------------------
(***************************************************************************)
(* Starting: initialize_agent and AgentSession.start, in a task of each    *)
(* session.                                                                *)
(***************************************************************************)
StartStep(n, from, to) ==
    /\ sess[n].start = from
    /\ sess' = [sess EXCEPT ![n].start = to]
    /\ UNCHANGED <<loops, conns, join, job, stops>>

\* Mutant of StartBegin: the session is not asked whether it is closed.
StartBeginClosed(n) == StartStep(n, "new", "env")

StartBegin(n) == StartStep(n, "new", IF sess[n].closed THEN "never" ELSE "env")

\* The runtime object exists before it is connected.
StartRuntime(n) ==
    /\ sess[n].start = "env"
    /\ sess' = [sess EXCEPT ![n].start = "connect", ![n].runtime = "up"]
    /\ UNCHANGED <<loops, conns, join, job, stops>>

\* The runtime is connected (or found to be unavailable, which is reported only)
\* and set up, and the memory is made.  The controller is created whether or not
\* the session is closed.
StartController(n) ==
    /\ sess[n].start = "connect"
    /\ sess' = [sess EXCEPT ![n].start = "done", ![n].controller = "open"]
    /\ UNCHANGED <<loops, conns, join, job, stops>>

StartRaises(n) ==
    /\ "start" \in Faults
    /\ \E from \in Starting : StartStep(n, from, "failed")

Start(n) == StartBegin(n) \/ StartRuntime(n) \/ StartController(n) \/ StartRaises(n)

\* WAIT_TIME_BEFORE_CLOSE has passed since the start.  It is looked at while
\* there is no controller.
Age(n) ==
    /\ sess[n].start \in Starting \cup {"failed"}
    /\ sess[n].end = "open"
    /\ ~sess[n].old
    /\ sess' = [sess EXCEPT ![n].old = TRUE]
    /\ UNCHANGED <<loops, conns, join, job, stops>>

-----------------------------------------------------------------------------
Close(t) == CloseDisconnect(t) \/ ClosePop(t) \/ CloseAgent(t) \/ CloseWait(t)
JoinGoesOn(c) == Evict(c) \/ JoinStart(c) \/ Close(c)

Next ==
    \/ \E c \in Clients : Join(c) \/ JoinGoesOn(c) \/ Disconnect(c)
    \/ Close(Stop)
    \/ \E s \in Sids : CloseSession(s) \/ CleanUpTask(s) \/ Close(s)
    \/ CleanUp
    \/ CleanUpTimeout
    \/ \E n \in DOMAIN sess : Start(n) \/ Age(n)

Spec == Init /\ [][Next]_vars

\* The loop runs the tasks of requests that can go on, and calls of the sandbox
\* return.
Fairness ==
    /\ \A c \in Clients : WF_vars(JoinGoesOn(c))
    /\ WF_vars(Close(Stop))
    /\ \A n \in 1 .. MaxSessions : WF_vars(n \in DOMAIN sess /\ Start(n))

-----------------------------------------------------------------------------
Session ==
    [sid : Sids, start : Starting \cup {"new", "done", "failed", "never"}, old : BOOLEAN,
     closed : BOOLEAN, runtime : {"none", "up", "closed"}, controller : {"none", "open", "closed"},
     end : {"open", "clean", "gave up", "raised", "cancelled"}]

TypeOK ==
    /\ loops \in [Sids -> 0 .. Len(sess)]
    /\ conns \in [Clients -> Sids \cup {NoSid}]
    /\ sess \in Seq(Session)
    /\ join \in [Clients -> [pc : {"idle", "evict"}, left : SUBSET Sids]]
    /\ job \in [Tasks -> [pc : {"idle", "task", "disconnect", "emit", "wait"},
                          sid : Sids \cup {NoSid}, n : 0 .. Len(sess), victims : SUBSET Clients]]
    /\ stops \in 0 .. MaxStops

\* A session in the table has not begun to close: a message that is dispatched
\* to it (send_event_to_conversation) finds an open stream and its controller.
TableIsOpen ==
    \A s \in Sids : loops[s] # 0 => sess[loops[s]].sid = s /\ ~sess[loops[s]].closed

\* Every session that has not been closed can be found: it is in the table
\* or a task is about to close it.  (One client per conversation; see the
\* README for two.)
EverySessionFound ==
    \A n \in DOMAIN sess :
        ~sess[n].closed => loops[sess[n].sid] = n \/ \E t \in Tasks : job[t].n = n

\* The table of sessions and the sessions agree, through joins, evictions, closes
\* and failures: what is in it is open, and what is open is in it or being closed.
SessionsTracked == TableIsOpen /\ EverySessionFound

\* Closing a session that is not being started leaves no controller and no
\* runtime behind, now or later.
CleanCloseReleases ==
    \A n \in DOMAIN sess :
        sess[n].end = "clean" => sess[n].controller # "open" /\ sess[n].runtime # "up"

\* Closing a session releases its sandbox in the end: the loop in
\* AgentSession.close waits for a start under way.
NothingLeftOpen ==
    \A n \in DOMAIN sess :
        sess[n].end \in {"clean", "gave up"} /\ sess[n].start \in {"done", "failed"} =>
            sess[n].runtime # "up" /\ sess[n].controller # "open"

\* The requests to close a session and the joins that have to close others come
\* to an end, although each may wait for the start of a session.  (There are
\* finitely many of them, so that all have ended infinitely often.)
RequestsEnd ==
    []<>(/\ job[Stop].pc = "idle"
         /\ \A c \in Clients : join[c].pc = "idle" \/ Len(sess) = MaxSessions)
=============================================================================
