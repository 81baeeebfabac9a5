----------------------- MODULE AttachedConversations -----------------------
(***************************************************************************)
(* The conversations that HTTP requests attach to, for one conversation id *)
(* (attach_to_conversation, detach_from_conversation and the first half of *)
(* _cleanup_stale in StandaloneConversationManager; ServerConversation).   *)
(* The session of the conversation comes and goes by itself.               *)
(***************************************************************************)
EXTENDS Naturals, Sequences, FiniteSets

CONSTANTS
    Requests,      \* HTTP requests: attach, use the conversation, detach
    MaxConvs,      \* bound on ServerConversation objects
    MaxSessions    \* bound on the sessions that run one after the other

VARIABLES
    lock,       \* _conversations_lock: who holds it, or Free
    active,     \* _active_conversations[sid]: [conv, count], conv 0 for none
    detached,   \* _detached_conversations[sid]: conv, 0 for none
    convs,      \* the objects: [up, borrowed], borrowed = session of the runtime, 0 if its own
    req,        \* per request: [pc, conv]
    cleaning,   \* the conversation that the clean-up disconnects, 0 for none
    session,    \* the session in _local_agent_loops_by_sid, 0 for none
    sessions    \* number of sessions so far

vars == <<lock, active, detached, convs, req, cleaning, session, sessions>>
Free == "free"
Cleaner == "cleaner"
Nobody == [conv |-> 0, count |-> 0]
Idle == [pc |-> "idle", conv |-> 0]

Init ==
    /\ lock = Free
    /\ active = Nobody
    /\ detached = 0
    /\ convs = <<>>
    /\ req = [r \in Requests |-> Idle]
    /\ cleaning = 0
    /\ session = 0
    /\ sessions = 0

Uses(r, c) == req' = [req EXCEPT ![r] = [pc |-> "using", conv |-> c]]

\* Mutant of Attach: a detached conversation is used and stays in the table.
AttachKeepsDetached(r) ==
    /\ req[r].pc = "idle"
    /\ lock = Free
    /\ \/ /\ active.conv # 0
          /\ active' = [active EXCEPT !.count = @ + 1]
          /\ Uses(r, active.conv)
          /\ UNCHANGED <<lock, detached, convs>>
       \/ /\ active.conv = 0 /\ detached # 0
          /\ active' = [conv |-> detached, count |-> 1]
          /\ Uses(r, detached)
          /\ UNCHANGED <<lock, detached, convs>>
       \/ /\ active.conv = 0 /\ detached = 0 /\ Len(convs) < MaxConvs
          /\ convs' = Append(convs, [up |-> TRUE, borrowed |-> session])
          /\ active' = [conv |-> Len(convs) + 1, count |-> 1]
          /\ Uses(r, Len(convs) + 1)
          /\ UNCHANGED <<lock, detached>>
    /\ UNCHANGED <<cleaning, session, sessions>>

\* attach_to_conversation: an active conversation is shared, a detached one
\* taken up again.  A new one borrows the runtime of a session that has one
\* already; otherwise it connects one of its own, with the lock held.
Attach(r) ==
    /\ req[r].pc = "idle"
    /\ lock = Free
    /\ \/ /\ active.conv # 0
          /\ active' = [active EXCEPT !.count = @ + 1]
          /\ Uses(r, active.conv)
          /\ UNCHANGED <<lock, detached, convs>>
       \/ /\ active.conv = 0 /\ detached # 0
          /\ active' = [conv |-> detached, count |-> 1]
          /\ detached' = 0
          /\ Uses(r, detached)
          /\ UNCHANGED <<lock, convs>>
       \/ /\ active.conv = 0 /\ detached = 0 /\ session # 0 /\ Len(convs) < MaxConvs
          /\ convs' = Append(convs, [up |-> TRUE, borrowed |-> session])
          /\ active' = [conv |-> Len(convs) + 1, count |-> 1]
          /\ Uses(r, Len(convs) + 1)
          /\ UNCHANGED <<lock, detached>>
       \/ /\ active.conv = 0 /\ detached = 0 /\ Len(convs) < MaxConvs
          /\ convs' = Append(convs, [up |-> FALSE, borrowed |-> 0])
          /\ lock' = r
          /\ req' = [req EXCEPT ![r] = [pc |-> "connecting", conv |-> Len(convs) + 1]]
          /\ UNCHANGED <<active, detached>>
    /\ UNCHANGED <<cleaning, session, sessions>>

\* connect returns, or finds the runtime unavailable: the request gets nothing.
Connected(r) ==
    /\ req[r].pc = "connecting"
    /\ lock' = Free
    /\ \/ /\ convs' = [convs EXCEPT ![req[r].conv].up = TRUE]
          /\ active' = [conv |-> req[r].conv, count |-> 1]
          /\ Uses(r, req[r].conv)
       \/ /\ req' = [req EXCEPT ![r] = Idle]
          /\ UNCHANGED <<convs, active>>
    /\ UNCHANGED <<detached, cleaning, session, sessions>>

Detach(r) ==
    /\ req[r].pc = "using"
    /\ lock = Free
    /\ req' = [req EXCEPT ![r] = Idle]
    /\ CASE active.conv = 0 -> UNCHANGED <<active, detached>>
         [] active.conv # 0 /\ active.count > 1 ->
              active' = [active EXCEPT !.count = @ - 1] /\ UNCHANGED detached
         [] OTHER -> active' = Nobody /\ detached' = req[r].conv
    /\ UNCHANGED <<lock, convs, cleaning, session, sessions>>

\* _cleanup_stale takes the lock and disconnects what is detached.  A borrowed
\* runtime is left alone.
CleanBegin ==
    /\ lock = Free
    /\ detached # 0
    /\ lock' = Cleaner
    /\ cleaning' = detached
    /\ UNCHANGED <<active, detached, convs, req, session, sessions>>

CleanEnd ==
    /\ lock = Cleaner
    /\ lock' = Free
    /\ convs' = [convs EXCEPT ![cleaning].up = FALSE]
    /\ detached' = 0
    /\ cleaning' = 0
    /\ UNCHANGED <<active, req, session, sessions>>

\* The agent loop of the conversation starts or is closed meanwhile.
SessionStarts ==
    /\ session = 0
    /\ sessions < MaxSessions
    /\ session' = sessions + 1
    /\ sessions' = sessions + 1
    /\ UNCHANGED <<lock, active, detached, convs, req, cleaning>>

SessionCloses ==
    /\ session # 0
    /\ session' = 0
    /\ UNCHANGED <<lock, active, detached, convs, req, cleaning, sessions>>

Next ==
    \/ \E r \in Requests : Attach(r) \/ Connected(r) \/ Detach(r)
    \/ CleanBegin \/ CleanEnd
    \/ SessionStarts \/ SessionCloses

Spec == Init /\ [][Next]_vars

-----------------------------------------------------------------------------
Holders(c) == {r \in Requests : req[r] = [pc |-> "using", conv |-> c]}

\* A conversation that a request is using is connected, and its count is the
\* number of those requests: neither the clean-up nor another request's detach
\* takes it away.  And no connection is lost: a conversation that is connected is
\* in one of the two tables, and in one only.
ConversationsKept ==
    /\ \A r \in Requests : req[r].pc = "using" =>
         /\ convs[req[r].conv].up
         /\ req[r].conv = active.conv
         /\ active.count = Cardinality(Holders(active.conv))
    /\ \A c \in DOMAIN convs : convs[c].up => (active.conv = c) # (detached = c)
=============================================================================
