------------------------ MODULE ConversationsProofs ------------------------
(***************************************************************************)
(* Proofs about the conversation managers: the sessions of one server      *)
(* (ConversationManager), the conversations that requests attach to        *)
(* (AttachedConversations) and the cluster (ClusteredManager), each for    *)
(* any value of its constants.                                             *)
(***************************************************************************)
EXTENDS MCConversations, FiniteSetTheorems, TLAPS

-----------------------------------------------------------------------------
(***************************************************************************)
(* The sessions of one server.  A session that a task closes is in no      *)
(* entry of the table, and whoever waits has marked it as closed; what is  *)
(* in the table is open; a session that was closed in peace has nothing    *)
(* left and will not be started.                                           *)
(***************************************************************************)
Jobs == [pc : {"idle", "task", "disconnect", "emit", "wait"}, sid : Sids \cup {NoSid},
         n : Nat, victims : SUBSET Clients]

Released(r) ==
    r.end = "clean" =>
        r.closed /\ r.start \notin Starting /\ r.controller # "open" /\ r.runtime # "up"

CoreInv ==
    /\ loops \in [Sids -> Nat]
    /\ sess \in Seq(Session)
    /\ job \in [Tasks -> Jobs]
    /\ \A s \in Sids : loops[s] <= Len(sess)
    /\ \A t \in Tasks :
         /\ job[t].n <= Len(sess)
         /\ job[t].n # 0 <=> job[t].pc \in {"emit", "wait"}
         /\ job[t].pc = "disconnect" => job[t].sid \in Sids
         /\ job[t].pc = "wait" => sess[job[t].n].closed
         /\ \A s \in Sids : loops[s] # 0 => loops[s] # job[t].n
    /\ TableIsOpen
    /\ \A n \in 1 .. Len(sess) : Released(sess[n])

\* What all steps but those that create a session have in common.  A session is
\* closed once, what leaves the table is closed by a task, and no task forgets a
\* session that is not closed.
Tracking ==
    /\ Len(sess') = Len(sess)
    /\ \A m \in 1 .. Len(sess) : /\ sess'[m].sid = sess[m].sid
                                 /\ sess[m].closed => sess'[m].closed
    /\ \A s \in Sids : \/ loops'[s] = loops[s]
                       \/ loops'[s] = 0 /\ \E t \in Tasks : job'[t].n = loops[s]
    /\ \A t \in Tasks : job[t].n = 0 \/ job'[t].n = job[t].n \/ sess'[job[t].n].closed

\* The steps that create one.
Creating == \E c \in Clients : (Join(c) \/ JoinStart(c)) /\ StartLoop(c)

\* What the tasks that join know: the types of the rest of the state.
JoinInv ==
    /\ conns \in [Clients -> Sids \cup {NoSid}]
    /\ join \in [Clients -> [pc : {"idle", "evict"}, left : SUBSET Sids]]
    /\ stops \in 0 .. MaxStops

\* An assignment to one session leaves the others alone.
LEMMA SessionChange ==
    ASSUME NEW q \in Seq(Session), NEW n \in 1 .. Len(q), NEW r \in Session
    PROVE  /\ [q EXCEPT ![n] = r] \in Seq(Session)
           /\ Len([q EXCEPT ![n] = r]) = Len(q)
           /\ \A m \in 1 .. Len(q) : [q EXCEPT ![n] = r][m] = IF m = n THEN r ELSE q[m]
  OBVIOUS

\* The table is empty and nobody closes anything in the beginning.
LEMMA CoreInvInit == ASSUME Init PROVE CoreInv /\ JoinInv
<1>1. NoJob \in Jobs /\ NoJob.n = 0 /\ NoJob.pc = "idle"
  BY DEF NoJob, Job, Jobs
<1>2. job \in [Tasks -> Jobs] /\ \A t \in Tasks : job[t] = NoJob
  BY <1>1 DEF Init
<1>3. sess \in Seq(Session) /\ Len(sess) = 0
  BY DEF Init
<1>4. loops \in [Sids -> Nat] /\ \A s \in Sids : loops[s] = 0
  BY DEF Init
<1>5. CoreInv
  BY <1>1, <1>2, <1>3, <1>4 DEF CoreInv, TableIsOpen
<1>6. JoinInv
  BY BoundsAssumption DEF Init, JoinInv, NotJoining
<1> QED
  BY <1>5, <1>6

\* A start, or the age, of a session changes neither whose it is nor whether it is
\* closed.
LEMMA StartKeepsCore ==
    ASSUME CoreInv, UNCHANGED <<loops, job>>,
           NEW n \in 1 .. Len(sess), NEW r \in Session, sess' = [sess EXCEPT ![n] = r],
           r.sid = sess[n].sid, r.closed = sess[n].closed, Released(r)
    PROVE  CoreInv' /\ Tracking
<1>1. /\ sess' \in Seq(Session) /\ Len(sess') = Len(sess)
      /\ \A m \in 1 .. Len(sess) : sess'[m] = IF m = n THEN r ELSE sess[m]
  BY SessionChange DEF CoreInv
<1>2. CoreInv'
  BY <1>1 DEF CoreInv, TableIsOpen, Jobs
<1>3. Tracking
  BY <1>1 DEF CoreInv, Tracking
<1> QED
  BY <1>2, <1>3

\* Taking a session from the table, by a task that closes nothing else.
LEMMA PopKeepsCore ==
    ASSUME CoreInv, NEW t \in Tasks, NEW sid \in Sids, job[t].n = 0, Pop(t, sid), UNCHANGED sess
    PROVE  CoreInv' /\ Tracking
<1> DEFINE j == IF loops[sid] = 0 THEN NoJob ELSE Job("emit", NoSid, loops[sid], {})
<1>1. j \in Jobs
  BY DEF CoreInv, NoJob, Job, Jobs
<1>2. /\ j.n = loops[sid] /\ j.pc \in {"idle", "emit"}
      /\ j.n # 0 <=> j.pc \in {"emit", "wait"}
  BY DEF CoreInv, NoJob, Job
<1>3. job' = [job EXCEPT ![t] = j] /\ loops' = [loops EXCEPT ![sid] = 0]
  BY DEF Pop
<1> HIDE DEF j
<1>4. job' \in [Tasks -> Jobs] /\ loops' \in [Sids -> Nat]
  BY <1>1, <1>3 DEF CoreInv
<1>5. \A s \in Sids : s # sid /\ loops[s] # 0 => loops[s] # loops[sid]
  BY DEF CoreInv, TableIsOpen
<1>6. CoreInv'
  BY <1>2, <1>3, <1>4, <1>5 DEF CoreInv, TableIsOpen
<1>7. Tracking
  BY <1>2, <1>3, <1>4 DEF CoreInv, Tracking
<1> QED
  BY <1>6, <1>7

\* The same for the head of _close_session.
LEMMA CloseBeginKeepsCore ==
    ASSUME CoreInv, NEW t \in Tasks, NEW sid \in Sids, job[t].n = 0, CloseBegin(t, sid),
           UNCHANGED sess
    PROVE  CoreInv' /\ Tracking
<1> DEFINE victims == {c \in Clients : conns[c] = sid}
<1>1. CASE victims = {}
  BY <1>1, PopKeepsCore DEF CloseBegin
<1>2. CASE victims # {}
  <2> DEFINE j == Job("disconnect", sid, 0, victims)
  <2>1. j \in Jobs /\ j.n = 0 /\ j.pc = "disconnect" /\ j.sid = sid
    BY DEF Job, Jobs
  <2>2. job' = [job EXCEPT ![t] = j] /\ UNCHANGED <<loops, sess>>
    BY <1>2 DEF CloseBegin
  <2> HIDE DEF j
  <2>3. CoreInv'
    BY <2>1, <2>2 DEF CoreInv, TableIsOpen
  <2>4. \A u \in Tasks : job'[u].n = job[u].n
    BY <2>1, <2>2 DEF CoreInv
  <2> QED
    BY <2>2, <2>3, <2>4 DEF CoreInv, Tracking
<1> QED
  BY <1>1, <1>2

\* A job is over when its session is closed.
LEMMA JobEndsKeepsCore ==
    ASSUME CoreInv, NEW t \in Tasks, UNCHANGED <<loops, sess>>,
           job' = [job EXCEPT ![t] = NoJob], sess[job[t].n].closed
    PROVE  CoreInv' /\ Tracking
<1>1. NoJob \in Jobs /\ NoJob.n = 0 /\ NoJob.pc = "idle"
  BY DEF NoJob, Job, Jobs
<1>2. /\ job' \in [Tasks -> Jobs]
      /\ \A u \in Tasks : job'[u] = IF u = t THEN NoJob ELSE job[u]
  BY <1>1 DEF CoreInv
<1>3. CoreInv'
  BY <1>1, <1>2 DEF CoreInv, TableIsOpen
<1>4. Tracking
  BY <1>2 DEF CoreInv, Tracking
<1> QED
  BY <1>3, <1>4

\* A connection that is gone changes only whom the jobs wait for.
LEMMA ForgetKeepsCore ==
    ASSUME CoreInv, NEW c \in Clients, job' = Forget(c), UNCHANGED <<loops, sess>>
    PROVE  CoreInv' /\ Tracking
<1>1. \A t \in Tasks : /\ job'[t] = [job[t] EXCEPT !.victims = @ \ {c}]
                       /\ job[t] \in Jobs
  BY DEF Forget, CoreInv
<1>2. ASSUME NEW j \in Jobs
      PROVE  LET k == [j EXCEPT !.victims = @ \ {c}]
             IN  k \in Jobs /\ k.n = j.n /\ k.pc = j.pc /\ k.sid = j.sid
  BY DEF Jobs
<1>3. \A t \in Tasks : /\ job'[t] \in Jobs
                       /\ job'[t].n = job[t].n /\ job'[t].pc = job[t].pc
                       /\ job'[t].sid = job[t].sid
  BY <1>1, <1>2
<1>4. job' \in [Tasks -> Jobs]
  BY <1>3 DEF Forget
<1>5. CoreInv'
  BY <1>3, <1>4 DEF CoreInv, TableIsOpen
<1>6. Tracking
  BY <1>3 DEF CoreInv, Tracking
<1> QED
  BY <1>5, <1>6

\* The rest of AgentSession.close, for a session that is not in the table; it is
\* clean only if no start is under way.
LEMMA ReleaseKeepsCore ==
    ASSUME CoreInv, NEW t \in Tasks, job[t].n # 0, Release(t, job[t].n), UNCHANGED loops
    PROVE  CoreInv' /\ Tracking
<1> DEFINE n == job[t].n
<1>1. n \in 1 .. Len(sess) /\ sess[n] \in Session
  BY DEF CoreInv, Jobs
<1>2. PICK r \in Session : /\ sess' = [sess EXCEPT ![n] = r]
                           /\ r.sid = sess[n].sid /\ r.closed /\ Released(r)
  <2>1. CASE sess' = [sess EXCEPT ![n].closed = TRUE, ![n].end = "raised"]
    <3> DEFINE r == [sess[n] EXCEPT !.closed = TRUE, !.end = "raised"]
    <3>1. r \in Session /\ r.sid = sess[n].sid /\ r.closed /\ r.end = "raised"
      BY <1>1 DEF Session
    <3>2. sess' = [sess EXCEPT ![n] = r]
      BY <2>1, <1>1 DEF Session, CoreInv
    <3> HIDE DEF r
    <3> QED
      BY <3>1, <3>2 DEF Released
  <2>2. CASE sess' = [sess EXCEPT
              ![n].closed = TRUE,
              ![n].controller = IF @ = "open" THEN "closed" ELSE @,
              ![n].runtime = IF @ = "up" THEN "closed" ELSE @,
              ![n].end = IF sess[n].start \in Starting THEN "gave up" ELSE "clean"]
    <3> DEFINE r == [sess[n] EXCEPT
              !.closed = TRUE,
              !.controller = IF @ = "open" THEN "closed" ELSE @,
              !.runtime = IF @ = "up" THEN "closed" ELSE @,
              !.end = IF sess[n].start \in Starting THEN "gave up" ELSE "clean"]
    <3>1. r \in Session /\ r.sid = sess[n].sid /\ r.closed /\ Released(r)
      BY <1>1 DEF Session, Released
    <3>2. sess' = [sess EXCEPT ![n] = r]
      BY <2>2, <1>1 DEF Session, CoreInv
    <3> HIDE DEF r
    <3> QED
      BY <3>1, <3>2
  <2> QED
    BY <2>1, <2>2 DEF Release
<1>3. /\ sess' \in Seq(Session) /\ Len(sess') = Len(sess)
      /\ \A m \in 1 .. Len(sess) : sess'[m] = IF m = n THEN r ELSE sess[m]
  BY <1>1, <1>2, SessionChange DEF CoreInv
<1>4. job' = [job EXCEPT ![t] = NoJob]
  BY DEF Release
<1>5. NoJob \in Jobs /\ NoJob.n = 0 /\ NoJob.pc = "idle"
  BY DEF NoJob, Job, Jobs
<1>6. /\ job' \in [Tasks -> Jobs]
      /\ \A u \in Tasks : job'[u] = IF u = t THEN NoJob ELSE job[u]
  BY <1>4, <1>5 DEF CoreInv
<1>7. \A u \in Tasks : job[u].pc = "wait" => job[u].n \in 1 .. Len(sess)
  BY DEF CoreInv, Jobs
<1>8. TableIsOpen'
  BY <1>2, <1>3 DEF CoreInv, TableIsOpen
<1>9. Tracking
  BY <1>1, <1>2, <1>3, <1>6 DEF Tracking
<1> HIDE DEF n
<1>10. CoreInv'
  BY <1>2, <1>3, <1>5, <1>6, <1>7, <1>8 DEF CoreInv
<1> QED
  BY <1>9, <1>10

\* A close that raises ends the join of its task, if it has one.
LEMMA ReleaseKeepsJoins ==
    ASSUME JoinInv, NEW t \in Tasks, NEW n, Release(t, n), UNCHANGED <<conns, stops>>
    PROVE  /\ JoinInv'
           /\ \A c \in Clients : join'[c] = NotJoining \/ join'[c] = join[c]
<1>1. /\ join' \in [Clients -> [pc : {"idle", "evict"}, left : SUBSET Sids]]
      /\ \A c \in Clients : join'[c] = NotJoining \/ join'[c] = join[c]
  <2>1. CASE UNCHANGED join
    BY <2>1 DEF JoinInv
  <2>2. CASE join' = [c \in Clients |-> IF c = t THEN NotJoining ELSE join[c]]
    BY <2>2 DEF JoinInv, NotJoining
  <2> QED
    BY <2>1, <2>2 DEF Release
<1> QED
  BY <1>1 DEF JoinInv

\* A new session is entered in the table and is closed by nobody yet.
LEMMA StartLoopKeepsCore ==
    ASSUME CoreInv, NEW c \in Clients, StartLoop(c), UNCHANGED job
    PROVE  CoreInv'
<1> DEFINE r == NewSession(Home[c])
<1>1. r \in Session /\ r.sid = Home[c] /\ ~r.closed /\ r.end = "open" /\ Home[c] \in Sids
  BY HomeAssumption DEF NewSession, Session
<1>2. sess' = Append(sess, r) /\ loops' = [loops EXCEPT ![Home[c]] = Len(sess) + 1]
  BY DEF StartLoop
<1> HIDE DEF r
<1>3. /\ sess' \in Seq(Session) /\ Len(sess') = Len(sess) + 1 /\ Len(sess) \in Nat
      /\ sess'[Len(sess) + 1] = r
      /\ \A m \in 1 .. Len(sess) : sess'[m] = sess[m]
  BY <1>1, <1>2 DEF CoreInv
<1>4. /\ loops' \in [Sids -> Nat]
      /\ \A s \in Sids : loops'[s] = IF s = Home[c] THEN Len(sess) + 1 ELSE loops[s]
  <2>1. Len(sess) + 1 \in Nat /\ loops \in [Sids -> Nat]
    BY <1>3 DEF CoreInv
  <2> QED
    BY <1>1, <1>2, <2>1
<1>5. \A t \in Tasks : job[t].n \in Nat
  BY DEF CoreInv, Jobs
<1>6. TableIsOpen'
  <2> SUFFICES ASSUME NEW s \in Sids, loops'[s] # 0
               PROVE  sess'[loops'[s]].sid = s /\ ~sess'[loops'[s]].closed
    BY DEF TableIsOpen
  <2>1. CASE s = Home[c]
    BY <1>1, <1>3, <1>4, <2>1
  <2>2. CASE s # Home[c]
    <3>1. loops'[s] = loops[s] /\ loops[s] \in 1 .. Len(sess)
      BY <1>4, <2>2 DEF CoreInv
    <3> QED
      BY <3>1, <1>3 DEF CoreInv, TableIsOpen
  <2> QED
    BY <2>1, <2>2
<1>7. \A n \in 1 .. Len(sess') : Released(sess'[n])
  <2> SUFFICES ASSUME NEW n \in 1 .. Len(sess') PROVE Released(sess'[n])
    OBVIOUS
  <2>1. CASE n = Len(sess) + 1
    BY <1>1, <1>3, <2>1 DEF Released
  <2>2. CASE n \in 1 .. Len(sess)
    BY <1>3, <2>2 DEF CoreInv
  <2> QED
    BY <1>3, <2>1, <2>2
<1>8. \A s \in Sids : loops'[s] <= Len(sess')
  BY <1>3, <1>4 DEF CoreInv
<1>9. \A t \in Tasks :
         /\ job[t].n <= Len(sess')
         /\ job[t].pc = "wait" => sess'[job[t].n].closed
         /\ \A s \in Sids : loops'[s] # 0 => loops'[s] # job[t].n
  BY <1>3, <1>4, <1>5 DEF CoreInv
<1> QED
  BY <1>3, <1>4, <1>6, <1>7, <1>8, <1>9 DEF CoreInv

\* Every step of the tasks preserves what is said of the table, the sessions and the
\* jobs, however many clients a conversation has.
LEMMA CoreInvNext ==
    ASSUME CoreInv, JoinInv, [Next]_vars
    PROVE  CoreInv' /\ JoinInv' /\ (Tracking \/ Creating)
<1> DEFINE Good == CoreInv' /\ JoinInv' /\ (Tracking \/ Creating)
<1> SUFFICES Good
  OBVIOUS
<1>t. \A c \in Clients : c \in Tasks
  BY DEF Tasks
<1>s. \A s \in Sids : s \in Tasks
  BY DEF Tasks
<1>p. Stop \in Tasks
  BY DEF Tasks
<1>1. ASSUME NEW c \in Clients, Join(c) PROVE Good
  <2>1. JoinInv'
    <3>1. conns' \in [Clients -> Sids \cup {NoSid}] /\ stops' = stops
      BY <1>1, HomeAssumption DEF Join, JoinInv
    <3>2. \/ join' = join
          \/ join' = [join EXCEPT ![c] = NotJoining]
          \/ join' = [join EXCEPT ![c] = [pc |-> "evict", left |-> Running]]
      BY <1>1 DEF Join, StartLoop
    <3>3. join' \in [Clients -> [pc : {"idle", "evict"}, left : SUBSET Sids]]
      BY <3>2 DEF JoinInv, NotJoining, Running
    <3> QED
      BY <3>1, <3>3 DEF JoinInv
  <2>2. CASE UNCHANGED <<loops, sess, job>>
    BY <2>1, <2>2 DEF CoreInv, TableIsOpen, Tracking
  <2>3. CASE StartLoop(c) /\ UNCHANGED job
    BY <1>1, <2>1, <2>3, StartLoopKeepsCore DEF Creating
  <2> QED
    BY <1>1, <2>1, <2>2, <2>3 DEF Join
<1>2. ASSUME NEW c \in Clients, Evict(c) PROVE Good
  <2>1. PICK s \in join[c].left :
          /\ join' = [join EXCEPT ![c].left = @ \ {s}]
          /\ CloseBegin(c, s) \/ UNCHANGED <<job, loops>>
          /\ job[c].pc = "idle" /\ UNCHANGED <<conns, sess, stops>>
    BY <1>2 DEF Evict
  <2>2. s \in Sids /\ JoinInv'
    BY <2>1 DEF JoinInv
  <2>3. job[c].n = 0
    BY <2>1, <1>t DEF CoreInv, Jobs
  <2>4. CASE UNCHANGED <<loops, sess, job>>
    BY <2>2, <2>4 DEF CoreInv, TableIsOpen, Tracking
  <2> QED
    BY <1>t, <2>1, <2>2, <2>3, <2>4, CloseBeginKeepsCore
<1>3. ASSUME NEW c \in Clients, JoinStart(c) PROVE Good
  <2>1. StartLoop(c) /\ UNCHANGED <<conns, job, stops>>
    BY <1>3 DEF JoinStart
  <2>2. JoinInv'
    BY <2>1 DEF StartLoop, JoinInv, NotJoining
  <2> QED
    BY <1>3, <2>1, <2>2, StartLoopKeepsCore DEF Creating
<1>4. ASSUME NEW c \in Clients, Disconnect(c) PROVE Good
  BY <1>4, ForgetKeepsCore DEF Disconnect, JoinInv
<1>5. ASSUME NEW t \in Tasks, CloseDisconnect(t) PROVE Good
  <2>1. PICK c \in job[t].victims : conns' = [conns EXCEPT ![c] = NoSid] /\ job' = Forget(c)
    BY <1>5 DEF CloseDisconnect
  <2>2. c \in Clients
    BY <2>1 DEF CoreInv, Jobs
  <2> QED
    BY <1>5, <2>1, <2>2, ForgetKeepsCore DEF CloseDisconnect, JoinInv
<1>6. ASSUME NEW t \in Tasks, ClosePop(t) PROVE Good
  <2>1. job[t].n = 0 /\ job[t].sid \in Sids
    BY <1>6 DEF ClosePop, CoreInv, Jobs
  <2> QED
    BY <1>6, <2>1, PopKeepsCore DEF ClosePop, JoinInv
<1>7. ASSUME NEW t \in Tasks, CloseAgent(t) PROVE Good
  <2> DEFINE n == job[t].n
  <2>1. n \in 1 .. Len(sess) /\ n # 0 /\ UNCHANGED <<loops, conns, stops>>
    BY <1>7 DEF CloseAgent, CoreInv, Jobs
  <2>2. JoinInv'
    <3>1. CASE UNCHANGED join
      BY <2>1, <3>1 DEF JoinInv
    <3>2. CASE Release(t, n)
      BY <2>1, <3>2, ReleaseKeepsJoins
    <3> QED
      BY <1>7, <3>1, <3>2 DEF CloseAgent
  <2>3. CASE sess[n].closed /\ job' = [job EXCEPT ![t] = NoJob] /\ UNCHANGED sess
    BY <2>1, <2>2, <2>3, JobEndsKeepsCore
  <2>4. CASE /\ ~sess[n].closed
             /\ sess' = [sess EXCEPT ![n].closed = TRUE] /\ job' = [job EXCEPT ![t].pc = "wait"]
    <3> DEFINE r == [sess[n] EXCEPT !.closed = TRUE]
               j == [job[t] EXCEPT !.pc = "wait"]
    <3>0. sess[n] \in Session /\ job[t] \in Jobs
      BY <2>1 DEF CoreInv
    <3>1. r \in Session /\ r.sid = sess[n].sid /\ r.closed /\ r.end = sess[n].end
      BY <3>0 DEF Session
    <3>2. sess' = [sess EXCEPT ![n] = r]
      BY <2>4
    <3>3. j \in Jobs /\ j.n = n /\ j.pc = "wait"
      BY <3>0 DEF Jobs
    <3>4. job' = [job EXCEPT ![t] = j]
      BY <2>4
    <3>5. Released(r)
      BY <2>1, <2>4, <3>1 DEF CoreInv, Released
    <3> HIDE DEF r, j
    <3>6. /\ sess' \in Seq(Session) /\ Len(sess') = Len(sess)
          /\ \A m \in 1 .. Len(sess) : sess'[m] = IF m = n THEN r ELSE sess[m]
      BY <2>1, <3>1, <3>2, SessionChange DEF CoreInv
    <3>7. /\ job' \in [Tasks -> Jobs]
          /\ \A u \in Tasks : job'[u] = IF u = t THEN j ELSE job[u]
      BY <3>3, <3>4 DEF CoreInv
    <3>8. \A u \in Tasks : job[u].pc = "wait" => job[u].n \in 1 .. Len(sess)
      BY DEF CoreInv, Jobs
    <3>9. TableIsOpen'
      BY <2>1, <3>1, <3>6 DEF CoreInv, TableIsOpen
    <3>10. \A m \in 1 .. Len(sess') : Released(sess'[m])
      BY <3>5, <3>6 DEF CoreInv
    <3> HIDE DEF n
    <3>11. \A u \in Tasks :
         /\ job'[u].n = job[u].n
         /\ job'[u].n # 0 <=> job'[u].pc \in {"emit", "wait"}
         /\ job'[u].pc = "disconnect" => job'[u].sid \in Sids
      BY <2>1, <3>3, <3>7 DEF CoreInv, n
    <3>12. \A u \in Tasks : job'[u].pc = "wait" => sess'[job'[u].n].closed
      <4> SUFFICES ASSUME NEW u \in Tasks, job'[u].pc = "wait"
                   PROVE  sess'[job'[u].n].closed
        OBVIOUS
      <4>1. CASE u = t
        BY <4>1, <2>1, <3>1, <3>3, <3>6, <3>7
      <4>2. CASE u # t
        <5>1. job'[u] = job[u] /\ job[u].n \in 1 .. Len(sess) /\ sess[job[u].n].closed
          BY <4>2, <3>7, <3>8 DEF CoreInv
        <5> QED
          BY <5>1, <3>1, <3>6
      <4> QED
        BY <4>1, <4>2
    <3>13. \A u \in Tasks : /\ job'[u].n <= Len(sess')
                            /\ \A s \in Sids : loops'[s] # 0 => loops'[s] # job'[u].n
      BY <2>1, <3>6, <3>11 DEF CoreInv
    <3>14. loops' \in [Sids -> Nat] /\ \A s \in Sids : loops'[s] <= Len(sess')
      BY <2>1, <3>6 DEF CoreInv
    <3>15. CoreInv'
      BY <3>6, <3>7, <3>9, <3>10, <3>11, <3>12, <3>13, <3>14 DEF CoreInv
    <3>16. Tracking
      BY <2>1, <3>1, <3>6, <3>11 DEF Tracking
    <3> QED
      BY <2>2, <3>15, <3>16
  <2>5. CASE Release(t, n)
    BY <2>1, <2>2, <2>5, ReleaseKeepsCore
  <2> QED
    BY <1>7, <2>3, <2>4, <2>5 DEF CloseAgent
<1>8. ASSUME NEW t \in Tasks, CloseWait(t) PROVE Good
  <2>1. job[t].n # 0
    BY <1>8 DEF CloseWait, CoreInv
  <2> QED
    BY <1>8, <2>1, ReleaseKeepsCore, ReleaseKeepsJoins DEF CloseWait
<1>9. ASSUME NEW s \in Sids, CloseSession(s) PROVE Good
  <2>1. job[Stop].n = 0
    BY <1>9, <1>p DEF CloseSession, CoreInv
  <2> QED
    BY <1>9, <1>p, <2>1, CloseBeginKeepsCore, BoundsAssumption DEF CloseSession, JoinInv
<1>10. ASSUME NEW s \in Sids, CleanUpTask(s) PROVE Good
  <2>1. job[s].n = 0
    BY <1>10, <1>s DEF CleanUpTask, CoreInv
  <2> QED
    BY <1>10, <1>s, <2>1, CloseBeginKeepsCore DEF CleanUpTask, JoinInv
<1>11. CASE CleanUp
  <2>1. PICK idle \in SUBSET Sids :
          /\ \A s \in idle : job[s].n = 0
          /\ job' = [t \in Tasks |-> IF t \in idle THEN Job("task", t, 0, {}) ELSE job[t]]
    BY <1>11, <1>s DEF CleanUp, Running, CoreInv
  <2>2. \A s \in idle : LET j == Job("task", s, 0, {})
                        IN  j \in Jobs /\ j.n = 0 /\ j.pc = "task"
    BY DEF Job, Jobs
  <2>3. UNCHANGED <<loops, sess>> /\ JoinInv'
    BY <1>11 DEF CleanUp, JoinInv
  <2>4. CoreInv'
    BY <2>1, <2>2, <2>3 DEF CoreInv, TableIsOpen
  <2>5. \A t \in Tasks : job'[t].n = job[t].n
    BY <2>1, <2>2
  <2> QED
    BY <2>3, <2>4, <2>5 DEF Tracking
<1>12. CASE CleanUpTimeout
  <2> DEFINE closing == {s \in Sids : job[s].pc # "idle"}
             cut(n) == \E s \in closing : job[s].n = n
  <2>1. /\ job' = [t \in Tasks |-> IF t \in closing THEN NoJob ELSE job[t]]
        /\ sess' = [n \in DOMAIN sess |->
                      IF cut(n) THEN [sess[n] EXCEPT !.end = "cancelled"] ELSE sess[n]]
        /\ UNCHANGED <<loops, conns, join, stops>>
        /\ \A s \in closing : job[s].pc = "wait"
    BY <1>12 DEF CleanUpTimeout
  <2>2. NoJob \in Jobs /\ NoJob.n = 0 /\ NoJob.pc = "idle"
    BY DEF NoJob, Job, Jobs
  <2>3. ASSUME NEW r \in Session
        PROVE  LET k == [r EXCEPT !.end = "cancelled"]
               IN  k \in Session /\ k.sid = r.sid /\ k.closed = r.closed /\ k.end = "cancelled"
    BY DEF Session
  <2> HIDE DEF cut
  <2>4. \A n \in 1 .. Len(sess) :
          /\ sess'[n] \in Session
          /\ sess'[n].sid = sess[n].sid /\ sess'[n].closed = sess[n].closed
          /\ sess'[n] = sess[n] \/ sess'[n].end = "cancelled"
    BY <2>1, <2>3 DEF CoreInv
  <2>5. sess' \in Seq(Session) /\ Len(sess') = Len(sess)
    <3>1. DOMAIN sess = 1 .. Len(sess) /\ Len(sess) \in Nat
      BY DEF CoreInv
    <3>2. DOMAIN sess' = 1 .. Len(sess)
      BY <2>1, <3>1
    <3>3. sess' = [n \in 1 .. Len(sess) |-> sess'[n]]
      BY <2>1, <3>1
    <3>4. sess' \in [1 .. Len(sess) -> Session]
      BY <2>4, <3>3
    <3> QED
      BY <3>1, <3>2, <3>4
  <2>6. JoinInv'
    BY <2>1 DEF JoinInv
  <2>7. \A n \in 1 .. Len(sess) : Released(sess'[n])
    BY <2>4 DEF CoreInv, Released
  <2>8. TableIsOpen'
    BY <2>1, <2>4 DEF CoreInv, TableIsOpen
  <2>9. /\ job' \in [Tasks -> Jobs]
        /\ \A u \in Tasks : job'[u] = NoJob \/ job'[u] = job[u]
    BY <2>1, <2>2 DEF CoreInv
  <2>10. \A u \in Tasks : job[u].pc = "wait" => job[u].n \in 1 .. Len(sess)
    BY DEF CoreInv, Jobs
  <2>11. \A t \in Tasks :
         /\ job'[t].n <= Len(sess')
         /\ job'[t].n # 0 <=> job'[t].pc \in {"emit", "wait"}
         /\ job'[t].pc = "disconnect" => job'[t].sid \in Sids
         /\ job'[t].pc = "wait" => sess'[job'[t].n].closed
         /\ \A s \in Sids : loops'[s] # 0 => loops'[s] # job'[t].n
    BY <2>1, <2>2, <2>4, <2>5, <2>9, <2>10 DEF CoreInv
  <2>12. CoreInv'
    BY <2>1, <2>5, <2>7, <2>8, <2>9, <2>11 DEF CoreInv
  <2>13. \A t \in Tasks : job'[t].n = job[t].n \/ job[t].pc = "wait"
    BY <2>1
  <2>14. Tracking
    BY <2>1, <2>4, <2>5, <2>10, <2>13 DEF CoreInv, Tracking
  <2> QED
    BY <2>6, <2>12, <2>14
<1>13. ASSUME NEW n \in DOMAIN sess, Start(n) PROVE Good
  <2>1. n \in 1 .. Len(sess) /\ sess[n] \in Session /\ Released(sess[n])
    BY <1>13 DEF CoreInv
  <2>2. UNCHANGED <<loops, conns, join, job, stops>>
    BY <1>13 DEF Start, StartBegin, StartStep, StartRuntime, StartController, StartRaises
  <2>3. PICK r \in Session : /\ sess' = [sess EXCEPT ![n] = r]
                             /\ r.sid = sess[n].sid /\ r.closed = sess[n].closed
                             /\ Released(r)
    <3>1. CASE StartBegin(n)
      <4> DEFINE r == [sess[n] EXCEPT !.start = IF sess[n].closed THEN "never" ELSE "env"]
      <4>1. r \in Session /\ r.sid = sess[n].sid /\ r.closed = sess[n].closed /\ Released(r)
        BY <2>1 DEF Session, Released, Starting
      <4>2. sess' = [sess EXCEPT ![n] = r]
        BY <3>1 DEF StartBegin, StartStep
      <4> HIDE DEF r
      <4> QED
        BY <4>1, <4>2
    <3>2. CASE StartRuntime(n)
      <4> DEFINE r == [sess[n] EXCEPT !.start = "connect", !.runtime = "up"]
      <4>1. r \in Session /\ r.sid = sess[n].sid /\ r.closed = sess[n].closed /\ Released(r)
        BY <2>1, <3>2 DEF Session, Released, Starting, StartRuntime
      <4>2. sess' = [sess EXCEPT ![n] = r]
        BY <2>1, <3>2 DEF StartRuntime, CoreInv, Session
      <4> HIDE DEF r
      <4> QED
        BY <4>1, <4>2
    <3>3. CASE StartController(n)
      <4> DEFINE r == [sess[n] EXCEPT !.start = "done", !.controller = "open"]
      <4>1. r \in Session /\ r.sid = sess[n].sid /\ r.closed = sess[n].closed /\ Released(r)
        BY <2>1, <3>3 DEF Session, Released, Starting, StartController
      <4>2. sess' = [sess EXCEPT ![n] = r]
        BY <2>1, <3>3 DEF StartController, CoreInv, Session
      <4> HIDE DEF r
      <4> QED
        BY <4>1, <4>2
    <3>4. CASE StartRaises(n)
      <4> DEFINE r == [sess[n] EXCEPT !.start = "failed"]
      <4>0. PICK from \in Starting : StartStep(n, from, "failed")
        BY <3>4 DEF StartRaises
      <4>1. r \in Session /\ r.sid = sess[n].sid /\ r.closed = sess[n].closed /\ Released(r)
        BY <2>1, <4>0 DEF Session, Released, Starting, StartStep
      <4>2. sess' = [sess EXCEPT ![n] = r]
        BY <4>0 DEF StartStep
      <4> HIDE DEF r
      <4> QED
        BY <4>1, <4>2
    <3> QED
      BY <1>13, <3>1, <3>2, <3>3, <3>4 DEF Start
  <2> QED
    BY <2>1, <2>2, <2>3, StartKeepsCore DEF JoinInv
<1>14. ASSUME NEW n \in DOMAIN sess, Age(n) PROVE Good
  <2> DEFINE r == [sess[n] EXCEPT !.old = TRUE]
  <2>1. n \in 1 .. Len(sess) /\ sess[n] \in Session /\ Released(sess[n])
    BY <1>14 DEF CoreInv
  <2>2. r \in Session /\ r.sid = sess[n].sid /\ r.closed = sess[n].closed /\ Released(r)
    BY <2>1 DEF Session, Released
  <2>3. sess' = [sess EXCEPT ![n] = r] /\ UNCHANGED <<loops, conns, join, job, stops>>
    BY <1>14 DEF Age
  <2> HIDE DEF r
  <2> QED
    BY <2>1, <2>2, <2>3, StartKeepsCore DEF JoinInv
<1>15. CASE UNCHANGED vars
  BY <1>15 DEF vars, CoreInv, JoinInv, TableIsOpen, Tracking
<1> HIDE DEF Good
<1>16. ASSUME NEW t \in Tasks, Close(t) PROVE Good
  BY <1>5, <1>6, <1>7, <1>8, <1>16 DEF Close
<1> QED
  BY <1>t, <1>s, <1>p, <1>1, <1>2, <1>3, <1>4, <1>9, <1>10, <1>11, <1>12, <1>13, <1>14,
     <1>15, <1>16 DEF Next, JoinGoesOn

(***************************************************************************)
(* A session that was closed in peace, with no start under way, has        *)
(* neither a controller nor a runtime, and never gets one, whatever raises *)
(* and whoever closes it again; for any number of conversations, clients   *)
(* and sessions.                                                           *)
(***************************************************************************)
THEOREM ClosedIsReleased == Spec => []CleanCloseReleases
<1>1. CoreInv => CleanCloseReleases
  BY DEF CoreInv, CleanCloseReleases, Released
<1> QED
  BY <1>1, CoreInvInit, CoreInvNext, PTL DEF Spec

-----------------------------------------------------------------------------
(***************************************************************************)
(* That every session is found takes more: nobody else starts a loop for   *)
(* the conversation that a join makes room for.                            *)
(***************************************************************************)
OneClientEach == \A c, d \in Clients : Home[c] = Home[d] => c = d

FoundInv ==
    /\ EverySessionFound
    /\ \A c \in Clients : join[c].pc = "evict" => loops[Home[c]] = 0

\* Only a join that finds no loop begins to evict.
LEMMA EvictBegins ==
    ASSUME JoinInv, [Next]_vars, NEW c \in Clients, join'[c].pc = "evict", join[c].pc # "evict"
    PROVE  loops[Home[c]] = 0 /\ UNCHANGED loops
<1>1. ASSUME NEW d \in Clients, Join(d)
      PROVE  loops[Home[c]] = 0 /\ UNCHANGED loops
  BY <1>1 DEF Join, StartLoop, JoinInv, NotJoining
<1>2. ASSUME NEW d \in Clients, Evict(d) PROVE FALSE
  BY <1>2 DEF Evict, JoinInv
<1>3. ASSUME NEW d \in Clients, JoinStart(d) PROVE FALSE
  BY <1>3 DEF JoinStart, StartLoop, JoinInv, NotJoining
<1>4. CASE UNCHANGED join
  BY <1>4
<1>5. ASSUME NEW t \in Tasks, NEW n, Release(t, n) PROVE FALSE
  <2>1. join'[c] = NotJoining \/ join'[c] = join[c]
    BY <1>5 DEF Release
  <2> QED
    BY <2>1 DEF NotJoining
<1>6. ASSUME NEW t \in Tasks, CloseAgent(t) \/ CloseWait(t) PROVE UNCHANGED join
  BY <1>5, <1>6 DEF CloseAgent, CloseWait
<1> QED
  BY <1>1, <1>2, <1>3, <1>4, <1>6
     DEF Next, vars, JoinGoesOn, Close, Tasks, CloseDisconnect, ClosePop, Disconnect,
         CloseSession, CleanUpTask, CleanUp, CleanUpTimeout, Start, Age, StartBegin, StartStep,
         StartRuntime, StartController, StartRaises

\* With one client for each conversation, every step keeps every session found.
LEMMA FoundInvNext ==
    ASSUME OneClientEach, CoreInv, JoinInv, FoundInv, [Next]_vars
    PROVE  FoundInv'
<1>1. CASE Tracking
  <2>1. ASSUME NEW n \in DOMAIN sess', ~sess'[n].closed
        PROVE  loops'[sess'[n].sid] = n \/ \E t \in Tasks : job'[t].n = n
    <3>0. CoreInv'
      BY CoreInvNext
    <3>1. /\ n \in 1 .. Len(sess) /\ n # 0 /\ ~sess[n].closed /\ sess'[n].sid = sess[n].sid
          /\ sess[n].sid \in Sids
      <4>1. n \in 1 .. Len(sess') /\ Len(sess') = Len(sess)
        BY <1>1, <2>1, <3>0 DEF CoreInv, Tracking
      <4>2. sess[n] \in Session
        BY <4>1 DEF CoreInv
      <4>3. sess[n].sid \in Sids
        BY <4>2 DEF Session
      <4> QED
        BY <1>1, <2>1, <4>1, <4>3 DEF Tracking
    <3>2. CASE loops[sess[n].sid] = n
      BY <3>1, <3>2, <1>1 DEF Tracking
    <3>3. ASSUME NEW t \in Tasks, job[t].n = n PROVE job'[t].n = n
      BY <3>1, <3>3, <2>1, <1>1 DEF Tracking
    <3> QED
      BY <3>1, <3>2, <3>3 DEF FoundInv, EverySessionFound, CoreInv
  <2>2. \A c \in Clients : join'[c].pc = "evict" => loops'[Home[c]] = 0
    <3>1. \A c \in Clients : Home[c] \in Sids /\ (loops[Home[c]] = 0 => loops'[Home[c]] = 0)
      BY <1>1, HomeAssumption DEF Tracking
    <3> QED
      BY <3>1, EvictBegins DEF FoundInv
  <2> QED
    BY <2>1, <2>2 DEF FoundInv, EverySessionFound
<1>2. ASSUME NEW c \in Clients, Join(c) \/ JoinStart(c), StartLoop(c) PROVE FoundInv'
  <2>1. loops[Home[c]] = 0 /\ Home[c] \in Sids /\ UNCHANGED job
    BY <1>2, HomeAssumption DEF Join, JoinStart, FoundInv, StartLoop
  <2>2. /\ sess' = Append(sess, NewSession(Home[c]))
        /\ loops' = [loops EXCEPT ![Home[c]] = Len(sess) + 1]
        /\ join' = [join EXCEPT ![c] = NotJoining]
    BY <1>2 DEF StartLoop
  <2>3. NewSession(Home[c]) \in Session /\ NewSession(Home[c]).sid = Home[c]
    BY <2>1 DEF NewSession, Session
  <2>4. /\ Len(sess') = Len(sess) + 1 /\ sess' \in Seq(Session) /\ Len(sess) \in Nat
        /\ sess'[Len(sess) + 1].sid = Home[c]
        /\ \A m \in 1 .. Len(sess) : sess'[m] = sess[m]
    BY <2>2, <2>3 DEF CoreInv
  <2>5. \A s \in Sids : loops'[s] = IF s = Home[c] THEN Len(sess) + 1 ELSE loops[s]
    BY <2>1, <2>2 DEF CoreInv
  <2>6. ASSUME NEW n \in DOMAIN sess', ~sess'[n].closed
        PROVE  loops'[sess'[n].sid] = n \/ \E t \in Tasks : job'[t].n = n
    <3>1. CASE n = Len(sess) + 1
      BY <3>1, <2>1, <2>4, <2>5
    <3>2. CASE n \in 1 .. Len(sess)
      <4>1. sess'[n] = sess[n] /\ sess[n].sid \in Sids /\ n # 0 /\ n \in DOMAIN sess
        <5>1. sess[n] \in Session /\ n \in DOMAIN sess
          BY <3>2 DEF CoreInv
        <5>2. sess[n].sid \in Sids
          BY <5>1 DEF Session
        <5> QED
          BY <3>2, <2>4, <5>1, <5>2
      <4>2. loops[sess[n].sid] = n \/ \E t \in Tasks : job[t].n = n
        BY <4>1, <2>6 DEF FoundInv, EverySessionFound
      <4> QED
        BY <4>1, <4>2, <2>1, <2>5
    <3> QED
      BY <3>1, <3>2, <2>4
  <2>7. \A d \in Clients : join'[d].pc = "evict" => loops'[Home[d]] = 0
    BY <2>2, <2>5, HomeAssumption DEF FoundInv, JoinInv, OneClientEach, NotJoining
  <2> QED
    BY <2>6, <2>7 DEF FoundInv, EverySessionFound
<1> QED
  BY <1>1, <1>2, CoreInvNext DEF Creating

(***************************************************************************)
(* The table and the sessions agree, if each conversation has one client,  *)
(* for any number of conversations, sessions and failures: what is in the  *)
(* table is open and what is open is in the table or being closed.         *)
(***************************************************************************)
THEOREM TableTracksSessions == OneClientEach => (Spec => []SessionsTracked)
<1> SUFFICES ASSUME OneClientEach PROVE Spec => []SessionsTracked
  OBVIOUS
<1>1. Init => FoundInv
  BY DEF Init, FoundInv, EverySessionFound, NotJoining
<1>2. CoreInv /\ FoundInv => SessionsTracked
  BY DEF CoreInv, FoundInv, SessionsTracked
<1> QED
  BY <1>1, <1>2, CoreInvInit, CoreInvNext, FoundInvNext, PTL DEF Spec

(***************************************************************************)
(* Whatever clients a conversation has, a session in the table is one of   *)
(* that conversation and has not begun to close.                           *)
(***************************************************************************)
THEOREM SessionsInTableOpen == Spec => []TableIsOpen
<1>1. CoreInv => TableIsOpen
  BY DEF CoreInv
<1> QED
  BY <1>1, CoreInvInit, CoreInvNext, PTL DEF Spec

-----------------------------------------------------------------------------
(***************************************************************************)
(* The conversations that requests attach to.  What is connected is what   *)
(* one of the tables names; only one of them names something; those who    *)
(* use a conversation use the active one, and are counted; who connects,   *)
(* or cleans up, does so with the lock.                                    *)
(***************************************************************************)
Users == {r \in Requests : req[r].pc = "using"}

ConvObjects == [up : BOOLEAN, borrowed : Nat]
Places == [pc : {"idle", "connecting", "using"}, conv : Nat]

AttachedInv ==
    /\ active \in [conv : Nat, count : Nat]
    /\ detached \in Nat
    /\ convs \in Seq(ConvObjects)
    /\ req \in [Requests -> Places]
    /\ session \in Nat /\ sessions \in Nat
    /\ active.conv <= Len(convs) /\ detached <= Len(convs)
    /\ active.conv = 0 \/ detached = 0
    /\ \A c \in 1 .. Len(convs) : convs[c].up <=> c = active.conv \/ c = detached
    /\ \A r \in Users : req[r].conv = active.conv /\ active.conv # 0
    /\ active.count = Cardinality(Users)
    /\ \A r \in Requests : req[r].pc = "connecting" =>
         lock = r /\ req[r].conv \in 1 .. Len(convs) /\ active.conv = 0 /\ detached = 0
    /\ lock = "cleaner" => cleaning = detached /\ detached # 0

\* Nothing is attached in the beginning.
LEMMA AttachedInvInit == ASSUME Attached!Init PROVE AttachedInv
<1>1. Users = {}
  BY DEF Attached!Init, Attached!Idle, Users
<1>2. Cardinality(Users) = 0
  BY <1>1, FS_EmptySet
<1> QED
  BY <1>1, <1>2
     DEF Attached!Init, Attached!Idle, Attached!Nobody, Attached!Free, AttachedInv, Users, Places

\* One user more, or less.
LEMMA CountUsers ==
    ASSUME AttachedInv, NEW r \in Requests, NEW v \in Places,
           req' = [req EXCEPT ![r] = v]
    PROVE  /\ req' \in [Requests -> Places]
           /\ \A q \in Requests : req'[q] = IF q = r THEN v ELSE req[q]
           /\ Cardinality(Users) \in Nat
           /\ r \in Users /\ v.pc # "using" =>
                Users' = Users \ {r} /\ Cardinality(Users') = Cardinality(Users) - 1
           /\ r \notin Users /\ v.pc = "using" =>
                Users' = Users \cup {r} /\ Cardinality(Users') = Cardinality(Users) + 1
           /\ r \notin Users /\ v.pc # "using" => Users' = Users
<1>1. /\ req' \in [Requests -> Places]
      /\ \A q \in Requests : req'[q] = IF q = r THEN v ELSE req[q]
  BY DEF AttachedInv
<1>2. IsFiniteSet(Users)
  BY RequestsAssumption, FS_Subset DEF Users
<1>3. Cardinality(Users) \in Nat
  BY <1>2, FS_CardinalityType
<1>4. ASSUME r \in Users, v.pc # "using"
      PROVE  Users' = Users \ {r} /\ Cardinality(Users') = Cardinality(Users) - 1
  <2>1. Users' = Users \ {r}
    BY <1>1, <1>4 DEF Users
  <2> QED
    BY <1>2, <1>4, <2>1, FS_RemoveElement
<1>5. ASSUME r \notin Users, v.pc = "using"
      PROVE  Users' = Users \cup {r} /\ Cardinality(Users') = Cardinality(Users) + 1
  <2>1. Users' = Users \cup {r}
    BY <1>1, <1>5 DEF Users
  <2> QED
    BY <1>2, <1>5, <2>1, FS_AddElement
<1>6. ASSUME r \notin Users, v.pc # "using" PROVE Users' = Users
  BY <1>1, <1>6 DEF Users
<1> QED
  BY <1>1, <1>3, <1>4, <1>5, <1>6

\* A conversation object that is added, or changed, leaves the others alone.
LEMMA ConvsChange ==
    ASSUME NEW q \in Seq(ConvObjects), NEW v \in ConvObjects
    PROVE  /\ Len(q) \in Nat
           /\ Append(q, v) \in Seq(ConvObjects)
           /\ Len(Append(q, v)) = Len(q) + 1
           /\ Append(q, v)[Len(q) + 1] = v
           /\ \A c \in 1 .. Len(q) : Append(q, v)[c] = q[c]
           /\ \A n \in 1 .. Len(q) :
                /\ [q EXCEPT ![n] = v] \in Seq(ConvObjects)
                /\ Len([q EXCEPT ![n] = v]) = Len(q)
                /\ \A c \in 1 .. Len(q) : [q EXCEPT ![n] = v][c] = IF c = n THEN v ELSE q[c]
  OBVIOUS

\* attach_to_conversation, in each of its cases.
LEMMA AttachKeepsInv ==
    ASSUME AttachedInv, NEW r \in Requests, Attached!Attach(r)
    PROVE  AttachedInv'
<1>1. /\ r \notin Users /\ lock = "free" /\ UNCHANGED <<cleaning, session, sessions>>
      /\ \A q \in Requests : req[q].pc # "connecting"
  BY RequestsAssumption DEF Attached!Attach, Attached!Free, Users, AttachedInv
<1>2. Cardinality(Users) \in Nat /\ Cardinality(Users) = active.count
  <2>1. IsFiniteSet(Users)
    BY RequestsAssumption, FS_Subset DEF Users
  <2> QED
    BY <2>1, FS_CardinalityType DEF AttachedInv
<1>3. ASSUME active.conv # 0, active' = [active EXCEPT !.count = @ + 1],
             Attached!Uses(r, active.conv), UNCHANGED <<lock, detached, convs>>
      PROVE  AttachedInv'
  <2> DEFINE v == [pc |-> "using", conv |-> active.conv]
  <2>1. v \in Places /\ v.pc = "using" /\ v.conv = active.conv
    BY DEF AttachedInv, Places
  <2>2. req' = [req EXCEPT ![r] = v]
    BY <1>3 DEF Attached!Uses
  <2> HIDE DEF v
  <2>3. /\ req' \in [Requests -> Places]
        /\ \A q \in Requests : req'[q] = IF q = r THEN v ELSE req[q]
        /\ Users' = Users \cup {r} /\ Cardinality(Users') = Cardinality(Users) + 1
    BY <1>1, <2>1, <2>2, CountUsers
  <2>4. /\ active' \in [conv : Nat, count : Nat]
        /\ active'.conv = active.conv /\ active'.count = active.count + 1
    BY <1>2, <1>3 DEF AttachedInv
  <2>5. \A q \in Users' : req'[q].conv = active'.conv /\ active'.conv # 0
    BY <1>3, <2>1, <2>3, <2>4 DEF AttachedInv, Users
  <2>6. \A q \in Requests : req'[q].pc # "connecting"
    BY <1>1, <2>1, <2>3
  <2> QED
    BY <1>1, <1>2, <1>3, <2>3, <2>4, <2>5, <2>6 DEF AttachedInv
<1>4. ASSUME active.conv = 0, detached # 0, active' = [conv |-> detached, count |-> 1],
             detached' = 0,
             Attached!Uses(r, detached), UNCHANGED <<lock, convs>>
      PROVE  AttachedInv'
  <2> DEFINE v == [pc |-> "using", conv |-> detached]
  <2>1. v \in Places /\ v.pc = "using" /\ v.conv = detached
    BY DEF AttachedInv, Places
  <2>2. req' = [req EXCEPT ![r] = v]
    BY <1>4 DEF Attached!Uses
  <2>3. Users = {} /\ Cardinality(Users) = 0
    BY <1>4, FS_EmptySet DEF AttachedInv
  <2> HIDE DEF v
  <2>4. /\ req' \in [Requests -> Places]
        /\ \A q \in Requests : req'[q] = IF q = r THEN v ELSE req[q]
        /\ Users' = {r} /\ Cardinality(Users') = 1
    <3>1. /\ req' \in [Requests -> Places]
          /\ \A q \in Requests : req'[q] = IF q = r THEN v ELSE req[q]
          /\ Users' = Users \cup {r} /\ Cardinality(Users') = Cardinality(Users) + 1
      BY <1>1, <2>1, <2>2, CountUsers
    <3> QED
      BY <2>3, <3>1
  <2>5. active' \in [conv : Nat, count : Nat] /\ active'.conv = detached /\ active'.count = 1
    BY <1>4 DEF AttachedInv
  <2>6. \A q \in Users' : req'[q].conv = active'.conv /\ active'.conv # 0
    BY <1>4, <2>1, <2>4, <2>5
  <2>7. \A q \in Requests : req'[q].pc # "connecting"
    BY <1>1, <2>1, <2>4
  <2>8. \A c \in 1 .. Len(convs) : convs'[c].up <=> c = active'.conv \/ c = detached'
    BY <1>4, <2>5 DEF AttachedInv
  <2> QED
    BY <1>1, <1>4, <2>4, <2>5, <2>6, <2>7, <2>8 DEF AttachedInv
<1>5. ASSUME active.conv = 0, detached = 0,
             convs' = Append(convs, [up |-> TRUE, borrowed |-> session]),
             active' = [conv |-> Len(convs) + 1, count |-> 1],
             Attached!Uses(r, Len(convs) + 1), UNCHANGED <<lock, detached>>
      PROVE  AttachedInv'
  <2> DEFINE v == [pc |-> "using", conv |-> Len(convs) + 1]
             w == [up |-> TRUE, borrowed |-> session]
  <2>0. w \in ConvObjects /\ w.up /\ Len(convs) \in Nat
    BY DEF AttachedInv, ConvObjects
  <2>1. v \in Places /\ v.pc = "using" /\ v.conv = Len(convs) + 1
    BY <2>0 DEF Places
  <2>2. req' = [req EXCEPT ![r] = v] /\ convs' = Append(convs, w)
    BY <1>5 DEF Attached!Uses
  <2>3. Users = {} /\ Cardinality(Users) = 0
    BY <1>5, FS_EmptySet DEF AttachedInv
  <2> HIDE DEF v, w
  <2>4. /\ req' \in [Requests -> Places]
        /\ \A q \in Requests : req'[q] = IF q = r THEN v ELSE req[q]
        /\ Users' = {r} /\ Cardinality(Users') = 1
    <3>1. /\ req' \in [Requests -> Places]
          /\ \A q \in Requests : req'[q] = IF q = r THEN v ELSE req[q]
          /\ Users' = Users \cup {r} /\ Cardinality(Users') = Cardinality(Users) + 1
      BY <1>1, <2>1, <2>2, CountUsers
    <3> QED
      BY <2>3, <3>1
  <2>5. active' \in [conv : Nat, count : Nat] /\ active'.conv = Len(convs) + 1 /\ active'.count = 1
    BY <1>5, <2>0
  <2>6. \A q \in Users' : req'[q].conv = active'.conv /\ active'.conv # 0
    BY <2>0, <2>1, <2>4, <2>5
  <2>7. \A q \in Requests : req'[q].pc # "connecting"
    BY <1>1, <2>1, <2>4
  <2>8. /\ convs' \in Seq(ConvObjects) /\ Len(convs') = Len(convs) + 1
        /\ convs'[Len(convs) + 1] = w /\ \A c \in 1 .. Len(convs) : convs'[c] = convs[c]
    BY <2>0, <2>2, ConvsChange DEF AttachedInv
  <2>9. \A c \in 1 .. Len(convs') : convs'[c].up <=> c = active'.conv \/ c = detached'
    <3> SUFFICES ASSUME NEW c \in 1 .. Len(convs')
                 PROVE  convs'[c].up <=> c = active'.conv \/ c = detached'
      OBVIOUS
    <3>1. CASE c = Len(convs) + 1
      BY <2>0, <2>5, <2>8, <3>1
    <3>2. CASE c \in 1 .. Len(convs)
      BY <1>5, <2>0, <2>5, <2>8, <3>2 DEF AttachedInv
    <3> QED
      BY <2>0, <2>8, <3>1, <3>2
  <2> QED
    BY <1>1, <1>5, <2>0, <2>4, <2>5, <2>6, <2>7, <2>8, <2>9 DEF AttachedInv
<1>6. ASSUME active.conv = 0, detached = 0,
             convs' = Append(convs, [up |-> FALSE, borrowed |-> 0]), lock' = r,
             req' = [req EXCEPT ![r] = [pc |-> "connecting", conv |-> Len(convs) + 1]],
             UNCHANGED <<active, detached>>
      PROVE  AttachedInv'
  <2> DEFINE v == [pc |-> "connecting", conv |-> Len(convs) + 1]
             w == [up |-> FALSE, borrowed |-> 0]
  <2>0. w \in ConvObjects /\ ~w.up /\ Len(convs) \in Nat
    BY DEF AttachedInv, ConvObjects
  <2>1. v \in Places /\ v.pc = "connecting" /\ v.conv = Len(convs) + 1
    BY <2>0 DEF Places
  <2>2. req' = [req EXCEPT ![r] = v] /\ convs' = Append(convs, w)
    BY <1>6
  <2> HIDE DEF v, w
  <2>4. /\ req' \in [Requests -> Places]
        /\ \A q \in Requests : req'[q] = IF q = r THEN v ELSE req[q]
        /\ Users' = Users
    BY <1>1, <2>1, <2>2, CountUsers
  <2>6. \A q \in Users' : req'[q].conv = active'.conv /\ active'.conv # 0
    BY <1>6, <2>4 DEF AttachedInv
  <2>8. /\ convs' \in Seq(ConvObjects) /\ Len(convs') = Len(convs) + 1
        /\ convs'[Len(convs) + 1] = w /\ \A c \in 1 .. Len(convs) : convs'[c] = convs[c]
    BY <2>0, <2>2, ConvsChange DEF AttachedInv
  <2>7. \A q \in Requests : req'[q].pc = "connecting" =>
          lock' = q /\ req'[q].conv \in 1 .. Len(convs') /\ active'.conv = 0 /\ detached' = 0
    BY <1>1, <1>6, <2>0, <2>1, <2>4, <2>8
  <2>9. \A c \in 1 .. Len(convs') : convs'[c].up <=> c = active'.conv \/ c = detached'
    <3> SUFFICES ASSUME NEW c \in 1 .. Len(convs')
                 PROVE  convs'[c].up <=> c = active'.conv \/ c = detached'
      OBVIOUS
    <3>1. CASE c = Len(convs) + 1
      BY <1>6, <2>0, <2>8, <3>1
    <3>2. CASE c \in 1 .. Len(convs)
      BY <1>6, <2>0, <2>8, <3>2 DEF AttachedInv
    <3> QED
      BY <2>0, <2>8, <3>1, <3>2
  <2>10. active'.count = Cardinality(Users')
    BY <1>6, <2>4 DEF AttachedInv
  <2> QED
    BY <1>1, <1>6, <2>0, <2>4, <2>6, <2>7, <2>8, <2>9, <2>10, RequestsAssumption DEF AttachedInv
<1> QED
  BY <1>3, <1>4, <1>5, <1>6 DEF Attached!Attach

\* connect returns, with the lock held.
LEMMA ConnectedKeepsInv ==
    ASSUME AttachedInv, NEW r \in Requests, Attached!Connected(r)
    PROVE  AttachedInv'
<1>1. /\ r \notin Users /\ lock = r /\ req[r].conv \in 1 .. Len(convs)
      /\ active.conv = 0 /\ detached = 0 /\ Users = {} /\ Cardinality(Users) = 0
      /\ lock' = "free" /\ UNCHANGED <<detached, cleaning, session, sessions>>
      /\ \A q \in Requests : req[q].pc = "connecting" => q = r
  BY FS_EmptySet DEF Attached!Connected, Attached!Free, Users, AttachedInv
<1>2. ASSUME convs' = [convs EXCEPT ![req[r].conv].up = TRUE],
             active' = [conv |-> req[r].conv, count |-> 1], Attached!Uses(r, req[r].conv)
      PROVE  AttachedInv'
  <2> DEFINE n == req[r].conv
             v == [pc |-> "using", conv |-> n]
             w == [convs[n] EXCEPT !.up = TRUE]
  <2>0. convs[n] \in ConvObjects /\ n \in Nat /\ n # 0
    <3>1. convs \in Seq(ConvObjects)
      BY DEF AttachedInv
    <3>2. n \in 1 .. Len(convs)
      BY <1>1
    <3> HIDE DEF n
    <3> QED
      BY <3>1, <3>2
  <2>1. w \in ConvObjects /\ w.up
    BY <2>0 DEF ConvObjects
  <2>2. v \in Places /\ v.pc = "using" /\ v.conv = n
    BY <2>0 DEF Places
  <2>3. req' = [req EXCEPT ![r] = v] /\ convs' = [convs EXCEPT ![n] = w]
    BY <1>2 DEF Attached!Uses
  <2> HIDE DEF v, w
  <2>4. /\ req' \in [Requests -> Places]
        /\ \A q \in Requests : req'[q] = IF q = r THEN v ELSE req[q]
        /\ Users' = {r} /\ Cardinality(Users') = 1
    <3>1. /\ req' \in [Requests -> Places]
          /\ \A q \in Requests : req'[q] = IF q = r THEN v ELSE req[q]
          /\ Users' = Users \cup {r} /\ Cardinality(Users') = Cardinality(Users) + 1
      BY <1>1, <2>2, <2>3, CountUsers
    <3> QED
      BY <1>1, <3>1
  <2>5. active' \in [conv : Nat, count : Nat] /\ active'.conv = n /\ active'.count = 1
    BY <1>2, <2>0
  <2>6. \A q \in Users' : req'[q].conv = active'.conv /\ active'.conv # 0
    BY <2>0, <2>2, <2>4, <2>5
  <2>7. \A q \in Requests : req'[q].pc # "connecting"
    BY <1>1, <2>2, <2>4
  <2>8. /\ convs' \in Seq(ConvObjects) /\ Len(convs') = Len(convs)
        /\ \A c \in 1 .. Len(convs) : convs'[c] = IF c = n THEN w ELSE convs[c]
    BY <1>1, <2>1, <2>3, ConvsChange DEF AttachedInv
  <2> HIDE DEF n
  <2>9. \A c \in 1 .. Len(convs') : convs'[c].up <=> c = active'.conv \/ c = detached'
    BY <1>1, <2>0, <2>1, <2>5, <2>8 DEF AttachedInv
  <2>10. n <= Len(convs)
    BY <1>1 DEF n
  <2> QED
    BY <1>1, <2>0, <2>4, <2>5, <2>6, <2>7, <2>8, <2>9, <2>10, RequestsAssumption DEF AttachedInv
<1>3. ASSUME req' = [req EXCEPT ![r] = Attached!Idle], UNCHANGED <<convs, active>>
      PROVE  AttachedInv'
  <2>1. /\ Attached!Idle \in Places
        /\ Attached!Idle.pc = "idle"
    BY DEF Attached!Idle, Places
  <2>2. /\ req' \in [Requests -> Places]
        /\ \A q \in Requests : req'[q] = IF q = r THEN Attached!Idle ELSE req[q]
        /\ Users' = Users
    BY <1>1, <1>3, <2>1, CountUsers
  <2>3. \A q \in Requests : req'[q].pc # "connecting"
    BY <1>1, <2>1, <2>2
  <2> QED
    BY <1>1, <1>3, <2>2, <2>3 DEF AttachedInv
<1> QED
  BY <1>2, <1>3 DEF Attached!Connected

\* detach_from_conversation: the last user leaves the conversation to the clean-up.
LEMMA DetachKeepsInv ==
    ASSUME AttachedInv, NEW r \in Requests, Attached!Detach(r)
    PROVE  AttachedInv'
<1>1. /\ r \in Users /\ lock = "free" /\ req' = [req EXCEPT ![r] = Attached!Idle]
      /\ UNCHANGED <<lock, convs, cleaning, session, sessions>>
      /\ active.conv # 0 /\ detached = 0 /\ req[r].conv = active.conv
      /\ \A q \in Requests : req[q].pc # "connecting"
  BY RequestsAssumption DEF Attached!Detach, Attached!Free, Users, AttachedInv
<1>2. /\ Attached!Idle \in Places
      /\ Attached!Idle.pc = "idle"
  BY DEF Attached!Idle, Places
<1>3. /\ req' \in [Requests -> Places]
      /\ \A q \in Requests : req'[q] = IF q = r THEN Attached!Idle ELSE req[q]
      /\ Users' = Users \ {r} /\ Cardinality(Users') = Cardinality(Users) - 1
      /\ Cardinality(Users) \in Nat /\ Cardinality(Users) = active.count
  BY <1>1, <1>2, CountUsers DEF AttachedInv
<1>4. \A q \in Requests : req'[q].pc # "connecting"
  BY <1>1, <1>2, <1>3
<1>5. CASE active.count > 1
  <2>1. active' = [active EXCEPT !.count = @ - 1] /\ UNCHANGED detached
    BY <1>1, <1>5 DEF Attached!Detach
  <2>2. /\ active' \in [conv : Nat, count : Nat]
        /\ active'.conv = active.conv /\ active'.count = active.count - 1
    <3>1. active \in [conv : Nat, count : Nat] /\ active.count - 1 \in Nat
      BY <1>3, <1>5 DEF AttachedInv
    <3> QED
      BY <2>1, <3>1
  <2>3. \A q \in Users' : req'[q].conv = active'.conv /\ active'.conv # 0
    BY <1>1, <1>3, <2>2 DEF AttachedInv, Users
  <2> QED
    BY <1>1, <1>3, <1>4, <2>1, <2>2, <2>3 DEF AttachedInv
<1>6. CASE ~(active.count > 1)
  <2>1. active' = Attached!Nobody /\ detached' = active.conv
    BY <1>1, <1>6 DEF Attached!Detach
  <2>2. active' \in [conv : Nat, count : Nat] /\ active'.conv = 0 /\ active'.count = 0
    BY <2>1 DEF Attached!Nobody
  <2>3. Users' = {} /\ Cardinality(Users') = 0
    <3>1. IsFiniteSet(Users')
      <4>1. Users' \subseteq Requests
        BY DEF Users
      <4> QED
        BY <4>1, RequestsAssumption, FS_Subset
    <3>2. Cardinality(Users') \in Nat
      BY <3>1, FS_CardinalityType
    <3>3. Cardinality(Users') = 0
      BY <1>3, <1>6, <3>2
    <3> QED
      BY <3>1, <3>3, FS_EmptySet
  <2>4. active.conv \in Nat /\ active.conv <= Len(convs)
    BY DEF AttachedInv
  <2>5. \A c \in 1 .. Len(convs') : convs'[c].up <=> c = active'.conv \/ c = detached'
    BY <1>1, <2>1, <2>2, <2>4 DEF AttachedInv
  <2> QED
    BY <1>1, <1>3, <1>4, <2>1, <2>2, <2>3, <2>4, <2>5 DEF AttachedInv
<1> QED
  BY <1>5, <1>6

\* Every step of requests, of the clean-up and of the session preserves the invariant.
LEMMA AttachedInvNext == ASSUME AttachedInv, [Attached!Next]_Attached!vars PROVE AttachedInv'
<1>1. CASE Attached!CleanBegin
  <2>1. /\ lock = "free" /\ lock' = "cleaner" /\ cleaning' = detached /\ detached # 0
        /\ UNCHANGED <<active, detached, convs, req, session, sessions>>
    BY <1>1 DEF Attached!CleanBegin, Attached!Free, Attached!Cleaner
  <2>2. \A q \in Requests : req[q].pc # "connecting"
    BY <2>1, RequestsAssumption DEF AttachedInv
  <2> QED
    BY <2>1, <2>2 DEF AttachedInv, Users
<1>2. CASE Attached!CleanEnd
  <2> DEFINE n == cleaning
             w == [convs[n] EXCEPT !.up = FALSE]
  <2>0. convs \in Seq(ConvObjects)
    BY DEF AttachedInv
  <2>1. /\ n = detached /\ detached # 0 /\ active.conv = 0 /\ n \in 1 .. Len(convs)
        /\ lock' = "free" /\ detached' = 0 /\ convs' = [convs EXCEPT ![n].up = FALSE]
        /\ UNCHANGED <<active, req, session, sessions>>
    BY <1>2 DEF Attached!CleanEnd, Attached!Free, Attached!Cleaner, AttachedInv
  <2>2. convs[n] \in ConvObjects
    <3>1. n \in 1 .. Len(convs)
      BY <2>1
    <3> HIDE DEF n
    <3> QED
      BY <2>0, <3>1
  <2>3. w \in ConvObjects /\ ~w.up
    BY <2>2 DEF ConvObjects
  <2>4. convs' = [convs EXCEPT ![n] = w]
    BY <2>1
  <2> HIDE DEF w
  <2>5. /\ convs' \in Seq(ConvObjects) /\ Len(convs') = Len(convs)
        /\ \A c \in 1 .. Len(convs) : convs'[c] = IF c = n THEN w ELSE convs[c]
    <3>1. n \in 1 .. Len(convs)
      BY <2>1
    <3> HIDE DEF n
    <3> QED
      BY <2>0, <2>3, <2>4, <3>1, ConvsChange
  <2>6. \A q \in Requests : req[q].pc # "connecting"
    BY <2>1, RequestsAssumption DEF AttachedInv
  <2>7. \A c \in 1 .. Len(convs') : convs'[c].up <=> c = active'.conv \/ c = detached'
    BY <2>1, <2>3, <2>5 DEF AttachedInv
  <2>8. Users' = Users
    BY <2>1 DEF Users
  <2> QED
    BY <2>1, <2>5, <2>6, <2>7, <2>8 DEF AttachedInv
<1>3. CASE Attached!SessionStarts
  BY <1>3 DEF Attached!SessionStarts, AttachedInv, Users
<1>4. CASE Attached!SessionCloses
  BY <1>4 DEF Attached!SessionCloses, AttachedInv, Users
<1>5. CASE UNCHANGED Attached!vars
  BY <1>5 DEF Attached!vars, AttachedInv, Users
<1> QED
  BY <1>1, <1>2, <1>3, <1>4, <1>5, AttachKeepsInv, ConnectedKeepsInv, DetachKeepsInv
     DEF Attached!Next

\* The instance counts as the library does.
LEMMA SameCardinality == \A S : Attached!Cardinality(S) = Cardinality(S)
  BY DEF Attached!Cardinality, Cardinality

(***************************************************************************)
(* A conversation that requests use is connected and counts them, and what *)
(* is connected is in exactly one of the two tables, for any number of     *)
(* requests, conversations and sessions.                                   *)
(***************************************************************************)
THEOREM ConversationsStayConnected == Attached!Spec => []ConversationsKept
<1>1. ASSUME AttachedInv PROVE ConversationsKept
  <2>1. \A r \in Users : Attached!Holders(active.conv) = Users
    <3>1. \A q \in Requests : req[q] = [pc |-> "using", conv |-> active.conv] <=> q \in Users
      BY <1>1 DEF AttachedInv, Users, Places
    <3> QED
      BY <3>1 DEF Attached!Holders, Users
  <2>2. \A r \in Requests : req[r].pc = "using" =>
         /\ convs[req[r].conv].up
         /\ req[r].conv = active.conv
         /\ active.count = Attached!Cardinality(Attached!Holders(active.conv))
    <3> SUFFICES ASSUME NEW r \in Requests, req[r].pc = "using"
                 PROVE  /\ convs[active.conv].up /\ req[r].conv = active.conv
                        /\ active.count = Cardinality(Attached!Holders(active.conv))
      BY SameCardinality
    <3>1. r \in Users
      BY DEF Users
    <3>2. req[r].conv = active.conv /\ active.conv # 0 /\ active.count = Cardinality(Users)
      BY <1>1, <3>1 DEF AttachedInv
    <3>3. active.conv \in 1 .. Len(convs)
      BY <1>1, <3>2 DEF AttachedInv
    <3>4. convs[active.conv].up
      BY <1>1, <3>3 DEF AttachedInv
    <3> QED
      BY <2>1, <3>1, <3>2, <3>4
  <2>3. \A c \in DOMAIN convs : convs[c].up => (active.conv = c) # (detached = c)
    BY <1>1 DEF AttachedInv
  <2> QED
    BY <2>2, <2>3, Zenon DEF ConversationsKept, Attached!ConversationsKept
<1> QED
  BY <1>1, AttachedInvInit, AttachedInvNext, PTL DEF Attached!Spec

-----------------------------------------------------------------------------
(***************************************************************************)
(* The cluster.  An owner from whom the key was not taken has it set, so   *)
(* that SET NX fails while there is one.  As long as no key expired early, *)
(* a server that is done with the delete has nothing else in hand: it owns *)
(* the conversation no longer, and nobody else does.                       *)
(***************************************************************************)
OneThing(s) ==
    /\ starting[s] + deleting[s] <= 1
    /\ loop[s] => starting[s] = 0 /\ deleting[s] = 0

ClusterInv ==
    /\ key \in BOOLEAN
    /\ loop \in [Servers -> BOOLEAN]
    /\ starting \in [Servers -> Nat]
    /\ deleting \in [Servers -> Nat]
    /\ lapses \in Nat
    /\ Cluster!OneOwner
    /\ Cluster!OwnerHasKey
    /\ lapses = 0 => \A s \in Servers : OneThing(s)

\* What the owners, and whether their key is there, depend on.
owning == <<key, loop, starting, deleting, lapses, lapsed>>

\* Nobody owns the conversation in the beginning.
LEMMA ClusterInvInit == ASSUME Cluster!Init PROVE ClusterInv
<1>1. /\ key = FALSE /\ lapses = 0 /\ lapsed = {}
      /\ loop = [s \in Servers |-> FALSE]
      /\ starting = [s \in Servers |-> 0] /\ deleting = [s \in Servers |-> 0]
  BY DEF Cluster!Init
<1>2. Cluster!Owners = {} /\ \A s \in Servers : OneThing(s)
  BY <1>1 DEF Cluster!Owners, OneThing
<1> QED
  BY <1>1, <1>2 DEF ClusterInv, Cluster!OneOwner, Cluster!OwnerHasKey

\* A step that changes none of it.
LEMMA SameOwners == ASSUME ClusterInv, UNCHANGED owning PROVE ClusterInv'
  BY DEF owning, ClusterInv, OneThing, Cluster!OneOwner, Cluster!OwnerHasKey, Cluster!Owners

\* maybe_start_agent_loop makes an owner only where none has the key.
LEMMA MaybeStartKeepsOwners ==
    ASSUME ClusterInv, NEW s \in Servers, Cluster!MaybeStart(s), UNCHANGED <<loop, deleting, lapses>>
    PROVE  ClusterInv'
<1>1. CASE key /\ UNCHANGED <<key, starting, lapsed>>
  BY <1>1, SameOwners DEF owning
<1>2. CASE ~key /\ Cluster!Created(s)
  <2>1. /\ key' = TRUE /\ lapsed' = lapsed \ {s}
        /\ starting' = [starting EXCEPT ![s] = @ + 1]
    BY <1>2 DEF Cluster!Created
  <2>2. Cluster!Owners \subseteq lapsed
    BY <1>2 DEF ClusterInv, Cluster!OwnerHasKey
  <2>3. Cluster!Owners' = Cluster!Owners \cup {s}
    BY <2>1 DEF ClusterInv, Cluster!Owners
  <2>4. starting' \in [Servers -> Nat]
    BY <2>1 DEF ClusterInv
  <2>5. Cluster!OneOwner' /\ Cluster!OwnerHasKey'
    BY <2>1, <2>2, <2>3 DEF ClusterInv, Cluster!OneOwner, Cluster!OwnerHasKey
  <2>6. ASSUME lapses = 0, NEW r \in Servers PROVE OneThing(r)'
    <3>1. Cluster!Owners = {}
      BY <2>2, <2>6 DEF ClusterInv, Cluster!OneOwner
    <3>2. ~loop[r] /\ starting[r] = 0 /\ deleting[r] = 0
      BY <3>1 DEF ClusterInv, Cluster!Owners
    <3> QED
      BY <2>1, <3>2 DEF ClusterInv, OneThing
  <2> QED
    BY <2>1, <2>4, <2>5, <2>6 DEF ClusterInv
<1> QED
  BY <1>1, <1>2 DEF Cluster!MaybeStart

\* The first part of _close_session leaves a server an owner until the key is deleted.
LEMMA CloseLocalKeepsOwners ==
    ASSUME ClusterInv, NEW s \in Servers, Cluster!CloseLocal(s),
           UNCHANGED <<key, starting, lapses, lapsed>>
    PROVE  ClusterInv'
<1>1. /\ loop' = [loop EXCEPT ![s] = FALSE]
      /\ deleting' = [deleting EXCEPT ![s] = IF loop[s] THEN @ + 1 ELSE @]
  BY DEF Cluster!CloseLocal
<1>2. loop' \in [Servers -> BOOLEAN] /\ deleting' \in [Servers -> Nat]
  BY <1>1 DEF ClusterInv
<1>3. Cluster!Owners' = Cluster!Owners
  BY <1>1 DEF ClusterInv, Cluster!Owners
<1>4. Cluster!OneOwner' /\ Cluster!OwnerHasKey'
  BY <1>3 DEF ClusterInv, Cluster!OneOwner, Cluster!OwnerHasKey
<1>5. ASSUME lapses = 0, NEW r \in Servers PROVE OneThing(r)'
  BY <1>1, <1>5 DEF ClusterInv, OneThing
<1> QED
  BY <1>2, <1>4, <1>5 DEF ClusterInv

\* Registering the session does, too.
LEMMA StartLoopKeepsOwners ==
    ASSUME ClusterInv, NEW s \in Servers, Cluster!StartLoop(s)
    PROVE  ClusterInv'
<1>1. /\ starting[s] > 0 /\ starting' = [starting EXCEPT ![s] = @ - 1]
      /\ loop' = [loop EXCEPT ![s] = TRUE]
      /\ UNCHANGED <<key, deleting, lapses, lapsed>>
  BY DEF Cluster!StartLoop, Cluster!bounds
<1>2. loop' \in [Servers -> BOOLEAN] /\ starting' \in [Servers -> Nat]
  BY <1>1 DEF ClusterInv
<1>3. Cluster!Owners' = Cluster!Owners
  BY <1>1 DEF ClusterInv, Cluster!Owners
<1>4. Cluster!OneOwner' /\ Cluster!OwnerHasKey'
  BY <1>1, <1>3 DEF ClusterInv, Cluster!OneOwner, Cluster!OwnerHasKey
<1>5. ASSUME lapses = 0, NEW r \in Servers PROVE OneThing(r)'
  BY <1>1, <1>5 DEF ClusterInv, OneThing
<1> QED
  BY <1>1, <1>2, <1>4, <1>5 DEF ClusterInv

\* The delete: whoever owns the conversation after it has lost the key, and that is
\* nobody if no key expired early.
LEMMA CloseDeleteKeepsOwners ==
    ASSUME ClusterInv, NEW s \in Servers, Cluster!CloseDelete(s)
    PROVE  ClusterInv'
<1>1. /\ deleting[s] > 0 /\ deleting' = [deleting EXCEPT ![s] = @ - 1]
      /\ key' = FALSE /\ lapsed' = Cluster!Owners'
      /\ UNCHANGED <<loop, starting, lapses>>
  BY DEF Cluster!CloseDelete, Cluster!bounds
<1>2. deleting' \in [Servers -> Nat]
  BY <1>1 DEF ClusterInv
<1>3. ASSUME lapses = 0 PROVE lapsed' = {} /\ \A r \in Servers : OneThing(r)'
  <2>0. s \in Cluster!Owners
    BY <1>1 DEF Cluster!Owners
  <2>1. \A r \in Cluster!Owners : r = s
    BY <1>3, <2>0 DEF ClusterInv, Cluster!OneOwner
  <2>2. ~loop[s] /\ starting[s] = 0 /\ deleting[s] = 1
    <3>1. OneThing(s)
      BY <1>3 DEF ClusterInv
    <3>2. starting[s] \in Nat /\ deleting[s] \in Nat /\ deleting[s] > 0
      BY <1>1 DEF ClusterInv
    <3> QED
      BY <3>1, <3>2 DEF OneThing
  <2>3. ASSUME NEW r \in Servers PROVE ~loop'[r] /\ starting'[r] = 0 /\ deleting'[r] = 0
    <3>1. CASE r = s
      BY <1>1, <2>2, <3>1 DEF ClusterInv
    <3>2. CASE r # s
      <4>1. ~loop[r] /\ ~(starting[r] > 0) /\ ~(deleting[r] > 0)
        BY <2>1, <3>2 DEF Cluster!Owners
      <4> QED
        BY <1>1, <3>2, <4>1 DEF ClusterInv
    <3> QED
      BY <3>1, <3>2
  <2> QED
    BY <1>1, <2>3 DEF Cluster!Owners, OneThing
<1>4. Cluster!OneOwner' /\ Cluster!OwnerHasKey'
  BY <1>1, <1>3 DEF Cluster!OneOwner, Cluster!OwnerHasKey
<1> QED
  BY <1>1, <1>2, <1>3, <1>4 DEF ClusterInv

\* A key that expires early is one that all owners have lost.
LEMMA LapseKeepsOwners == ASSUME ClusterInv, Cluster!Lapse PROVE ClusterInv'
<1>1. /\ key' = FALSE /\ lapsed' = Cluster!Owners /\ lapses' = lapses + 1
      /\ UNCHANGED <<loop, starting, deleting>>
  BY DEF Cluster!Lapse, Cluster!work
<1>2. Cluster!Owners' = Cluster!Owners
  BY <1>1 DEF Cluster!Owners
<1>3. lapses' \in Nat /\ lapses' # 0
  BY <1>1 DEF ClusterInv
<1> QED
  BY <1>1, <1>2, <1>3 DEF ClusterInv, Cluster!OneOwner, Cluster!OwnerHasKey

\* A server that vanishes owns nothing any more.
LEMMA CrashKeepsOwners ==
    ASSUME ClusterInv, NEW s \in Servers, Cluster!Crash(s)
    PROVE  ClusterInv'
<1>1. /\ loop' = [loop EXCEPT ![s] = FALSE]
      /\ starting' = [starting EXCEPT ![s] = 0]
      /\ deleting' = [deleting EXCEPT ![s] = 0]
      /\ lapsed' = lapsed \ {s}
      /\ UNCHANGED <<key, lapses>>
  BY DEF Cluster!Crash
<1>2. /\ loop' \in [Servers -> BOOLEAN]
      /\ starting' \in [Servers -> Nat] /\ deleting' \in [Servers -> Nat]
  BY <1>1 DEF ClusterInv
<1>3. Cluster!Owners' = Cluster!Owners \ {s}
  BY <1>1 DEF ClusterInv, Cluster!Owners
<1>4. Cluster!OneOwner' /\ Cluster!OwnerHasKey'
  BY <1>1, <1>3 DEF ClusterInv, Cluster!OneOwner, Cluster!OwnerHasKey
<1>5. ASSUME lapses = 0, NEW r \in Servers PROVE OneThing(r)'
  BY <1>1, <1>5 DEF ClusterInv, OneThing
<1> QED
  BY <1>1, <1>2, <1>4, <1>5 DEF ClusterInv

\* Every step of the servers, of Redis and every crash preserves the invariant.
LEMMA ClusterInvNext == ASSUME ClusterInv, [Cluster!Next]_Cluster!vars PROVE ClusterInv'
<1> USE DEF Cluster!work, Cluster!bounds
<1>1. CASE Cluster!Expire
  <2>1. key' = FALSE /\ Cluster!Owners = {} /\ UNCHANGED <<loop, starting, deleting, lapses, lapsed>>
    BY <1>1 DEF Cluster!Expire
  <2>2. Cluster!Owners' = {}
    BY <2>1 DEF Cluster!Owners
  <2> QED
    BY <2>1, <2>2 DEF ClusterInv, OneThing, Cluster!OneOwner, Cluster!OwnerHasKey
<1>2. ASSUME NEW c \in Clients, Cluster!ExpireConnection(c) PROVE ClusterInv'
  BY <1>2, SameOwners DEF Cluster!ExpireConnection, owning
<1>3. ASSUME NEW s \in Servers, NEW c \in Clients, Cluster!Join(s, c) PROVE ClusterInv'
  BY <1>3, MaybeStartKeepsOwners DEF Cluster!Join
<1>4. ASSUME NEW s \in Servers, NEW c \in Clients, Cluster!Disconnect(s, c) PROVE ClusterInv'
  BY <1>4, SameOwners DEF Cluster!Disconnect, owning
<1>5. ASSUME NEW s \in Servers, NEW c \in Clients, Cluster!Restart(s, c) PROVE ClusterInv'
  <2>1. CASE UNCHANGED <<key, starting, lapsed>>
    BY <1>5, <2>1, SameOwners DEF Cluster!Restart, owning
  <2>2. CASE Cluster!MaybeStart(s)
    BY <1>5, <2>2, MaybeStartKeepsOwners DEF Cluster!Restart
  <2> QED
    BY <1>5, <2>1, <2>2 DEF Cluster!Restart
<1>6. ASSUME NEW s \in Servers, Cluster!UpdateCollect(s) PROVE ClusterInv'
  BY <1>6, SameOwners DEF Cluster!UpdateCollect, owning
<1>7. ASSUME NEW s \in Servers, Cluster!UpdateExecute(s) PROVE ClusterInv'
  <2>1. UNCHANGED <<loop, starting, deleting, lapses, lapsed>>
    BY <1>7 DEF Cluster!UpdateExecute
  <2>2. key' \in BOOLEAN /\ (key => key')
    BY <1>7, Zenon DEF Cluster!UpdateExecute
  <2> QED
    BY <2>1, <2>2 DEF ClusterInv, OneThing, Cluster!OneOwner, Cluster!OwnerHasKey,
                      Cluster!Owners
<1>8. ASSUME NEW s \in Servers, Cluster!CloseSession(s) PROVE ClusterInv'
  BY <1>8, CloseLocalKeepsOwners DEF Cluster!CloseSession
<1>9. ASSUME NEW s \in Servers, Cluster!CloseDisconnected(s) PROVE ClusterInv'
  BY <1>9, CloseLocalKeepsOwners DEF Cluster!CloseDisconnected
<1>10. ASSUME NEW s \in Servers, Cluster!ProcessMessage(s) PROVE ClusterInv'
  <2>1. CASE UNCHANGED <<loop, deleting>>
    BY <1>10, <2>1, SameOwners DEF Cluster!ProcessMessage, owning
  <2>2. CASE Cluster!CloseLocal(s)
    BY <1>10, <2>2, CloseLocalKeepsOwners DEF Cluster!ProcessMessage
  <2> QED
    BY <1>10, <2>1, <2>2 DEF Cluster!ProcessMessage
<1>11. ASSUME NEW s \in Servers, Cluster!DisconnectFromStopped(s) PROVE ClusterInv'
  BY <1>11, SameOwners DEF Cluster!DisconnectFromStopped, owning
<1>12. CASE UNCHANGED Cluster!vars
  BY <1>12, SameOwners DEF Cluster!vars, owning
<1> QED
  BY <1>1, <1>2, <1>3, <1>4, <1>5, <1>6, <1>7, <1>8, <1>9, <1>10, <1>11, <1>12,
     LapseKeepsOwners, StartLoopKeepsOwners, CloseDeleteKeepsOwners, CrashKeepsOwners
     DEF Cluster!Next

(***************************************************************************)
(* At most one server owns the conversation besides those whose key        *)
(* expired too early, or was deleted by one of them, while they were at    *)
(* work, and without such a key at most one does; for any servers, clients *)
(* and numbers of joins, stops, crashes and keys that expire early, and    *)
(* with refreshes that come late.                                          *)
(***************************************************************************)
THEOREM ClusterOneOwner == Cluster!Spec => []OneOwner
<1>1. ClusterInv => OneOwner
  BY DEF ClusterInv, OneOwner
<1> QED
  BY <1>1, ClusterInvInit, ClusterInvNext, PTL DEF Cluster!Spec

=============================================================================
